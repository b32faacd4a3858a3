---------------------- MODULE DeploymentExecutionProofs ----------------------
(***************************************************************************)
(* Proofs about DeploymentExecution, for any attempts, Applications, plans *)
(* and runners.  What holds only as long as runs neither crash nor outlive *)
(* their job, or only as long as no lock lapses, says so.                  *)
(***************************************************************************)
EXTENDS DeploymentExecution, TLAPS

-----------------------------------------------------------------------------
(* Types *)

NodeStates == {"none", "Waiting", "Syncing", "Succeeded", "Failed", "Skipped", "Blocked", "Terminated"}

RuntimeStates == {"none", "Queued", "Succeeded", "Failed", "Skipped"}

Tasks == Ended \cup {"none", "saving", "syncing", "resuming", "watching", "succeeding", "failing"}

RunState ==
  [pc : {"idle", "loading", "acquiring", "preflight", "running", "completing", "releasing"},
   exec : Executions \cup {"none"}, owner : 0..MaxDeliveries,
   seen : OutcomeStatuses \cup {"none", "Preflight", "Running", "Blocked"},
   runtime : [Nodes -> RuntimeStates], known : [Nodes -> BOOLEAN], task : [Nodes -> Tasks], result : BOOLEAN]

DatabaseOK ==
  /\ version \in [Versions -> OutcomeStatuses \cup {"Candidate", "Deploying", "Superseded", "Terminated"}]
  /\ status \in [Executions -> OutcomeStatuses \cup {"none", "Preflight", "Running", "Blocked", "Terminated"}]
  /\ lockVersion \in [Executions -> Nat]
  /\ node \in [Executions -> [Nodes -> NodeStates]]
  /\ op \in [Executions -> [Nodes -> BOOLEAN]]

JobsOK ==
  job \in [Executions -> [state : {"none", "open", "done"}, left : 0..MaxDeliveries, holder : Runners \cup {"none"}]]

LocksOK ==
  /\ lock \in [Nodes -> [exec : Executions \cup {"none"}, owner : 0..MaxDeliveries]]
  /\ lapsed \subseteq {n \in Nodes : lock[n].exec # "none"}
  /\ \A n \in Nodes : lock[n].exec = "none" => lock[n].owner = 0

OutsideOK ==
  /\ argo \in [Nodes -> [wanted : Executions \cup {"none"}, op : Executions \cup {"none"},
                         phase : {"none", "Running", "Succeeded", "Failed"}]]
  /\ drifted \subseteq Nodes
  /\ started \subseteq Executions \X Nodes

RunsOK ==
  /\ run \in [Runners -> RunState]
  /\ \A r \in Runners : run[r].pc # "idle" => run[r].exec \in Executions

OperatorOK ==
  operator \in [pc : {"idle", "stopping"}, exec : Executions \cup {"none"}, expected : Nat, left : SUBSET Nodes]

RequestsOK == requests \in [Executions -> [Nodes -> Nat]]

(* A stopping operator stops an execution there is; a run that is idle works on none, *)
(* and only a running one has tasks, for Applications it deploys.                     *)
TasksAreRunning ==
  /\ operator = AtEase \/ (operator.pc = "stopping" /\ operator.exec \in Executions)
  /\ \A r \in Runners :
       /\ run[r].pc = "idle" => run[r] = Idle
       /\ \A n \in Nodes : run[r].task[n] # "none" =>
            run[r].pc = "running" /\ n \in Targets[run[r].exec] /\ run[r].runtime[n] = "Queued"

TypeIInv == DatabaseOK /\ JobsOK /\ LocksOK /\ OutsideOK /\ RunsOK /\ OperatorOK /\ RequestsOK /\ TasksAreRunning

(* The parts make the type invariant. *)
LEMMA TypeParts == TypeIInv => TypeOK
  BY DEF TypeIInv, DatabaseOK, JobsOK, LocksOK, OutsideOK, RunsOK, OperatorOK, RequestsOK, TypeOK,
         RunState, NodeStates, RuntimeStates, Tasks

(* Nobody works at first, and there is no execution. *)
LEMMA InitTypes ==
  ASSUME Init
  PROVE  TypeIInv
<1> USE DeploymentExecutionAssumption DEF Init
<1>1. DatabaseOK
  BY DEF DatabaseOK, NodeStates
<1>2. JobsOK /\ OutsideOK /\ OperatorOK /\ RequestsOK
  BY DEF JobsOK, OutsideOK, OperatorOK, RequestsOK, AtEase
<1>3. LocksOK
  BY DEF LocksOK, Locks!Init, Locks!Free
<1>4. RunsOK /\ TasksAreRunning
  BY DEF RunsOK, TasksAreRunning, RunState, RuntimeStates, Tasks, Idle, AtEase
<1> QED  BY <1>1, <1>2, <1>3, <1>4 DEF TypeIInv

(* What a runner does next. *)
NextRun(r, new) == run' = [run EXCEPT ![r] = new]

(* One runner moves. *)
LEMMA RunnerMoves ==
  ASSUME TypeIInv, NEW r \in Runners, NEW new \in RunState, NextRun(r, new),
         new.pc # "idle" => new.exec \in Executions,
         new.pc = "idle" => new = Idle,
         \A n \in Nodes : new.task[n] # "none" =>
            new.pc = "running" /\ n \in Targets[new.exec] /\ new.runtime[n] = "Queued",
         operator' = operator
  PROVE  RunsOK' /\ TasksAreRunning' /\ run'[r] = new /\ \A s \in Runners : s # r => run'[s] = run[s]
<1>1. run \in [Runners -> RunState]
  BY DEF TypeIInv, RunsOK
<1>2. run'[r] = new /\ \A s \in Runners : s # r => run'[s] = run[s]
  BY <1>1 DEF NextRun
<1>3. run' \in [Runners -> RunState]
  BY <1>1 DEF NextRun
<1>4. RunsOK'
  BY <1>2, <1>3 DEF TypeIInv, RunsOK
<1>5. TasksAreRunning'
  <2> SUFFICES ASSUME NEW s \in Runners
               PROVE  /\ run'[s].pc = "idle" => run'[s] = Idle
                      /\ \A n \in Nodes : run'[s].task[n] # "none" =>
                           run'[s].pc = "running" /\ n \in Targets[run'[s].exec] /\ run'[s].runtime[n] = "Queued"
    BY DEF TasksAreRunning, TypeIInv
  <2>1. CASE s = r
    BY <1>2, <2>1
  <2>2. CASE s # r
    BY <1>2, <2>2 DEF TasksAreRunning, TypeIInv
  <2> QED  BY <2>1, <2>2
<1> QED  BY <1>2, <1>4, <1>5

(* A runner at work, and its execution. *)
LEMMA RunnerFacts ==
  ASSUME TypeIInv, NEW r \in Runners
  PROVE  /\ run[r] \in RunState /\ Idle \in RunState
         /\ run[r].pc # "idle" => run[r].exec \in Executions /\ VersionOf[run[r].exec] \in Versions
                                  /\ Targets[run[r].exec] \in SUBSET Nodes /\ Targets[run[r].exec] # {}
         /\ \A n \in Nodes : run[r].task[n] # "none" => run[r].pc = "running"
<1>1. Idle \in RunState
  BY DeploymentExecutionAssumption DEF Idle, RunState, RuntimeStates, Tasks
<1>2. run[r].pc # "idle" => run[r].exec \in Executions
  BY DEF TypeIInv, RunsOK
<1> QED  BY <1>1, <1>2, DeploymentExecutionAssumption DEF TypeIInv, RunsOK, TasksAreRunning, Versions

(* A delivery ends; its job is resolved or open again, if it was still its own. *)
LEMMA RunEnds ==
  ASSUME TypeIInv, NEW r \in Runners, run[r].pc # "idle", NEW done \in BOOLEAN, End(r, done), operator' = operator
  PROVE  RunsOK' /\ TasksAreRunning' /\ JobsOK' /\ NextRun(r, Idle)
<1>1. NextRun(r, Idle)
  BY DEF End, NextRun
<1>2. RunsOK' /\ TasksAreRunning'
  BY <1>1, RunnerFacts, RunnerMoves DEF Idle
<1>3. JobsOK'
  <2>1. run[r].exec \in Executions /\ JobsOK
    BY RunnerFacts DEF TypeIInv
  <2>2. CASE job[run[r].exec].holder # r
    BY <2>1, <2>2 DEF End, JobsOK
  <2>3. CASE job[run[r].exec].holder = r
    BY <2>1, <2>3 DEF End, JobsOK
  <2> QED  BY <2>2, <2>3
<1> QED  BY <1>1, <1>2, <1>3

(* A run without a task goes to another place. *)
LEMMA RunGoesOn ==
  ASSUME TypeIInv, NEW r \in Runners, run[r].pc # "idle", \A n \in Nodes : run[r].task[n] = "none",
         NEW pc \in {"loading", "acquiring", "preflight", "running", "completing", "releasing"}, NEW done \in BOOLEAN,
         Goto(r, pc) \/ (pc = "releasing" /\ GotoRelease(r, done)), operator' = operator
  PROVE  RunsOK' /\ TasksAreRunning' /\ JobsOK' /\ run'[r].pc = pc /\ run'[r].exec = run[r].exec
         /\ \A s \in Runners : s # r => run'[s] = run[s]
<1>1. run[r] \in RunState /\ run[r].exec \in Executions /\ JobsOK
  BY RunnerFacts DEF TypeIInv
<1>2. PICK new \in {[run[r] EXCEPT !.pc = pc], [run[r] EXCEPT !.pc = pc, !.result = done]} : NextRun(r, new)
  BY DEF Goto, GotoRelease, NextRun
<1>3. new \in RunState /\ new.pc = pc /\ new.exec = run[r].exec /\ new.task = run[r].task
  BY <1>1 DEF RunState
<1>4. job' = job
  BY DEF Goto, GotoRelease
<1> QED  BY <1>1, <1>2, <1>3, <1>4, RunnerMoves DEF JobsOK

(* A task of a run goes on. *)
LEMMA TaskGoesOn ==
  ASSUME TypeIInv, NEW r \in Runners, NEW n \in Nodes, run[r].task[n] # "none",
         NEW task \in Tasks, SetTask(r, n, task), operator' = operator
  PROVE  RunsOK' /\ TasksAreRunning' /\ run' = [run EXCEPT ![r] = [run[r] EXCEPT !.task[n] = task]]
<1> DEFINE new == [run[r] EXCEPT !.task[n] = task]
<1>1. run[r] \in RunState /\ run[r].pc = "running" /\ run[r].exec \in Executions
      /\ n \in Targets[run[r].exec] /\ run[r].runtime[n] = "Queued"
  BY RunnerFacts DEF TypeIInv, TasksAreRunning
<1>2. new \in RunState /\ new.pc = "running" /\ new.exec = run[r].exec /\ new.runtime = run[r].runtime
      /\ \A m \in Nodes : new.task[m] = IF m = n THEN task ELSE run[r].task[m]
  BY <1>1 DEF RunState
<1>3. NextRun(r, new)
  BY DEF SetTask, NextRun
<1>4. \A m \in Nodes : new.task[m] # "none" =>
        new.pc = "running" /\ m \in Targets[new.exec] /\ new.runtime[m] = "Queued"
  BY <1>1, <1>2 DEF TypeIInv, TasksAreRunning
<1> HIDE DEF new
<1>5. RunsOK' /\ TasksAreRunning'
  BY <1>1, <1>2, <1>3, <1>4, RunnerMoves
<1> QED  BY <1>3, <1>5 DEF NextRun, new

-----------------------------------------------------------------------------
(* Every step keeps the types *)

(* Claiming, breaking off, and losing a job or locks. *)
LEMMA DeliveryTypes ==
  ASSUME TypeIInv, NEW r \in Runners, NEW x \in Executions,
         Claim(r, x) \/ Break(r) \/ LoseJob(x) \/ LoseLocks(r) \/ NoExecutableNode(r)
  PROVE  TypeIInv'
<1>1. JobsOK /\ DatabaseOK /\ LocksOK /\ OutsideOK /\ OperatorOK /\ RequestsOK /\ RunsOK /\ TasksAreRunning
  BY DEF TypeIInv
<1>2. UNCHANGED <<database, locks, outside, operator, requests, plan>>
  BY DEF Claim, Break, LoseJob, LoseLocks, NoExecutableNode
<1>3. DatabaseOK' /\ LocksOK' /\ OutsideOK' /\ OperatorOK' /\ RequestsOK'
  BY <1>1, <1>2 DEF DatabaseOK, LocksOK, OutsideOK, OperatorOK, RequestsOK, database, locks, outside
<1>4. CASE Claim(r, x)
  <2> DEFINE new == [Idle EXCEPT !.pc = "loading", !.exec = x, !.owner = MaxDeliveries - job[x].left + 1]
  <2>1. job[x].left \in 1..MaxDeliveries /\ MaxDeliveries \in Nat
    BY <1>1, <1>4, DeploymentExecutionAssumption DEF Claim, JobsOK
  <2>2. MaxDeliveries - job[x].left + 1 \in 0..MaxDeliveries /\ job[x].left - 1 \in 0..MaxDeliveries
    BY <2>1
  <2>3. Idle \in RunState
    BY RunnerFacts
  <2>4. new \in RunState /\ new.pc = "loading" /\ new.exec = x /\ \A n \in Nodes : new.task[n] = "none"
    BY <2>2, <2>3 DEF RunState, Idle
  <2>5. NextRun(r, new)
    BY <1>4 DEF Claim, NextRun
  <2> HIDE DEF new
  <2>6. RunsOK' /\ TasksAreRunning'
    BY <1>2, <2>4, <2>5, RunnerMoves
  <2>7. JobsOK'
    BY <1>1, <1>4, <2>2 DEF Claim, JobsOK
  <2> QED  BY <1>3, <2>6, <2>7 DEF TypeIInv
<1>5. CASE LoseJob(x)
  <2>1. JobsOK' /\ run' = run
    BY <1>1, <1>5 DEF LoseJob, JobsOK
  <2> QED  BY <1>1, <1>2, <1>3, <2>1 DEF TypeIInv, RunsOK, TasksAreRunning
<1>6. CASE Break(r) \/ LoseLocks(r) \/ NoExecutableNode(r)
  <2>1. run[r].pc # "idle" /\ End(r, FALSE)
    BY <1>6 DEF Break, LoseLocks, NoExecutableNode, BetweenBatches
  <2> QED  BY <1>2, <1>3, <2>1, RunEnds DEF TypeIInv
<1> QED  BY <1>4, <1>5, <1>6

(* A snapshot of an execution. *)
LEMMA SnapshotTypes ==
  ASSUME TypeIInv, NEW r \in Runners, run[r].pc = "loading",
         NEW seen \in OutcomeStatuses \cup {"Preflight", "Running", "Blocked"},
         NEW saved \in [Nodes -> NodeStates], NEW known \in [Nodes -> BOOLEAN],
         TakeSnapshot(r, seen, saved, known), operator' = operator
  PROVE  RunsOK' /\ TasksAreRunning' /\ JobsOK'
<1> DEFINE new == [run[r] EXCEPT !.pc = "acquiring", !.seen = seen, !.known = known,
                     !.runtime = [n \in Nodes |-> IF n \in Targets[run[r].exec] THEN LoadedStatus(saved[n]) ELSE "none"]]
<1>1. run[r] \in RunState /\ run[r].exec \in Executions /\ JobsOK /\ \A n \in Nodes : run[r].task[n] = "none"
  BY RunnerFacts DEF TypeIInv
<1>2. \A n \in Nodes : LoadedStatus(saved[n]) \in RuntimeStates
  BY DEF LoadedStatus, RuntimeStates
<1>3. new \in RunState /\ new.pc = "acquiring" /\ new.exec = run[r].exec /\ \A n \in Nodes : new.task[n] = "none"
  BY <1>1, <1>2 DEF RunState, RuntimeStates
<1>4. NextRun(r, new) /\ job' = job
  BY DEF TakeSnapshot, NextRun
<1> HIDE DEF new
<1> QED  BY <1>1, <1>3, <1>4, RunnerMoves DEF JobsOK

(* The nodes of an execution that begins. *)
LEMMA FreshNodes ==
  ASSUME NEW x \in Executions
  PROVE  Fresh(x) \in [Nodes -> NodeStates]
  BY DEF Fresh, NodeStates

(* An execution is begun or found. *)
LEMMA LoadTypes ==
  ASSUME TypeIInv, NEW r \in Runners, Prepare(r) \/ Load(r)
  PROVE  TypeIInv'
<1> DEFINE x == run[r].exec
<1>1. JobsOK /\ DatabaseOK /\ LocksOK /\ OutsideOK /\ OperatorOK /\ RequestsOK /\ RunsOK /\ TasksAreRunning
  BY DEF TypeIInv
<1>2. UNCHANGED <<locks, outside, operator, requests, plan>> /\ run[r].pc = "loading"
  BY DEF Prepare, Load
<1>3. LocksOK' /\ OutsideOK' /\ OperatorOK' /\ RequestsOK'
  BY <1>1, <1>2 DEF LocksOK, OutsideOK, OperatorOK, RequestsOK, locks, outside
<1>4. x \in Executions /\ VersionOf[x] \in Versions /\ Fresh(x) \in [Nodes -> NodeStates]
      /\ op[x] \in [Nodes -> BOOLEAN] /\ node[x] \in [Nodes -> NodeStates] /\ operator' = operator
  BY <1>1, <1>2, RunnerFacts, FreshNodes DEF DatabaseOK
<1> HIDE DEF x
<1>5. CASE Prepare(r)
  <2>1. CASE version[VersionOf[x]] \in {"Superseded", "Terminated", "Succeeded", "Failed"}
    <3>1. End(r, FALSE) /\ UNCHANGED database
      BY <1>5, <2>1 DEF Prepare, x
    <3>2. DatabaseOK'
      BY <1>1, <3>1 DEF DatabaseOK, database
    <3> QED  BY <1>2, <1>3, <3>1, <3>2, RunEnds DEF TypeIInv
  <2>2. CASE version[VersionOf[x]] \notin {"Superseded", "Terminated", "Succeeded", "Failed"}
    <3>1. /\ version' = [version EXCEPT ![VersionOf[x]] = "Deploying"]
          /\ status' = [status EXCEPT ![x] = "Preflight"]
          /\ lockVersion' = [lockVersion EXCEPT ![x] = 1]
          /\ node' = [node EXCEPT ![x] = Fresh(x)]
          /\ op' = op
          /\ TakeSnapshot(r, "Preflight", Fresh(x), op[x])
      BY <1>5, <2>2 DEF Prepare, x
    <3>2. DatabaseOK'
      BY <1>1, <1>4, <3>1 DEF DatabaseOK
    <3>3. RunsOK' /\ TasksAreRunning' /\ JobsOK'
      BY <1>2, <1>4, <3>1, SnapshotTypes
    <3> QED  BY <1>3, <3>2, <3>3 DEF TypeIInv
  <2> QED  BY <2>1, <2>2
<1>6. CASE Load(r)
  <2>0. UNCHANGED database
    BY <1>6 DEF Load
  <2>1. DatabaseOK'
    BY <1>1, <2>0 DEF DatabaseOK, database
  <2>2. CASE status[x] = "Terminated"
    <3>1. End(r, TRUE)
      BY <1>6, <2>2 DEF Load, x
    <3> QED  BY <1>2, <1>3, <2>1, <3>1, RunEnds DEF TypeIInv
  <2>3. CASE status[x] # "Terminated"
    <3>1. TakeSnapshot(r, status[x], node[x], op[x]) /\ status[x] # "none"
      BY <1>6, <2>3 DEF Load, x
    <3>2. status[x] \in OutcomeStatuses \cup {"Preflight", "Running", "Blocked"}
      BY <1>1, <1>4, <2>3, <3>1 DEF DatabaseOK
    <3>3. RunsOK' /\ TasksAreRunning' /\ JobsOK'
      BY <1>2, <1>4, <3>1, <3>2, SnapshotTypes
    <3> QED  BY <1>3, <2>1, <3>3 DEF TypeIInv
  <2> QED  BY <2>2, <2>3
<1> QED  BY <1>5, <1>6

(* Locks are handed to an execution, or free. *)
LEMMA GiveTypes ==
  ASSUME LocksOK, NEW A \in SUBSET Nodes, NEW holder \in [exec : Executions \cup {"none"}, owner : 0..MaxDeliveries],
         Locks!Give(A, holder), holder.exec = "none" => lapsed' \subseteq lapsed \ A /\ holder.owner = 0, lapsed' \subseteq lapsed \cup A
  PROVE  LocksOK'
  BY DEF LocksOK, Locks!Give

(* Each operation of the lock table. *)
LEMMA LockTypes ==
  ASSUME LocksOK, NEW x \in Executions, NEW y \in Executions, NEW o \in 0..MaxDeliveries,
         Locks!Take(x, o) \/ Locks!Renew(x, o) \/ Locks!Drop(x, o) \/ Locks!HandOff(x, y, o) \/ Locks!Unlock(x)
           \/ Locks!Lapse \/ UNCHANGED locks
  PROVE  LocksOK'
<1> USE DeploymentExecutionAssumption
<1>1. Targets[x] \in SUBSET Nodes /\ Locks!HeldBy(x) \in SUBSET Nodes /\ 0 \in 0..MaxDeliveries
      /\ Locks!Free \in [exec : Executions \cup {"none"}, owner : 0..MaxDeliveries] /\ Locks!Free.exec = "none" /\ Locks!Free.owner = 0
      /\ [exec |-> x, owner |-> o] \in [exec : Executions \cup {"none"}, owner : 0..MaxDeliveries]
      /\ [exec |-> y, owner |-> o] \in [exec : Executions \cup {"none"}, owner : 0..MaxDeliveries]
      /\ x # "none" /\ y # "none"
  BY DEF Locks!HeldBy, Locks!Free
<1>2. CASE Locks!Take(x, o)
  BY <1>1, <1>2, GiveTypes DEF Locks!Take, Locks!Refresh
<1>3. CASE Locks!Renew(x, o)
  <2>1. lapsed' \subseteq lapsed \cup Targets[x] /\ lock' = lock
    BY <1>3 DEF Locks!Renew, Locks!Refresh
  <2>2. \A n \in Targets[x] : lock[n].exec # "none"
    BY <1>1, <1>3 DEF Locks!Renew, Locks!OwnsAll
  <2> QED  BY <1>1, <2>1, <2>2 DEF LocksOK
<1>4. CASE Locks!Drop(x, o)
  BY <1>1, <1>4, GiveTypes DEF Locks!Drop
<1>5. CASE Locks!HandOff(x, y, o)
  BY <1>1, <1>5, GiveTypes DEF Locks!HandOff, Locks!Refresh
<1>6. CASE Locks!Unlock(x)
  BY <1>1, <1>6, GiveTypes DEF Locks!Unlock
<1>7. CASE Locks!Lapse
  <2>1. \A n \in Nodes : lock[n] # Locks!Free => lock[n].exec # "none"
    BY DEF Locks!Free, LocksOK
  <2> QED  BY <1>7, <2>1 DEF Locks!Lapse, LocksOK
<1>8. CASE UNCHANGED locks
  BY <1>8 DEF locks, LocksOK
<1> QED  BY <1>2, <1>3, <1>4, <1>5, <1>6, <1>7, <1>8

(* Locks are taken, given back and renewed. *)
LEMMA HoldingTypes ==
  ASSUME TypeIInv, NEW r \in Runners, Acquire(r) \/ Release(r) \/ Renew(r)
  PROVE  TypeIInv'
<1>1. JobsOK /\ DatabaseOK /\ LocksOK /\ OutsideOK /\ OperatorOK /\ RequestsOK /\ RunsOK /\ TasksAreRunning
  BY DEF TypeIInv
<1>2. UNCHANGED <<database, outside, operator, requests, plan>> /\ run[r].pc # "idle"
  BY DEF Acquire, Release, Renew
<1>3. DatabaseOK' /\ OutsideOK' /\ OperatorOK' /\ RequestsOK'
  BY <1>1, <1>2 DEF DatabaseOK, OutsideOK, OperatorOK, RequestsOK, database, outside
<1>4. run[r] \in RunState /\ run[r].exec \in Executions /\ run[r].owner \in 0..MaxDeliveries /\ run[r].result \in BOOLEAN
      /\ \A n \in Nodes : run[r].task[n] # "none" => run[r].pc = "running"
  BY <1>2, RunnerFacts DEF RunState
<1>5. LocksOK'
  BY <1>1, <1>4, LockTypes DEF Acquire, Release, Renew
<1>6. RunsOK' /\ TasksAreRunning' /\ JobsOK'
  <2>1. CASE Acquire(r)
    <3> DEFINE pc == IF run[r].seen = "Preflight" THEN "preflight" ELSE "running"
    <3>1. End(r, FALSE) \/ Goto(r, pc)
      BY <2>1 DEF Acquire
    <3>2. pc \in {"loading", "acquiring", "preflight", "running", "completing", "releasing"}
      OBVIOUS
    <3>3. \A n \in Nodes : run[r].task[n] = "none"
      BY <1>4, <2>1 DEF Acquire
    <3> HIDE DEF pc
    <3> QED  BY <1>2, <3>1, <3>2, <3>3, RunEnds, RunGoesOn
  <2>2. CASE Release(r)
    BY <1>2, <1>4, <2>2, RunEnds DEF Release
  <2>3. CASE Renew(r)
    BY <1>1, <1>2, <2>3 DEF Renew, RunsOK, TasksAreRunning, JobsOK
  <2> QED  BY <2>1, <2>2, <2>3
<1> QED  BY <1>3, <1>5, <1>6 DEF TypeIInv

(* Preflight ends. *)
LEMMA PreflightTypes ==
  ASSUME TypeIInv, NEW r \in Runners, PreflightError(r) \/ Block(r) \/ MarkRunning(r)
  PROVE  TypeIInv'
<1> DEFINE x == run[r].exec
<1>1. JobsOK /\ DatabaseOK /\ LocksOK /\ OutsideOK /\ OperatorOK /\ RequestsOK /\ RunsOK /\ TasksAreRunning
  BY DEF TypeIInv
<1>2. UNCHANGED <<locks, outside, operator, requests, plan>> /\ run[r].pc = "preflight"
  BY DEF PreflightError, Block, MarkRunning
<1>3. LocksOK' /\ OutsideOK' /\ OperatorOK' /\ RequestsOK'
  BY <1>1, <1>2 DEF LocksOK, OutsideOK, OperatorOK, RequestsOK, locks, outside
<1>4. x \in Executions /\ VersionOf[x] \in Versions /\ Targets[x] \in SUBSET Nodes
      /\ \A n \in Nodes : run[r].task[n] = "none"
  BY <1>2, RunnerFacts
<1>5. Goto(r, "running") \/ \E done \in BOOLEAN : GotoRelease(r, done)
  BY DEF PreflightError, Block, MarkRunning
<1>6. RunsOK' /\ TasksAreRunning' /\ JobsOK'
  BY <1>2, <1>4, <1>5, RunGoesOn
<1>7. DatabaseOK'
  <2>1. CASE PreflightError(r)
    BY <1>1, <2>1 DEF PreflightError, DatabaseOK, database
  <2>2. CASE Block(r)
    <3>1. /\ \E n \in Nodes : node' = [node EXCEPT ![x][n] = "Blocked"]
          /\ status' = [status EXCEPT ![x] = "Blocked"]
          /\ version' = [version EXCEPT ![VersionOf[x]] = "Superseded"]
          /\ UNCHANGED <<lockVersion, op>>
      BY <1>4, <2>2 DEF Block
    <3> QED  BY <1>1, <1>4, <3>1 DEF DatabaseOK, NodeStates
  <2>3. CASE MarkRunning(r)
    <3>1. UNCHANGED <<version, lockVersion, node, op>> /\ (status' = status \/ status' = [status EXCEPT ![x] = "Running"])
      BY <2>3 DEF MarkRunning
    <3> QED  BY <1>1, <1>4, <3>1 DEF DatabaseOK
  <2> QED  BY <2>1, <2>2, <2>3
<1> QED  BY <1>3, <1>6, <1>7 DEF TypeIInv

(* What may be executed is deployed by the execution and still to be done. *)
LEMMA ReadyFacts ==
  ASSUME NEW r \in Runners, NEW n \in Ready(r)
  PROVE  n \in Targets[run[r].exec] /\ run[r].runtime[n] = "Queued"
  BY DEF Ready, ReadyNodes, NodeReady

(* A batch begins. *)
LEMMA StartBatchTypes ==
  ASSUME TypeIInv, NEW r \in Runners, StartBatch(r)
  PROVE  TypeIInv'
<1> DEFINE new == [run[r] EXCEPT !.task = [n \in Nodes |-> IF n \in Ready(r) THEN FirstTask(r, n) ELSE "none"]]
<1>1. UNCHANGED <<database, job, locks, outside, operator, requests>> /\ run[r].pc = "running" /\ NextRun(r, new)
  BY DEF StartBatch, BetweenBatches, NextRun
<1>2. run[r] \in RunState /\ run[r].exec \in Executions
  BY <1>1, RunnerFacts
<1>3. \A n \in Nodes : (IF n \in Ready(r) THEN FirstTask(r, n) ELSE "none") \in Tasks
  BY DEF FirstTask, Tasks
<1>4. new \in RunState /\ new.pc = "running" /\ new.exec = run[r].exec /\ new.runtime = run[r].runtime
      /\ \A n \in Nodes : new.task[n] # "none" => n \in Ready(r)
  BY <1>1, <1>2, <1>3 DEF RunState
<1> HIDE DEF new
<1>5. RunsOK' /\ TasksAreRunning'
  BY <1>1, <1>2, <1>4, ReadyFacts, RunnerMoves
<1> QED  BY <1>1, <1>5 DEF TypeIInv, DatabaseOK, JobsOK, LocksOK, OutsideOK, OperatorOK, RequestsOK, database, locks, outside

(* A batch ends, and the plan. *)
LEMMA CollectTypes ==
  ASSUME TypeIInv, NEW r \in Runners, Collect(r) \/ FinishPlan(r)
  PROVE  TypeIInv'
<1> DEFINE ended == {run[r].task[n] : n \in Batch(r)}
           new == [run[r] EXCEPT !.pc = IF "failed" \in ended THEN "completing" ELSE "running",
                                 !.runtime = Collected(r), !.task = Idle.task]
<1>1. UNCHANGED <<database, locks, outside, operator, requests>> /\ run[r].pc = "running"
  BY DEF Collect, FinishPlan, BetweenBatches
<1>2. run[r] \in RunState /\ run[r].exec \in Executions /\ JobsOK
  BY <1>1, RunnerFacts DEF TypeIInv
<1>3. RunsOK' /\ TasksAreRunning' /\ JobsOK'
  <2>1. CASE FinishPlan(r)
    <3>1. \A n \in Nodes : run[r].task[n] = "none"
      BY <2>1 DEF FinishPlan, BetweenBatches, Batch
    <3> QED  BY <1>1, <2>1, <3>1, RunGoesOn DEF FinishPlan
  <2>2. CASE Collect(r) /\ ended \cap {"stopped", "broken"} # {}
    <3>1. End(r, ResolvesJob(ended)) /\ ResolvesJob(ended) \in BOOLEAN
      BY <2>2 DEF Collect, ResolvesJob
    <3> QED  BY <1>1, <3>1, RunEnds
  <2>3. CASE Collect(r) /\ ended \cap {"stopped", "broken"} = {}
    <3>1. NextRun(r, new) /\ job' = job
      BY <2>3 DEF Collect, NextRun
    <3>2. Collected(r) \in [Nodes -> RuntimeStates]
      <4>1. \A n \in Nodes : run[r].runtime[n] \in RuntimeStates
        BY <1>2 DEF RunState
      <4> QED  BY <4>1 DEF Collected, RuntimeStates
    <3>3. Idle.task \in [Nodes -> Tasks] /\ \A n \in Nodes : Idle.task[n] = "none"
      BY DEF Idle, Tasks
    <3>4. new \in RunState /\ new.pc # "idle" /\ new.exec = run[r].exec /\ \A n \in Nodes : new.task[n] = "none"
      BY <1>2, <3>2, <3>3 DEF RunState
    <3> HIDE DEF new
    <3> QED  BY <1>1, <1>2, <3>1, <3>4, RunnerMoves DEF JobsOK
  <2> QED  BY <2>1, <2>2, <2>3
<1> QED  BY <1>1, <1>3 DEF TypeIInv, DatabaseOK, LocksOK, OutsideOK, OperatorOK, RequestsOK, database, locks, outside

(* What saving a node does to the database, or its being refused. *)
LEMMA SaveTypes ==
  ASSUME TypeIInv, NEW r \in Runners, NEW n \in Nodes, run[r].task[n] # "none", operator' = operator,
         NEW saved \in NodeStates, NEW task \in Tasks, SaveNode(r, n, saved, task)
  PROVE  DatabaseOK' /\ RunsOK' /\ TasksAreRunning'
<1> DEFINE x == run[r].exec
<1>1. x \in Executions /\ DatabaseOK
  BY RunnerFacts DEF TypeIInv
<1>2. PICK new \in Tasks : SetTask(r, n, new)
  BY DEF SaveNode, Tasks, Ended
<1>3. RunsOK' /\ TasksAreRunning'
  BY <1>2, TaskGoesOn
<1>4. CASE status[x] = "Terminated"
  BY <1>1, <1>3, <1>4 DEF SaveNode, DatabaseOK, database
<1>5. CASE status[x] # "Terminated"
  <2>1. node' = [node EXCEPT ![x][n] = saved] /\ op' = [op EXCEPT ![x][n] = TRUE] /\ UNCHANGED <<version, status, lockVersion>>
    BY <1>5 DEF SaveNode
  <2> HIDE DEF x
  <2> QED  BY <1>1, <1>3, <2>1 DEF DatabaseOK
<1> QED  BY <1>4, <1>5

(* The steps of a task. *)
LEMMA TaskTypes ==
  ASSUME TypeIInv, NEW r \in Runners, NEW n \in Nodes, TaskStep(r, n) \/ SaveError(r, n)
  PROVE  TypeIInv'
<1>1. JobsOK /\ DatabaseOK /\ LocksOK /\ OutsideOK /\ OperatorOK /\ RequestsOK /\ RunsOK /\ TasksAreRunning
  BY DEF TypeIInv
<1>2. UNCHANGED <<job, locks, operator, drifted, started>> /\ run[r].task[n] # "none"
  BY DEF TaskStep, SaveTask, SaveError, Sync, Resume, Watch, outside
<1>3. run[r].exec \in Executions
  BY <1>2, RunnerFacts
<1>4. JobsOK' /\ LocksOK' /\ OperatorOK'
  BY <1>1, <1>2 DEF JobsOK, LocksOK, OperatorOK, locks
<1>5. CASE SaveTask(r, n)
  <2>1. \E saved \in NodeStates, task \in Tasks : SaveNode(r, n, saved, task)
    BY <1>5 DEF SaveTask, NodeStates, Tasks, Ended
  <2>2. DatabaseOK' /\ RunsOK' /\ TasksAreRunning'
    BY <1>2, <2>1, SaveTypes
  <2>3. OutsideOK' /\ RequestsOK'
    BY <1>1, <1>5 DEF SaveTask, OutsideOK, RequestsOK, outside
  <2> QED  BY <1>4, <2>2, <2>3 DEF TypeIInv
<1>6. CASE SaveError(r, n) \/ Resume(r, n) \/ Watch(r, n)
  <2>1. \E task \in Tasks : SetTask(r, n, task)
    BY <1>6 DEF SaveError, Resume, Watch, Tasks, Ended
  <2>2. RunsOK' /\ TasksAreRunning'
    BY <1>2, <2>1, TaskGoesOn
  <2>3. UNCHANGED <<database, outside, requests>>
    BY <1>6 DEF SaveError, Resume, Watch
  <2>4. DatabaseOK' /\ OutsideOK' /\ RequestsOK'
    BY <1>1, <2>3 DEF DatabaseOK, OutsideOK, RequestsOK, database, outside
  <2> QED  BY <1>4, <2>2, <2>4 DEF TypeIInv
<1>7. CASE Sync(r, n)
  <2>1. \E task \in Tasks : SetTask(r, n, task)
    BY <1>7 DEF Sync, Tasks
  <2>2. RunsOK' /\ TasksAreRunning'
    BY <1>2, <2>1, TaskGoesOn
  <2>3. UNCHANGED database /\ requests' = [requests EXCEPT ![run[r].exec][n] = @ + 1]
        /\ (argo' = argo \/ argo' = [argo EXCEPT ![n].wanted = run[r].exec])
    BY <1>7 DEF Sync
  <2>4. RequestsOK'
    BY <1>1, <1>3, <2>3 DEF RequestsOK
  <2>5. OutsideOK'
    BY <1>1, <1>2, <1>3, <2>3 DEF OutsideOK
  <2>6. DatabaseOK'
    BY <1>1, <2>3 DEF DatabaseOK, database
  <2> QED  BY <1>4, <2>2, <2>4, <2>5, <2>6 DEF TypeIInv
<1> QED  BY <1>5, <1>6, <1>7 DEF TaskStep

(* An execution is completed. *)
LEMMA CompleteTypes ==
  ASSUME TypeIInv, NEW r \in Runners, Complete(r)
  PROVE  TypeIInv'
<1> DEFINE x == run[r].exec
           closed == status[x] \in OutcomeStatuses \cup {"Terminated"}
           outcome == IF closed THEN status[x] ELSE Aggregate(x)
           final == [n \in Nodes |-> FinalStatus(x, n)]
<1>1. JobsOK /\ DatabaseOK /\ LocksOK /\ OutsideOK /\ OperatorOK /\ RequestsOK /\ RunsOK /\ TasksAreRunning
  BY DEF TypeIInv
<1>2. UNCHANGED <<locks, outside, operator, requests>> /\ run[r].pc = "completing"
  BY DEF Complete
<1>3. LocksOK' /\ OutsideOK' /\ OperatorOK' /\ RequestsOK'
  BY <1>1, <1>2 DEF LocksOK, OutsideOK, OperatorOK, RequestsOK, locks, outside
<1>4. x \in Executions /\ VersionOf[x] \in Versions /\ \A n \in Nodes : run[r].task[n] = "none"
  BY <1>2, RunnerFacts
<1>5. (\E done \in BOOLEAN : End(r, done)) \/ GotoRelease(r, TRUE)
  BY DEF Complete
<1>6. RunsOK' /\ TasksAreRunning' /\ JobsOK'
  BY <1>2, <1>4, <1>5, RunEnds, RunGoesOn
<1>7. DatabaseOK'
  <2>1. CASE UNCHANGED database
    BY <1>1, <2>1 DEF DatabaseOK, database
  <2>2. CASE ~UNCHANGED database
    <3>1. /\ ~closed /\ op' = op /\ node' = [node EXCEPT ![x] = final]
          /\ status' = [status EXCEPT ![x] = outcome] /\ lockVersion' = [lockVersion EXCEPT ![x] = @ + 1]
          /\ version' = [version EXCEPT ![VersionOf[x]] = outcome]
      BY <2>2 DEF Complete
    <3>2. outcome \in OutcomeStatuses
      BY <3>1 DEF Aggregate, OutcomeStatuses
    <3>3. final \in [Nodes -> NodeStates]
      <4>1. \A n \in Nodes : node[x][n] \in NodeStates
        BY <1>1, <1>4 DEF DatabaseOK
      <4> QED  BY <4>1 DEF FinalStatus, NodeStates
    <3> HIDE DEF x, outcome, final
    <3> QED  BY <1>1, <1>4, <3>1, <3>2, <3>3 DEF DatabaseOK
  <2> QED  BY <2>1, <2>2
<1> QED  BY <1>3, <1>6, <1>7 DEF TypeIInv

(* A retry begins another attempt. *)
LEMMA RetryTypes ==
  ASSUME TypeIInv, NEW x \in Executions, NEW selected \in SUBSET Nodes, Retry(x, selected)
  PROVE  TypeIInv'
<1> DEFINE y == Following[x]
           nodes == [n \in Nodes |-> RetriedStatus(x, n, selected)]
           ops == [n \in Nodes |-> op[x][n] /\ n \notin selected]
<1>1. JobsOK /\ DatabaseOK /\ LocksOK /\ OutsideOK /\ OperatorOK /\ RequestsOK /\ RunsOK /\ TasksAreRunning
  BY DEF TypeIInv
<1>2. y \in Executions /\ VersionOf[x] \in Versions /\ 0 \in 0..MaxDeliveries
  BY DeploymentExecutionAssumption DEF Retry, Versions
<1>3. /\ UNCHANGED <<outside, run, operator, requests, plan>>
      /\ status' = [status EXCEPT ![y] = "Preflight"]
      /\ version' = [version EXCEPT ![VersionOf[x]] = "Deploying"]
      /\ lockVersion' = [lockVersion EXCEPT ![x] = @ + 1, ![y] = 1]
      /\ node' = [node EXCEPT ![y] = nodes]
      /\ op' = [op EXCEPT ![y] = ops]
      /\ Locks!HandOff(x, y, 0)
      /\ job' = [job EXCEPT ![y].state = "open"]
  BY DEF Retry
<1>4. nodes \in [Nodes -> NodeStates] /\ ops \in [Nodes -> BOOLEAN]
  <2>1. \A n \in Nodes : node[x][n] \in NodeStates
    BY <1>1 DEF DatabaseOK
  <2> QED  BY <2>1 DEF RetriedStatus, NodeStates
<1>5. LocksOK'
  BY <1>1, <1>2, <1>3, LockTypes
<1> HIDE DEF y, nodes, ops
<1>6. DatabaseOK'
  BY <1>1, <1>2, <1>3, <1>4 DEF DatabaseOK
<1>7. JobsOK'
  BY <1>1, <1>2, <1>3 DEF JobsOK
<1> QED  BY <1>1, <1>3, <1>5, <1>6, <1>7 DEF TypeIInv, OutsideOK, OperatorOK, RequestsOK, RunsOK, TasksAreRunning, outside

(* The other commands, and a newer candidate. *)
LEMMA CommandTypes ==
  ASSUME TypeIInv, NEW x \in Executions, NEW n \in Nodes, NEW v \in Versions,
         BeginTerminate(x) \/ Unlock(x) \/ StopOperation(n) \/ FinishTerminate \/ Supersede(v)
  PROVE  TypeIInv'
<1>1. JobsOK /\ DatabaseOK /\ LocksOK /\ OutsideOK /\ OperatorOK /\ RequestsOK /\ RunsOK /\ TasksAreRunning
  BY DEF TypeIInv
<1>2. UNCHANGED <<job, run, requests, drifted, started>>
  BY DEF BeginTerminate, Unlock, StopOperation, FinishTerminate, Supersede, outside
<1>3. JobsOK' /\ RequestsOK' /\ RunsOK'
  BY <1>1, <1>2 DEF JobsOK, RequestsOK, RunsOK
<1>4. AtEase \in [pc : {"idle", "stopping"}, exec : Executions \cup {"none"}, expected : Nat, left : SUBSET Nodes]
      /\ AtEase.pc = "idle"
  BY DEF AtEase
<1>5. CASE BeginTerminate(x)
  <2>1. operator' = [pc |-> "stopping", exec |-> x, expected |-> lockVersion[x],
                     left |-> {m \in Targets[x] : node[x][m] = "Syncing"}] /\ UNCHANGED <<database, locks, outside>>
    BY <1>5 DEF BeginTerminate
  <2>2. lockVersion[x] \in Nat /\ {m \in Targets[x] : node[x][m] = "Syncing"} \in SUBSET Nodes
    BY <1>1, DeploymentExecutionAssumption DEF DatabaseOK
  <2>3. OperatorOK' /\ TasksAreRunning'
    BY <1>1, <1>2, <2>1, <2>2 DEF OperatorOK, TasksAreRunning
  <2> QED  BY <1>1, <1>3, <2>1, <2>3 DEF TypeIInv, DatabaseOK, LocksOK, OutsideOK, database, locks, outside
<1>6. CASE Unlock(x)
  <2>1. Locks!Unlock(x) /\ lockVersion' = [lockVersion EXCEPT ![x] = @ + 1] /\ 0 \in 0..MaxDeliveries
        /\ UNCHANGED <<version, status, node, op, outside, operator>>
    BY <1>6, DeploymentExecutionAssumption DEF Unlock
  <2>2. LocksOK'
    BY <1>1, <2>1, LockTypes
  <2>3. DatabaseOK'
    BY <1>1, <2>1 DEF DatabaseOK
  <2> QED  BY <1>1, <1>2, <1>3, <2>1, <2>2, <2>3 DEF TypeIInv, OutsideOK, OperatorOK, TasksAreRunning, outside
<1>7. CASE StopOperation(n)
  <2>1. UNCHANGED <<database, locks>>
        /\ (argo' = argo \/ argo' = [argo EXCEPT ![n].phase = "Failed"])
        /\ (operator' = AtEase \/ operator' = [operator EXCEPT !.left = @ \ {n}])
    BY <1>7 DEF StopOperation
  <2>2. OutsideOK'
    BY <1>1, <1>2, <2>1 DEF OutsideOK
  <2>3. OperatorOK' /\ TasksAreRunning'
    <3>1. n \in operator.left /\ operator.pc = "stopping" /\ operator.exec \in Executions
      BY <1>1, <1>7 DEF StopOperation, TasksAreRunning, AtEase
    <3> QED  BY <1>1, <1>2, <1>4, <2>1, <3>1 DEF OperatorOK, TasksAreRunning
  <2> QED  BY <1>1, <1>3, <2>1, <2>2, <2>3 DEF TypeIInv, DatabaseOK, LocksOK, database, locks
<1>8. CASE FinishTerminate
  <2> DEFINE z == operator.exec
             nodes == [m \in Nodes |-> TerminatedNode(node[z][m])]
  <2>1. operator.pc = "stopping" /\ operator' = AtEase /\ UNCHANGED <<locks, outside>>
    BY <1>8 DEF FinishTerminate
  <2>2. z \in Executions /\ VersionOf[z] \in Versions
    BY <1>1, <2>1 DEF TasksAreRunning, AtEase, Versions
  <2>3. OperatorOK' /\ TasksAreRunning'
    BY <1>1, <1>2, <1>4, <2>1 DEF OperatorOK, TasksAreRunning
  <2>4. nodes \in [Nodes -> NodeStates]
    <3>1. \A m \in Nodes : node[z][m] \in NodeStates
      BY <1>1, <2>2 DEF DatabaseOK
    <3> QED  BY <3>1 DEF TerminatedNode, NodeStates
  <2>5. DatabaseOK'
    <3>1. CASE UNCHANGED database
      BY <1>1, <3>1 DEF DatabaseOK, database
    <3>2. CASE ~UNCHANGED database
      <4>1. /\ status' = [status EXCEPT ![z] = "Terminated"] /\ version' = [version EXCEPT ![VersionOf[z]] = "Terminated"]
            /\ lockVersion' = [lockVersion EXCEPT ![z] = @ + 1] /\ op' = op
            /\ node' = [node EXCEPT ![z] = [m \in Nodes |-> TerminatedNode(@[m])]]
        BY <1>8, <3>2 DEF FinishTerminate
      <4>2. node' = [node EXCEPT ![z] = nodes]
        BY <4>1
      <4> HIDE DEF z, nodes
      <4> QED  BY <1>1, <2>2, <2>4, <4>1, <4>2 DEF DatabaseOK
    <3> QED  BY <3>1, <3>2
  <2> QED  BY <1>1, <1>3, <2>1, <2>3, <2>5 DEF TypeIInv, LocksOK, OutsideOK, locks, outside
<1>9. CASE Supersede(v)
  <2>1. version' = [version EXCEPT ![v] = "Superseded"] /\ UNCHANGED <<status, lockVersion, node, op, locks, outside, operator>>
    BY <1>9 DEF Supersede
  <2>2. DatabaseOK'
    BY <1>1, <2>1 DEF DatabaseOK
  <2> QED  BY <1>1, <1>2, <1>3, <2>1, <2>2 DEF TypeIInv, LocksOK, OutsideOK, OperatorOK, TasksAreRunning, locks, outside
<1> QED  BY <1>5, <1>6, <1>7, <1>8, <1>9

(* Argo CD, content and time. *)
LEMMA OutsideTypes ==
  ASSUME TypeIInv, Outside
  PROVE  TypeIInv'
<1>1. JobsOK /\ DatabaseOK /\ LocksOK /\ OutsideOK /\ OperatorOK /\ RequestsOK /\ RunsOK /\ TasksAreRunning
  BY DEF TypeIInv
<1>2. UNCHANGED <<database, job, run, operator, requests>>
  BY DEF Outside, StartOperation, EndOperation, Drift, Lapse
<1>3. DatabaseOK' /\ JobsOK' /\ RunsOK' /\ OperatorOK' /\ RequestsOK' /\ TasksAreRunning'
  BY <1>1, <1>2 DEF DatabaseOK, JobsOK, RunsOK, OperatorOK, RequestsOK, TasksAreRunning, database
<1>4. CASE Lapse
  <2>1. \A m \in Nodes : lock[m] # Locks!Free => lock[m].exec # "none"
    BY <1>1 DEF Locks!Free, LocksOK
  <2>2. LocksOK'
    BY <1>1, <1>4, <2>1 DEF Lapse, Locks!Lapse, LocksOK
  <2> QED  BY <1>1, <1>3, <1>4, <2>2 DEF TypeIInv, Lapse, OutsideOK, outside
<1>5. CASE \E n \in Nodes : StartOperation(n) \/ EndOperation(n) \/ Drift(n)
  <2>0. PICK n \in Nodes : StartOperation(n) \/ EndOperation(n) \/ Drift(n)
    BY <1>5
  <2>1. UNCHANGED locks
    BY <2>0 DEF StartOperation, EndOperation, Drift
  <2>2. OutsideOK'
    <3>1. CASE StartOperation(n)
      <4>1. argo[n].wanted \in Executions
        BY <1>1, <3>1 DEF StartOperation, OutsideOK
      <4> QED  BY <1>1, <3>1, <4>1 DEF StartOperation, OutsideOK
    <3>2. CASE EndOperation(n)
      BY <1>1, <3>2 DEF EndOperation, OutsideOK
    <3>3. CASE Drift(n)
      BY <1>1, <3>3 DEF Drift, OutsideOK, outside
    <3> QED  BY <2>0, <3>1, <3>2, <3>3
  <2> QED  BY <1>1, <1>3, <2>1, <2>2 DEF TypeIInv, LocksOK, locks
<1> QED  BY <1>4, <1>5 DEF Outside

(* All steps. *)
LEMMA NextTypes == TypeIInv /\ [Next]_vars => TypeIInv'
<1> SUFFICES ASSUME TypeIInv, [Next]_vars PROVE TypeIInv'
  OBVIOUS
<1>1. CASE Work
  <2>1. PICK r \in Runners : RunnerStep(r) \/ \E x \in Executions : Claim(r, x)
    BY <1>1 DEF Work
  <2>2. CASE \E x \in Executions : Claim(r, x)
    BY <2>2, DeliveryTypes
  <2>3. CASE NoExecutableNode(r)
    <3>1. run[r].exec \in Executions
      BY <2>3, RunnerFacts DEF NoExecutableNode, BetweenBatches
    <3> QED  BY <2>3, <3>1, DeliveryTypes
  <2>4. CASE RunnerStep(r) /\ ~NoExecutableNode(r)
    BY <2>4, LoadTypes, HoldingTypes, PreflightTypes, StartBatchTypes, CollectTypes, CompleteTypes, TaskTypes
       DEF RunnerStep
  <2> QED  BY <2>1, <2>2, <2>3, <2>4
<1>2. CASE \E r \in Runners : Trouble(r) \/ Renew(r)
  <2>1. PICK r \in Runners : Trouble(r) \/ Renew(r)
    BY <1>2
  <2>2. CASE Break(r) \/ LoseLocks(r)
    <3>1. run[r].exec \in Executions
      BY <2>2, RunnerFacts DEF Break, LoseLocks
    <3> QED  BY <2>2, <3>1, DeliveryTypes
  <2> QED  BY <2>1, <2>2, HoldingTypes, PreflightTypes, TaskTypes DEF Trouble
<1>3. CASE \E x \in Executions : LoseJob(x)
  <2>1. PICK x \in Executions : LoseJob(x)
    BY <1>3
  <2>2. job[x].holder \in Runners
    BY <2>1 DEF LoseJob, TypeIInv, JobsOK
  <2> QED  BY <2>1, <2>2, DeliveryTypes
<1>4. CASE Commands
  <2>1. CASE \E x \in Executions : \E selected \in SUBSET Nodes : Retry(x, selected)
    BY <2>1, RetryTypes
  <2>2. CASE \E x \in Executions : BeginTerminate(x) \/ Unlock(x)
    <3>1. PICK x \in Executions : BeginTerminate(x) \/ Unlock(x)
      BY <2>2
    <3>2. VersionOf[x] \in Versions /\ \E n \in Nodes : TRUE
      BY DeploymentExecutionAssumption DEF Versions
    <3> QED  BY <3>1, <3>2, CommandTypes
  <2>3. CASE \E n \in Nodes : StopOperation(n)
    <3>1. PICK n \in Nodes : StopOperation(n)
      BY <2>3
    <3>2. operator.exec \in Executions /\ VersionOf[operator.exec] \in Versions
      BY <3>1 DEF StopOperation, TypeIInv, TasksAreRunning, AtEase, Versions
    <3> QED  BY <3>1, <3>2, CommandTypes
  <2>4. CASE FinishTerminate
    <3>1. operator.exec \in Executions /\ VersionOf[operator.exec] \in Versions
      BY <2>4 DEF FinishTerminate, TypeIInv, TasksAreRunning, AtEase, Versions
    <3>2. \E n \in Nodes : TRUE
      BY <3>1, DeploymentExecutionAssumption
    <3> QED  BY <2>4, <3>1, <3>2, CommandTypes
  <2>5. CASE \E v \in Versions : Supersede(v)
    <3>1. PICK v \in Versions : Supersede(v)
      BY <2>5
    <3>2. PICK x \in Executions : v = VersionOf[x]
      BY DEF Versions
    <3>3. \E n \in Nodes : TRUE
      BY <3>2, DeploymentExecutionAssumption
    <3> QED  BY <3>1, <3>2, <3>3, CommandTypes
  <2> QED  BY <1>4, <2>1, <2>2, <2>3, <2>4, <2>5 DEF Commands
<1>5. CASE Outside
  BY <1>5, OutsideTypes
<1>6. CASE UNCHANGED vars
  BY <1>6 DEF vars, TypeIInv, DatabaseOK, JobsOK, LocksOK, OutsideOK, RunsOK, OperatorOK, RequestsOK, TasksAreRunning,
              database, locks, outside
<1> QED  BY <1>1, <1>2, <1>3, <1>4, <1>5, <1>6 DEF Next

(* So they always hold. *)
LEMMA TypeInvariance == Spec => []TypeIInv
<1>1. Init => TypeIInv
  BY InitTypes
<1> QED  BY <1>1, NextTypes, PTL DEF Spec

(* TypeOK: every variable keeps its shape. *)
THEOREM TypeCorrect == Spec => []TypeOK
  BY TypeInvariance, TypeParts, PTL

-----------------------------------------------------------------------------
(* What a step does to a run, to a status, to a job *)

(* A run changes by its own steps only. *)
LEMMA RunSteps ==
  ASSUME TypeIInv, [Next]_vars, NEW r \in Runners, run'[r] # run[r]
  PROVE  RunnerStep(r) \/ Trouble(r) \/ \E x \in Executions : Claim(r, x)
<1>0. run \in [Runners -> RunState]
  BY DEF TypeIInv, RunsOK
<1>1. run' # run
  OBVIOUS
<1>2. ASSUME NEW s \in Runners, s # r, RunnerStep(s) \/ Trouble(s) \/ \E x \in Executions : Claim(s, x)
      PROVE  FALSE
  <2>1. \E new : run' = [run EXCEPT ![s] = new]
    BY <1>2 DEF RunnerStep, Trouble, TaskStep, Claim, Prepare, Load, Acquire, Block, MarkRunning, StartBatch,
                NoExecutableNode, Collect, FinishPlan, Complete, Release, SaveTask, SaveNode, Sync, Resume, Watch,
                Break, PreflightError, LoseLocks, SaveError, End, Goto, GotoRelease, SetTask, TakeSnapshot
  <2> QED  BY <1>0, <1>2, <2>1
<1>3. \E s \in Runners : RunnerStep(s) \/ Trouble(s) \/ \E x \in Executions : Claim(s, x)
  BY <1>1 DEF Next, vars, Work, Renew, LoseJob, Commands, BeginTerminate, Unlock, Retry, StopOperation, FinishTerminate,
              Supersede, Outside, Lapse, StartOperation, EndOperation, Drift
<1> QED  BY <1>2, <1>3

(* A task is begun, goes on by its own steps, or ends with its batch or its run. *)
LEMMA TaskSteps ==
  ASSUME TypeIInv, [Next]_vars, NEW r \in Runners, NEW n \in Nodes, run'[r].task[n] # "none"
  PROVE  /\ run[r].pc = "running" /\ run'[r].exec = run[r].exec
         /\ run'[r].runtime = run[r].runtime /\ run'[r].known = run[r].known
         /\ \/ run'[r].task[n] = run[r].task[n]
            \/ StartBatch(r) /\ run[r].task[n] = "none" /\ n \in Ready(r) /\ run'[r].task[n] = FirstTask(r, n)
            \/ TaskStep(r, n) \/ SaveError(r, n)
<1>0. run \in [Runners -> RunState] /\ run[r] \in RunState
  BY RunnerFacts DEF TypeIInv, RunsOK
<1>1. CASE run'[r] = run[r]
  BY <1>1, RunnerFacts
<1>2. CASE run'[r] # run[r]
  <2>1. \A m \in Nodes : Idle.task[m] = "none"
    BY DEF Idle
  <2>2. ASSUME \E x \in Executions : Claim(r, x) PROVE FALSE
    BY <1>0, <2>1, <2>2 DEF Claim, Idle
  <2>3. ASSUME NEW done, End(r, done) PROVE FALSE
    BY <1>0, <2>1, <2>3 DEF End
  <2>4. ASSUME run'[r].task = run[r].task PROVE run[r].task[n] # "none" /\ run[r].pc = "running"
    BY <2>4, RunnerFacts
  <2>5. ASSUME Goto(r, "preflight") \/ Goto(r, "running") \/ Goto(r, "completing") \/ GotoRelease(r, TRUE) \/ GotoRelease(r, FALSE)
               \/ \E seen, saved, known : TakeSnapshot(r, seen, saved, known)
        PROVE  run'[r].task = run[r].task /\ run'[r].exec = run[r].exec
    <3>1. ASSUME NEW pc, Goto(r, pc) PROVE run'[r].task = run[r].task /\ run'[r].exec = run[r].exec
      <4>1. run'[r] = [run[r] EXCEPT !.pc = pc]
        BY <1>0, <3>1 DEF Goto
      <4> QED  BY <1>0, <4>1 DEF RunState
    <3>2. ASSUME NEW done, GotoRelease(r, done) PROVE run'[r].task = run[r].task /\ run'[r].exec = run[r].exec
      <4>1. run'[r] = [run[r] EXCEPT !.pc = "releasing", !.result = done]
        BY <1>0, <3>2 DEF GotoRelease
      <4> QED  BY <1>0, <4>1 DEF RunState
    <3>3. ASSUME NEW seen, NEW saved, NEW known, TakeSnapshot(r, seen, saved, known)
          PROVE  run'[r].task = run[r].task /\ run'[r].exec = run[r].exec
      <4>1. run'[r] = [run[r] EXCEPT !.pc = "acquiring", !.seen = seen, !.known = known,
                         !.runtime = [m \in Nodes |-> IF m \in Targets[run[r].exec] THEN LoadedStatus(saved[m]) ELSE "none"]]
        BY <1>0, <3>3 DEF TakeSnapshot
      <4> QED  BY <1>0, <4>1 DEF RunState
    <3> QED  BY <2>5, <3>1, <3>2, <3>3
  <2>6. CASE Prepare(r) \/ Load(r) \/ Acquire(r) \/ Block(r) \/ MarkRunning(r) \/ Complete(r) \/ Release(r) \/ PreflightError(r)
    <3>1. run[r].pc # "running"
      BY <2>6 DEF Prepare, Load, Acquire, Block, MarkRunning, Complete, Release, PreflightError
    <3>2. \/ \E done : End(r, done)
          \/ Goto(r, "preflight") \/ Goto(r, "running") \/ GotoRelease(r, TRUE) \/ GotoRelease(r, FALSE)
          \/ \E seen, saved, known : TakeSnapshot(r, seen, saved, known)
      BY <2>6 DEF Prepare, Load, Acquire, Block, MarkRunning, Complete, Release, PreflightError
    <3> QED  BY <2>3, <2>4, <2>5, <3>1, <3>2
  <2>7. CASE NoExecutableNode(r) \/ Break(r) \/ LoseLocks(r)
    BY <2>3, <2>7 DEF NoExecutableNode, Break, LoseLocks
  <2>8. CASE FinishPlan(r)
    <3>1. run[r].task[n] = "none" /\ Goto(r, "completing")
      BY <2>8 DEF FinishPlan, BetweenBatches, Batch
    <3> QED  BY <2>4, <2>5, <3>1
  <2>9. CASE Collect(r)
    <3>1. run'[r].task = Idle.task
      <4>1. PICK pc, runtime : run' = [run EXCEPT ![r] = [run[r] EXCEPT !.pc = pc, !.runtime = runtime, !.task = Idle.task]]
        BY <2>3, <2>9 DEF Collect
      <4>2. run'[r] = [run[r] EXCEPT !.pc = pc, !.runtime = runtime, !.task = Idle.task]
        BY <1>0, <4>1
      <4> QED  BY <1>0, <4>2 DEF RunState
    <3> QED  BY <2>1, <3>1
  <2>10. CASE StartBatch(r)
    <3>1. /\ run[r].pc = "running" /\ run[r].task[n] = "none"
          /\ run' = [run EXCEPT ![r] = [run[r] EXCEPT !.task = [m \in Nodes |-> IF m \in Ready(r) THEN FirstTask(r, m) ELSE "none"]]]
      BY <2>10 DEF StartBatch, BetweenBatches, Batch
    <3>2. run'[r] = [run[r] EXCEPT !.task = [m \in Nodes |-> IF m \in Ready(r) THEN FirstTask(r, m) ELSE "none"]]
      BY <1>0, <3>1
    <3>3. /\ run'[r].task[n] = IF n \in Ready(r) THEN FirstTask(r, n) ELSE "none"
          /\ run'[r].exec = run[r].exec /\ run'[r].runtime = run[r].runtime /\ run'[r].known = run[r].known
      BY <1>0, <3>2 DEF RunState
    <3> QED  BY <2>10, <3>1, <3>3
  <2>11. CASE \E m \in Nodes : TaskStep(r, m) \/ SaveError(r, m)
    <3>1. PICK m \in Nodes : TaskStep(r, m) \/ SaveError(r, m)
      BY <2>11
    <3>2. (\E task \in Tasks : SetTask(r, m, task)) /\ run[r].task[m] # "none" /\ operator' = operator
      BY <3>1 DEF TaskStep, SaveError, SaveTask, SaveNode, Sync, Resume, Watch, Tasks, Ended
    <3>3. PICK task \in Tasks : run' = [run EXCEPT ![r] = [run[r] EXCEPT !.task[m] = task]]
      BY <3>2, TaskGoesOn
    <3>4. run'[r] = [run[r] EXCEPT !.task[m] = task]
      BY <1>0, <3>3
    <3>5. /\ run'[r].task[n] = IF n = m THEN task ELSE run[r].task[n]
          /\ run'[r].exec = run[r].exec /\ run'[r].runtime = run[r].runtime /\ run'[r].known = run[r].known
      BY <1>0, <3>4 DEF RunState
    <3> QED  BY <3>1, <3>2, <3>5, RunnerFacts
  <2> QED  BY <1>2, <2>2, <2>6, <2>7, <2>8, <2>9, <2>10, <2>11, RunSteps DEF RunnerStep, Trouble
<1> QED  BY <1>1, <1>2

(* A status changes by the start of its attempt, by its run, or by a termination. *)
LEMMA StatusSteps ==
  ASSUME TypeIInv, [Next]_vars, NEW x \in Executions, status'[x] # status[x]
  PROVE  \/ /\ status[x] = "none" /\ status'[x] = "Preflight"
            /\ \/ \E r \in Runners : Prepare(r) /\ run[r].exec = x
               \/ \E z \in Executions, selected \in SUBSET Nodes : Retry(z, selected) /\ Following[z] = x
         \/ status[x] = "Preflight" /\ status'[x] = "Running" /\ \E r \in Runners : MarkRunning(r) /\ run[r].exec = x
         \/ status'[x] = "Blocked" /\ \E r \in Runners : Block(r) /\ run[r].exec = x
         \/ /\ status[x] \notin OutcomeStatuses \cup {"Terminated"} /\ status'[x] = Aggregate(x)
            /\ \E r \in Runners : Complete(r) /\ run[r].exec = x
         \/ status[x] \in Terminable /\ status'[x] = "Terminated" /\ FinishTerminate /\ operator.exec = x
<1>0. status \in [Executions -> OutcomeStatuses \cup {"none", "Preflight", "Running", "Blocked", "Terminated"}] /\ status' # status
  BY DEF TypeIInv, DatabaseOK
<1>1. CASE Work
  <2>1. PICK r \in Runners : RunnerStep(r) \/ \E y \in Executions : Claim(r, y)
    BY <1>1 DEF Work
  <2>2. CASE Prepare(r)
    BY <1>0, <2>2 DEF Prepare, database
  <2>3. CASE Block(r)
    BY <1>0, <2>3 DEF Block
  <2>4. CASE MarkRunning(r)
    BY <1>0, <2>4 DEF MarkRunning
  <2>5. CASE Complete(r)
    BY <1>0, <2>5 DEF Complete, database
  <2>6. ASSUME NEW n \in Nodes, TaskStep(r, n) PROVE FALSE
    BY <1>0, <2>6 DEF TaskStep, SaveTask, SaveNode, Sync, Resume, Watch, database
  <2> QED  BY <1>0, <2>1, <2>2, <2>3, <2>4, <2>5, <2>6
           DEF RunnerStep, Claim, Load, Acquire, StartBatch, NoExecutableNode, Collect, FinishPlan, Release, database
<1>2. CASE Commands
  <2>1. ASSUME NEW z \in Executions, NEW selected \in SUBSET Nodes, Retry(z, selected)
        PROVE  status[x] = "none" /\ status'[x] = "Preflight" /\ Following[z] = x
    BY <1>0, <2>1 DEF Retry, Latest
  <2>2. CASE FinishTerminate
    BY <1>0, <2>2 DEF FinishTerminate, database
  <2> QED  BY <1>0, <1>2, <2>1, <2>2 DEF Commands, BeginTerminate, Unlock, StopOperation, Supersede, database
<1> QED  BY <1>0, <1>1, <1>2
         DEF Next, vars, database, Trouble, Break, PreflightError, LoseLocks, SaveError, Renew, LoseJob, Outside, Lapse,
             StartOperation, EndOperation, Drift

(* What is concluded stays so. *)
LEMMA ConcludedStays ==
  ASSUME TypeIInv, [Next]_vars, NEW x \in Executions, Concluded(x)
  PROVE  Concluded(x)'
<1>1. CASE status'[x] = status[x]
  BY <1>1 DEF Concluded
<1>2. CASE status'[x] # status[x]
  BY <1>2, StatusSteps DEF Concluded, OutcomeStatuses, Aggregate
<1> QED  BY <1>1, <1>2

-----------------------------------------------------------------------------
(***************************************************************************)
(* Successes are the version's own, whatever crashes, lapses or overlaps:  *)
(* what Argo CD last did to an Application was started by it, and a node   *)
(* is about to be saved as a success only when that was for its execution. *)
(***************************************************************************)

SuccessIInv ==
  /\ \A n \in Nodes : argo[n].op # "none" => <<argo[n].op, n>> \in started
  /\ \A r \in Runners, n \in Nodes : run[r].task[n] = "succeeding" => <<run[r].exec, n>> \in started
  /\ SuccessWasOurs

(* What Argo CD did is on record. *)
LEMMA StartedSteps ==
  ASSUME TypeIInv, SuccessIInv, [Next]_vars
  PROVE  /\ started \subseteq started'
         /\ \A n \in Nodes : argo'[n].op # "none" => <<argo'[n].op, n>> \in started'
<1>0. argo \in [Nodes -> [wanted : Executions \cup {"none"}, op : Executions \cup {"none"},
                          phase : {"none", "Running", "Succeeded", "Failed"}]]
  BY DEF TypeIInv, OutsideOK
<1>1. CASE \E n \in Nodes : StartOperation(n)
  BY <1>0, <1>1 DEF StartOperation, SuccessIInv
<1>2. CASE UNCHANGED outside
  BY <1>2 DEF outside, SuccessIInv
<1>3. CASE \E n \in Nodes : EndOperation(n) \/ Drift(n) \/ StopOperation(n)
  <2>1. PICK n \in Nodes : EndOperation(n) \/ Drift(n) \/ StopOperation(n)
    BY <1>3
  <2>2. started' = started /\ (argo' = argo \/ \E phase : argo' = [argo EXCEPT ![n].phase = phase])
    BY <2>1 DEF EndOperation, Drift, StopOperation
  <2> QED  BY <1>0, <2>2 DEF SuccessIInv
<1>4. CASE \E r \in Runners, n \in Nodes : TaskStep(r, n) \/ SaveError(r, n)
  <2>1. PICK r \in Runners, n \in Nodes : TaskStep(r, n) \/ SaveError(r, n)
    BY <1>4
  <2>2. started' = started /\ (argo' = argo \/ argo' = [argo EXCEPT ![n].wanted = run[r].exec])
    BY <2>1 DEF TaskStep, SaveTask, SaveError, Sync, Resume, Watch, outside
  <2> QED  BY <1>0, <2>2 DEF SuccessIInv
<1>5. \/ UNCHANGED outside
      \/ \E n \in Nodes : StartOperation(n) \/ EndOperation(n) \/ Drift(n) \/ StopOperation(n)
      \/ \E r \in Runners, n \in Nodes : TaskStep(r, n) \/ SaveError(r, n)
  BY DEF Next, Work, RunnerStep, Trouble, Commands, Outside, Claim, Prepare, Load, Acquire, Block, MarkRunning, StartBatch,
         NoExecutableNode, Collect, FinishPlan, Complete, Release, Break, PreflightError, LoseLocks, Renew, LoseJob,
         BeginTerminate, Unlock, Retry, FinishTerminate, Supersede, Lapse, vars, outside
<1> QED  BY <1>1, <1>2, <1>3, <1>4, <1>5

(* A node is saved as a success by its task, or with the attempt that keeps it. *)
LEMMA SuccessSteps ==
  ASSUME TypeIInv, [Next]_vars, NEW x \in Executions, NEW n \in Nodes, node'[x][n] = "Succeeded"
  PROVE  \/ node[x][n] = "Succeeded"
         \/ \E r \in Runners : run[r].exec = x /\ run[r].task[n] = "succeeding"
         \/ \E z \in Executions : VersionOf[z] = VersionOf[x] /\ node[z][n] = "Succeeded"
<1>0. node \in [Executions -> [Nodes -> NodeStates]]
  BY DEF TypeIInv, DatabaseOK
<1>1. CASE node' = node
  BY <1>1
<1>2. CASE \E r \in Runners : Prepare(r) \/ Block(r) \/ Complete(r)
  <2>1. PICK r \in Runners : Prepare(r) \/ Block(r) \/ Complete(r)
    BY <1>2
  <2>2. run[r].exec \in Executions /\ Targets[run[r].exec] \in SUBSET Nodes
    BY <2>1, RunnerFacts DEF Prepare, Block, Complete
  <2>3. CASE Prepare(r)
    BY <1>0, <2>2, <2>3 DEF Prepare, Fresh, database
  <2>4. CASE Block(r)
    BY <1>0, <2>2, <2>4 DEF Block
  <2>5. CASE Complete(r)
    <3>1. node' = node \/ node' = [node EXCEPT ![run[r].exec] = [m \in Nodes |-> FinalStatus(run[r].exec, m)]]
      BY <2>5 DEF Complete, database
    <3>2. FinalStatus(run[r].exec, n) = "Succeeded" => node[run[r].exec][n] = "Succeeded"
      BY DEF FinalStatus
    <3> QED  BY <1>0, <2>2, <3>1, <3>2
  <2> QED  BY <2>1, <2>3, <2>4, <2>5
<1>3. CASE \E r \in Runners, m \in Nodes : TaskStep(r, m)
  <2>1. PICK r \in Runners, m \in Nodes : TaskStep(r, m)
    BY <1>3
  <2>2. run[r].exec \in Executions
    BY <2>1, RunnerFacts DEF TaskStep, SaveTask, Sync, Resume, Watch
  <2>3. CASE SaveTask(r, m)
    BY <1>0, <2>2, <2>3 DEF SaveTask, SaveNode, database
  <2>4. CASE ~SaveTask(r, m)
    BY <2>1, <2>4 DEF TaskStep, Sync, Resume, Watch, database
  <2> QED  BY <2>3, <2>4
<1>4. CASE \E z \in Executions, selected \in SUBSET Nodes : Retry(z, selected)
  <2>1. PICK z \in Executions, selected \in SUBSET Nodes : Retry(z, selected)
    BY <1>4
  <2>2. Following[z] \in Executions /\ VersionOf[Following[z]] = VersionOf[z]
        /\ node' = [node EXCEPT ![Following[z]] = [m \in Nodes |-> RetriedStatus(z, m, selected)]]
    BY <2>1, DeploymentExecutionAssumption DEF Retry
  <2>3. RetriedStatus(z, n, selected) = "Succeeded" => node[z][n] = "Succeeded"
    BY <1>0 DEF RetriedStatus
  <2> QED  BY <1>0, <2>2, <2>3
<1>5. CASE FinishTerminate
  <2>1. node' = node \/ node' = [node EXCEPT ![operator.exec] = [m \in Nodes |-> TerminatedNode(@[m])]]
    BY <1>5 DEF FinishTerminate, database
  <2> QED  BY <1>0, <2>1 DEF TerminatedNode
<1>6. \/ node' = node
      \/ \E r \in Runners : Prepare(r) \/ Block(r) \/ Complete(r)
      \/ \E r \in Runners, m \in Nodes : TaskStep(r, m)
      \/ \E z \in Executions, selected \in SUBSET Nodes : Retry(z, selected)
      \/ FinishTerminate
  BY DEF Next, Work, RunnerStep, Trouble, Commands, Outside, Claim, Load, Acquire, MarkRunning, StartBatch,
         NoExecutableNode, Collect, FinishPlan, Release, Break, PreflightError, LoseLocks, SaveError, Renew, LoseJob,
         BeginTerminate, StopOperation, Unlock, Supersede, StartOperation, EndOperation, Drift, Lapse, vars, database
<1> QED  BY <1>1, <1>2, <1>3, <1>4, <1>5, <1>6

(* SuccessWasOurs: an Application counts as deployed only if Argo CD has started an *)
(* operation of the version's attempts on it.                                       *)
THEOREM SuccessesAreTheVersionsOwn == Spec => []SuccessWasOurs
<1>1. Init => SuccessIInv
  BY DEF Init, SuccessIInv, SuccessWasOurs, Idle
<1>2. ASSUME TypeIInv, SuccessIInv, [Next]_vars PROVE SuccessIInv'
  <2>1. started \subseteq started' /\ \A n \in Nodes : argo'[n].op # "none" => <<argo'[n].op, n>> \in started'
    BY <1>2, StartedSteps
  <2>2. ASSUME NEW r \in Runners, NEW n \in Nodes, run'[r].task[n] = "succeeding"
        PROVE  <<run'[r].exec, n>> \in started'
    <3>1. run'[r].exec = run[r].exec /\ run[r].pc = "running" /\ run[r].exec \in Executions
          /\ \/ run'[r].task[n] = run[r].task[n]
             \/ run'[r].task[n] = FirstTask(r, n)
             \/ TaskStep(r, n) \/ SaveError(r, n)
      BY <1>2, <2>2, TaskSteps, RunnerFacts
    <3>2. CASE run[r].task[n] = "succeeding"
      BY <1>2, <2>1, <3>1, <3>2 DEF SuccessIInv
    <3>3. CASE TaskStep(r, n) \/ SaveError(r, n)
      <4>1. run \in [Runners -> RunState] /\ run[r].task \in [Nodes -> Tasks]
        BY <1>2 DEF TypeIInv, RunsOK, RunState
      <4>2. ASSUME NEW task, SetTask(r, n, task) PROVE run'[r].task[n] = task
        <5>1. run'[r] = [run[r] EXCEPT !.task[n] = task]
          BY <4>1, <4>2 DEF SetTask
        <5> QED  BY <4>1, <5>1 DEF RunState
      <4>3. SetTask(r, n, "succeeding")
        BY <2>2, <3>3, <4>2 DEF TaskStep, SaveError, SaveTask, SaveNode, Sync, Resume, Watch
      <4>4. Observed(run[r].exec, n)
        BY <2>2, <3>3, <4>2 DEF TaskStep, SaveError, SaveTask, SaveNode, Sync, Resume, Watch
      <4>5. argo[n].op = run[r].exec /\ argo[n].op # "none"
        BY <3>1, <4>4, DeploymentExecutionAssumption DEF Observed
      <4> QED  BY <1>2, <2>1, <3>1, <4>5 DEF SuccessIInv
    <3>4. CASE run'[r].task[n] = FirstTask(r, n)
      BY <2>2, <3>4 DEF FirstTask
    <3> QED  BY <2>2, <3>1, <3>2, <3>3, <3>4
  <2>3. SuccessWasOurs'
    <3> SUFFICES ASSUME NEW x \in Executions, NEW n \in Nodes, node'[x][n] = "Succeeded"
                 PROVE  \E y \in Attempts(x) : <<y, n>> \in started'
      BY DEF SuccessWasOurs, Attempts
    <3>1. CASE \E r \in Runners : run[r].exec = x /\ run[r].task[n] = "succeeding"
      BY <1>2, <2>1, <3>1 DEF SuccessIInv, Attempts
    <3>2. CASE \E z \in Executions : VersionOf[z] = VersionOf[x] /\ node[z][n] = "Succeeded"
      BY <1>2, <2>1, <3>2 DEF SuccessIInv, SuccessWasOurs, Attempts
    <3> QED  BY <1>2, <3>1, <3>2, SuccessSteps
  <2> QED  BY <2>1, <2>2, <2>3 DEF SuccessIInv
<1>3. SuccessIInv => SuccessWasOurs
  BY DEF SuccessIInv
<1> QED  BY <1>1, <1>2, <1>3, TypeInvariance, PTL DEF Spec

-----------------------------------------------------------------------------
(***************************************************************************)
(* Whatever crashes, lapses or overlaps, a job is resolved only for an     *)
(* execution that has come to an end.                                      *)
(***************************************************************************)

ResolvedIInv ==
  /\ JobsEndWithTheirExecution
  /\ \A r \in Runners :
       \/ run[r].pc = "releasing" /\ run[r].result
       \/ \E n \in Nodes : run[r].task[n] = "stopped"
       => Concluded(run[r].exec)

(* A run gives its locks back with a result, or finds that it was stopped, only then. *)
LEMMA ResultSteps ==
  ASSUME TypeIInv, ResolvedIInv, [Next]_vars, NEW r \in Runners,
         \/ run'[r].pc = "releasing" /\ run'[r].result
         \/ \E n \in Nodes : run'[r].task[n] = "stopped"
  PROVE  status'[run'[r].exec] \in OutcomeStatuses \cup {"Blocked", "Terminated"}
<1>0. /\ run \in [Runners -> RunState] /\ run[r] \in RunState
      /\ status \in [Executions -> OutcomeStatuses \cup {"none", "Preflight", "Running", "Blocked", "Terminated"}]
  BY DEF TypeIInv, RunsOK, DatabaseOK
<1>9. \A x \in Executions : Concluded(x) => status'[x] \in OutcomeStatuses \cup {"Blocked", "Terminated"}
  BY ConcludedStays DEF Concluded
<1>1. CASE \E n \in Nodes : run'[r].task[n] = "stopped"
  <2>1. PICK n \in Nodes : run'[r].task[n] = "stopped"
    BY <1>1
  <2>2. run'[r].exec = run[r].exec /\ run[r].pc = "running" /\ run[r].exec \in Executions
        /\ \/ run'[r].task[n] = run[r].task[n]
           \/ run'[r].task[n] = FirstTask(r, n)
           \/ TaskStep(r, n) \/ SaveError(r, n)
    BY <2>1, TaskSteps, RunnerFacts
  <2>3. CASE run[r].task[n] = "stopped"
    BY <1>9, <2>2, <2>3 DEF ResolvedIInv
  <2>4. CASE TaskStep(r, n) \/ SaveError(r, n)
    <3>1. ASSUME NEW task, SetTask(r, n, task) PROVE run'[r].task[n] = task
      <4>1. run'[r] = [run[r] EXCEPT !.task[n] = task]
        BY <1>0, <3>1 DEF SetTask
      <4> QED  BY <1>0, <4>1 DEF RunState
    <3>2. status[run[r].exec] = "Terminated"
      BY <2>1, <2>4, <3>1 DEF TaskStep, SaveError, SaveTask, SaveNode, Sync, Resume, Watch
    <3> QED  BY <1>9, <2>2, <3>2 DEF Concluded
  <2> QED  BY <2>1, <2>2, <2>3, <2>4 DEF FirstTask
<1>2. CASE run'[r].pc = "releasing" /\ run'[r].result
  <2>1. CASE run'[r] = run[r]
    <3>1. run[r].exec \in Executions /\ Concluded(run[r].exec)
      BY <1>2, <2>1, RunnerFacts DEF ResolvedIInv
    <3> QED  BY <1>9, <2>1, <3>1
  <2>2. CASE run'[r] # run[r]
    <3>1. ASSUME NEW done, End(r, done) PROVE FALSE
      BY <1>0, <1>2, <3>1 DEF End, Idle
    <3>2. ASSUME NEW pc \in {"acquiring", "preflight", "running", "completing"}, Goto(r, pc) PROVE FALSE
      <4>1. run'[r] = [run[r] EXCEPT !.pc = pc]
        BY <1>0, <3>2 DEF Goto
      <4> QED  BY <1>0, <1>2, <4>1 DEF RunState
    <3>3. ASSUME NEW seen, NEW saved, NEW known, TakeSnapshot(r, seen, saved, known) PROVE FALSE
      <4>1. run'[r] = [run[r] EXCEPT !.pc = "acquiring", !.seen = seen, !.known = known,
                         !.runtime = [m \in Nodes |-> IF m \in Targets[run[r].exec] THEN LoadedStatus(saved[m]) ELSE "none"]]
        BY <1>0, <3>3 DEF TakeSnapshot
      <4> QED  BY <1>0, <1>2, <4>1 DEF RunState
    <3>4. ASSUME NEW done, GotoRelease(r, done) PROVE run'[r].exec = run[r].exec /\ run'[r].result = done
      <4>1. run'[r] = [run[r] EXCEPT !.pc = "releasing", !.result = done]
        BY <1>0, <3>4 DEF GotoRelease
      <4> QED  BY <1>0, <4>1 DEF RunState
    <3>5. ASSUME \E x \in Executions : Claim(r, x) PROVE FALSE
      BY <1>0, <1>2, <3>5 DEF Claim, Idle
    <3>6. CASE Prepare(r) \/ Load(r) \/ Acquire(r) \/ Release(r) \/ NoExecutableNode(r) \/ Break(r) \/ LoseLocks(r) \/ FinishPlan(r)
      BY <3>1, <3>2, <3>3, <3>6 DEF Prepare, Load, Acquire, Release, NoExecutableNode, Break, LoseLocks, FinishPlan
    <3>7. CASE StartBatch(r) \/ Collect(r) \/ \E n \in Nodes : TaskStep(r, n) \/ SaveError(r, n)
      <4>1. run[r].pc = "running"
        BY <3>7, RunnerFacts DEF StartBatch, BetweenBatches, Collect, TaskStep, SaveTask, SaveError, Sync, Resume, Watch
      <4>2. CASE Collect(r)
        <5>1. PICK pc \in {"completing", "running"} : \E runtime : run'[r] = [run[r] EXCEPT !.pc = pc, !.runtime = runtime, !.task = Idle.task]
          BY <1>0, <3>1, <4>2 DEF Collect
        <5> QED  BY <1>0, <1>2, <5>1 DEF RunState
      <4>3. CASE StartBatch(r)
        <5>1. PICK tasks : run'[r] = [run[r] EXCEPT !.task = tasks]
          BY <1>0, <4>3 DEF StartBatch
        <5> QED  BY <1>0, <1>2, <4>1, <5>1 DEF RunState
      <4>4. CASE \E n \in Nodes : TaskStep(r, n) \/ SaveError(r, n)
        <5>1. PICK n, task : n \in Nodes /\ SetTask(r, n, task)
          BY <4>4 DEF TaskStep, SaveError, SaveTask, SaveNode, Sync, Resume, Watch
        <5>2. run'[r] = [run[r] EXCEPT !.task[n] = task]
          BY <1>0, <5>1 DEF SetTask
        <5> QED  BY <1>0, <1>2, <4>1, <5>2 DEF RunState
      <4> QED  BY <3>7, <4>2, <4>3, <4>4
    <3>8. CASE MarkRunning(r) \/ PreflightError(r)
      BY <1>2, <3>2, <3>4, <3>8 DEF MarkRunning, PreflightError
    <3>9. CASE Block(r)
      <4>1. run[r].exec \in Executions /\ GotoRelease(r, TRUE) /\ status' = [status EXCEPT ![run[r].exec] = "Blocked"]
        BY <3>9, RunnerFacts DEF Block
      <4> QED  BY <1>0, <3>4, <4>1
    <3>10. CASE Complete(r)
      <4>1. run[r].exec \in Executions /\ GotoRelease(r, TRUE)
        BY <3>1, <3>10, RunnerFacts DEF Complete
      <4>2. \/ status' = status /\ status[run[r].exec] \in OutcomeStatuses \cup {"Terminated"}
            \/ status' = [status EXCEPT ![run[r].exec] = Aggregate(run[r].exec)]
        BY <3>1, <3>10 DEF Complete, database
      <4>3. Aggregate(run[r].exec) \in OutcomeStatuses
        BY DEF Aggregate, OutcomeStatuses
      <4> QED  BY <1>0, <3>4, <4>1, <4>2, <4>3
    <3> QED  BY <2>2, <3>5, <3>6, <3>7, <3>8, <3>9, <3>10, RunSteps DEF RunnerStep, Trouble
  <2> QED  BY <2>1, <2>2
<1> QED  BY <1>1, <1>2

(* A job is resolved by its run. *)
LEMMA JobSteps ==
  ASSUME TypeIInv, [Next]_vars, NEW x \in Executions, job'[x].state = "done", job[x].state # "done"
  PROVE  \E r \in Runners :
           /\ run[r].exec = x /\ run[r].pc # "idle"
           /\ \/ run[r].pc = "releasing" /\ run[r].result
              \/ \E n \in Nodes : run[r].task[n] = "stopped"
              \/ status[x] = "Terminated"
              \/ Complete(r) /\ status'[x] \in OutcomeStatuses
<1>0. /\ job \in [Executions -> [state : {"none", "open", "done"}, left : 0..MaxDeliveries, holder : Runners \cup {"none"}]]
      /\ status \in [Executions -> OutcomeStatuses \cup {"none", "Preflight", "Running", "Blocked", "Terminated"}]
      /\ run \in [Runners -> RunState]
  BY DEF TypeIInv, JobsOK, DatabaseOK, RunsOK
<1>1. ASSUME NEW r \in Runners, NEW done \in BOOLEAN, End(r, done), run[r].exec \in Executions PROVE done /\ run[r].exec = x
  <2>1. run[r].exec = x
    BY <1>0, <1>1 DEF End
  <2> QED  BY <1>0, <1>1, <2>1 DEF End
<1>2. ASSUME NEW r \in Runners, RunnerStep(r) \/ Trouble(r)
      PROVE  /\ run[r].exec = x /\ run[r].pc # "idle"
             /\ \/ run[r].pc = "releasing" /\ run[r].result
                \/ \E n \in Nodes : run[r].task[n] = "stopped"
                \/ status[x] = "Terminated"
                \/ Complete(r) /\ status'[x] \in OutcomeStatuses
  <2>1. PICK done \in BOOLEAN : End(r, done)
    <3>1. job' # job
      OBVIOUS
    <3>2. run[r].pc # "idle" => run[r].result \in BOOLEAN
      BY <1>0 DEF RunState
    <3>3. CASE Prepare(r) \/ Load(r) \/ Acquire(r) \/ NoExecutableNode(r) \/ Complete(r) \/ Break(r) \/ LoseLocks(r)
      BY <3>1, <3>3 DEF Prepare, Load, Acquire, NoExecutableNode, Complete, Break, LoseLocks, Goto, GotoRelease, TakeSnapshot
    <3>4. CASE Release(r)
      BY <3>2, <3>4 DEF Release
    <3>5. CASE Collect(r)
      <4>1. End(r, ResolvesJob({run[r].task[n] : n \in Batch(r)}))
        BY <3>1, <3>5 DEF Collect
      <4>2. ResolvesJob({run[r].task[n] : n \in Batch(r)}) \in BOOLEAN
        BY DEF ResolvesJob
      <4> QED  BY <4>1, <4>2
    <3>6. CASE \E n \in Nodes : TaskStep(r, n) \/ SaveError(r, n)
      BY <3>1, <3>6 DEF TaskStep, SaveTask, Sync, Resume, Watch, SaveError
    <3> QED  BY <1>2, <3>1, <3>3, <3>4, <3>5, <3>6
             DEF RunnerStep, Trouble, Block, MarkRunning, StartBatch, FinishPlan, PreflightError, Goto, GotoRelease
  <2>2. run[r].pc # "idle" /\ run[r].exec \in Executions
    <3>1. run[r].pc # "idle"
      BY <1>2, RunnerFacts DEF RunnerStep, Trouble, TaskStep, Prepare, Load, Acquire, Block, MarkRunning, StartBatch,
                NoExecutableNode, BetweenBatches, Collect, FinishPlan, Complete, Release, SaveTask, Sync, Resume, Watch,
                Break, PreflightError, LoseLocks, SaveError
    <3> QED  BY <3>1, RunnerFacts
  <2>3. run[r].exec = x /\ ~End(r, FALSE)
    BY <1>1, <2>1, <2>2
  <2>4. job' # job
    OBVIOUS
  <2>5. CASE Release(r)
    BY <2>2, <2>3, <2>5, <1>0 DEF Release, RunState
  <2>6. CASE Load(r)
    BY <2>2, <2>3, <2>4, <2>6 DEF Load, TakeSnapshot
  <2>7. CASE Collect(r)
    <3>1. ResolvesJob({run[r].task[n] : n \in Batch(r)})
      <4>1. End(r, ResolvesJob({run[r].task[n] : n \in Batch(r)}))
        BY <2>4, <2>7 DEF Collect
      <4>2. ResolvesJob({run[r].task[n] : n \in Batch(r)}) \in BOOLEAN
        BY DEF ResolvesJob
      <4> QED  BY <1>1, <2>2, <4>1, <4>2
    <3> QED  BY <2>2, <2>3, <3>1 DEF ResolvesJob, Batch
  <2>8. CASE Complete(r)
    <3>1. \/ status[x] = "Terminated"
          \/ status' = status /\ status[x] \in OutcomeStatuses
          \/ status' = [status EXCEPT ![x] = Aggregate(x)]
      BY <2>3, <2>8 DEF Complete, database
    <3>2. Aggregate(x) \in OutcomeStatuses
      BY DEF Aggregate, OutcomeStatuses
    <3> QED  BY <1>0, <2>2, <2>3, <2>8, <3>1, <3>2
  <2> QED  BY <1>2, <2>3, <2>4, <2>5, <2>6, <2>7, <2>8
           DEF RunnerStep, Trouble, TaskStep, Prepare, Acquire, Block, MarkRunning, StartBatch,
                NoExecutableNode, FinishPlan, SaveTask, SaveNode, Sync, Resume, Watch,
                Break, PreflightError, LoseLocks, SaveError, Goto, GotoRelease, TakeSnapshot
<1>3. \E r \in Runners : RunnerStep(r) \/ Trouble(r)
  <2>1. ASSUME NEW r \in Runners, NEW y \in Executions, Claim(r, y) PROVE FALSE
    BY <1>0, <2>1 DEF Claim
  <2>2. ASSUME NEW y \in Executions, LoseJob(y) PROVE FALSE
    BY <1>0, <2>2 DEF LoseJob
  <2>3. ASSUME NEW y \in Executions, NEW selected \in SUBSET Nodes, Retry(y, selected) PROVE FALSE
    BY <1>0, <2>3 DEF Retry
  <2>4. job' # job
    OBVIOUS
  <2> QED  BY <2>1, <2>2, <2>3, <2>4
           DEF Next, vars, Work, Renew, Commands, BeginTerminate, Unlock, StopOperation, FinishTerminate,
               Supersede, Outside, Lapse, StartOperation, EndOperation, Drift
<1> QED  BY <1>2, <1>3

(* JobsEndWithTheirExecution: a job succeeds only when its execution has come to an end. *)
THEOREM ResolvedJobsAreConcluded == Spec => []JobsEndWithTheirExecution
<1>1. Init => ResolvedIInv
  BY DEF Init, ResolvedIInv, JobsEndWithTheirExecution, Idle
<1>2. ASSUME TypeIInv, ResolvedIInv, [Next]_vars PROVE ResolvedIInv'
  <2>1. ASSUME NEW r \in Runners,
               \/ run'[r].pc = "releasing" /\ run'[r].result
               \/ \E n \in Nodes : run'[r].task[n] = "stopped"
        PROVE  Concluded(run[r].exec)'
    BY <1>2, <2>1, ResultSteps DEF Concluded
  <2>2. ASSUME NEW x \in Executions, job'[x].state = "done" PROVE Concluded(x)'
    <3>1. CASE job[x].state = "done"
      BY <1>2, <2>2, <3>1, ConcludedStays DEF ResolvedIInv, JobsEndWithTheirExecution
    <3>2. CASE job[x].state # "done"
      <4>1. Concluded(x) \/ status'[x] \in OutcomeStatuses
        BY <1>2, <2>2, <3>2, JobSteps DEF ResolvedIInv, Concluded
      <4>2. CASE Concluded(x)
        BY <1>2, <4>2, ConcludedStays
      <4>3. CASE status'[x] \in OutcomeStatuses
        BY <4>3 DEF Concluded
      <4> QED  BY <4>1, <4>2, <4>3
    <3> QED  BY <3>1, <3>2
  <2> QED  BY <2>1, <2>2 DEF ResolvedIInv, JobsEndWithTheirExecution
<1>3. ResolvedIInv => JobsEndWithTheirExecution
  BY DEF ResolvedIInv
<1> QED  BY <1>1, <1>2, <1>3, TypeInvariance, PTL DEF Spec

-----------------------------------------------------------------------------
(***************************************************************************)
(* An attempt asks for an operation once, whatever crashes, as long as no  *)
(* two runs of it overlap.  The key is the saved operation id: what a run  *)
(* knows of it, for a node that it has not begun, is what is saved, since  *)
(* nobody else saves.                                                      *)
(***************************************************************************)

(* There is one runner, or none outlives its job. *)
RunsDoNotOverlap == ~Breaks \/ \A r, s \in Runners : r = s

OneRun ==
  \A r, s \in Runners : run[r].pc # "idle" /\ run[s].pc # "idle" /\ run[r].exec = run[s].exec => r = s

(* A run that keeps its job holds it. *)
RunsHoldTheirJobs ==
  \A r \in Runners : run[r].pc # "idle" => job[run[r].exec].holder = r /\ job[run[r].exec].state = "open"

(* A run moves on by its own steps only, and all but its ends leave it its execution. *)
LEMMA ExecSteps ==
  ASSUME TypeIInv, [Next]_vars, NEW r \in Runners, run'[r].pc # "idle"
  PROVE  \/ run[r].pc # "idle" /\ run'[r].exec = run[r].exec /\ (run'[r] # run[r] => job' = job)
         \/ \E x \in Executions : Claim(r, x) /\ run'[r].exec = x
<1>0. run \in [Runners -> RunState] /\ run[r] \in RunState
  BY DEF TypeIInv, RunsOK
<1>1. CASE run'[r] = run[r]
  BY <1>1
<1>2. CASE run'[r] # run[r]
  <2>1. ASSUME NEW done, End(r, done) PROVE FALSE
    BY <1>0, <2>1 DEF End, Idle
  <2>2. CASE \E x \in Executions : Claim(r, x)
    <3>1. PICK x \in Executions : Claim(r, x)
      BY <2>2
    <3>2. run'[r].exec = x
      BY <1>0, <3>1 DEF Claim, Idle
    <3> QED  BY <3>1, <3>2
  <2>3. CASE Prepare(r) \/ Load(r)
    <3>1. PICK seen, saved, known : TakeSnapshot(r, seen, saved, known)
      BY <2>1, <2>3 DEF Prepare, Load
    <3>2. run'[r] = [run[r] EXCEPT !.pc = "acquiring", !.seen = seen, !.known = known,
                       !.runtime = [m \in Nodes |-> IF m \in Targets[run[r].exec] THEN LoadedStatus(saved[m]) ELSE "none"]]
          /\ job' = job
      BY <1>0, <3>1 DEF TakeSnapshot
    <3> QED  BY <1>0, <2>3, <3>2 DEF RunState, Prepare, Load
  <2>4. CASE Acquire(r) \/ MarkRunning(r) \/ FinishPlan(r) \/ Block(r) \/ PreflightError(r) \/ Complete(r)
    <3>1. run[r].pc # "idle" /\ ((\E pc : Goto(r, pc)) \/ \E done : GotoRelease(r, done))
      BY <2>1, <2>4 DEF Acquire, MarkRunning, FinishPlan, BetweenBatches, Block, PreflightError, Complete
    <3>2. ASSUME NEW pc, Goto(r, pc) PROVE run'[r].exec = run[r].exec /\ job' = job
      <4>1. run'[r] = [run[r] EXCEPT !.pc = pc] /\ job' = job
        BY <1>0, <3>2 DEF Goto
      <4> QED  BY <1>0, <4>1 DEF RunState
    <3>3. ASSUME NEW done, GotoRelease(r, done) PROVE run'[r].exec = run[r].exec /\ job' = job
      <4>1. run'[r] = [run[r] EXCEPT !.pc = "releasing", !.result = done] /\ job' = job
        BY <1>0, <3>3 DEF GotoRelease
      <4> QED  BY <1>0, <4>1 DEF RunState
    <3> QED  BY <3>1, <3>2, <3>3
  <2>5. CASE StartBatch(r)
    <3>1. run[r].pc = "running" /\ job' = job /\ \E tasks : run'[r] = [run[r] EXCEPT !.task = tasks]
      BY <1>0, <2>5 DEF StartBatch, BetweenBatches
    <3> QED  BY <1>0, <3>1 DEF RunState
  <2>6. CASE Collect(r)
    <3>1. PICK pc, runtime : run' = [run EXCEPT ![r] = [run[r] EXCEPT !.pc = pc, !.runtime = runtime, !.task = Idle.task]]
      BY <2>1, <2>6 DEF Collect
    <3>2. run'[r] = [run[r] EXCEPT !.pc = pc, !.runtime = runtime, !.task = Idle.task]
      BY <1>0, <3>1
    <3>3. run[r].pc = "running" /\ job' = job
      BY <2>1, <2>6 DEF Collect
    <3> QED  BY <1>0, <3>2, <3>3 DEF RunState
  <2>7. CASE \E n \in Nodes : TaskStep(r, n) \/ SaveError(r, n)
    <3>1. PICK n \in Nodes : TaskStep(r, n) \/ SaveError(r, n)
      BY <2>7
    <3>2. run[r].pc # "idle" /\ job' = job
      BY <3>1, RunnerFacts DEF TaskStep, SaveError, SaveTask, Sync, Resume, Watch
    <3>3. PICK task : run'[r] = [run[r] EXCEPT !.task[n] = task]
      BY <1>0, <3>1 DEF TaskStep, SaveError, SaveTask, SaveNode, Sync, Resume, Watch, SetTask
    <3> QED  BY <1>0, <3>2, <3>3 DEF RunState
  <2>8. CASE Release(r) \/ NoExecutableNode(r) \/ Break(r) \/ LoseLocks(r)
    BY <2>1, <2>8 DEF Release, NoExecutableNode, Break, LoseLocks
  <2> QED  BY <1>2, <2>2, <2>3, <2>4, <2>5, <2>6, <2>7, <2>8, RunSteps DEF RunnerStep, Trouble
<1> QED  BY <1>1, <1>2

(* A job is taken, and given up, by its holder, as long as no run is deprived of it. *)
LEMMA HolderSteps ==
  ASSUME TypeIInv, ~Breaks, RunsHoldTheirJobs, [Next]_vars
  PROVE  RunsHoldTheirJobs'
<1>0. /\ job \in [Executions -> [state : {"none", "open", "done"}, left : 0..MaxDeliveries, holder : Runners \cup {"none"}]]
      /\ run \in [Runners -> RunState]
  BY DEF TypeIInv, JobsOK, RunsOK
<1> SUFFICES ASSUME NEW r \in Runners, run'[r].pc # "idle"
             PROVE  job'[run'[r].exec].holder = r /\ job'[run'[r].exec].state = "open"
  BY DEF RunsHoldTheirJobs
<1>1. CASE \E x \in Executions : Claim(r, x) /\ run'[r].exec = x
  BY <1>0, <1>1 DEF Claim
<1>2. CASE run[r].pc # "idle" /\ run'[r].exec = run[r].exec /\ (run'[r] # run[r] => job' = job)
  <2> DEFINE x == run[r].exec
  <2>1. x \in Executions /\ job[x].holder = r /\ job[x].state = "open"
    BY <1>2, RunnerFacts DEF RunsHoldTheirJobs
  <2>2. CASE job' = job
    BY <1>2, <2>1, <2>2
  <2>3. CASE job' # job
    <3>0. run'[r] = run[r]
      BY <1>2, <2>3
    <3> HIDE DEF x
    <3>1. ASSUME NEW s \in Runners, NEW y \in Executions, Claim(s, y) PROVE job'[x] = job[x]
      <4>1. y # x
        BY <2>1, <3>1, DeploymentExecutionAssumption DEF Claim
      <4> QED  BY <1>0, <2>1, <3>1, <4>1 DEF Claim
    <3>2. ASSUME NEW s \in Runners, NEW done, End(s, done), run[s].pc # "idle" PROVE job'[x] = job[x]
      <4>1. s # r
        BY <1>0, <1>2, <3>0, <3>2 DEF End, Idle
      <4>2. run[s].exec # x \/ job[run[s].exec].holder # s
        BY <2>1, <4>1
      <4> QED  BY <1>0, <2>1, <3>2, <4>2 DEF End
    <3>3. ASSUME NEW y \in Executions, NEW selected \in SUBSET Nodes, Retry(y, selected)
          PROVE  job'[x].holder = r /\ job'[x].state = "open"
      BY <1>0, <2>1, <3>3 DEF Retry
    <3>4. ASSUME NEW s \in Runners, RunnerStep(s) \/ Trouble(s) PROVE run[s].pc # "idle" /\ \E done : End(s, done)
      <4>1. job' # job
        BY <2>3
      <4>2. run[s].pc # "idle"
        BY <3>4, RunnerFacts DEF RunnerStep, Trouble, TaskStep, Prepare, Load, Acquire, Block, MarkRunning, StartBatch,
                NoExecutableNode, BetweenBatches, Collect, FinishPlan, Complete, Release, SaveTask, Sync, Resume, Watch,
                Break, PreflightError, LoseLocks, SaveError
      <4>3. CASE Prepare(s) \/ Load(s) \/ Acquire(s) \/ NoExecutableNode(s) \/ Complete(s) \/ Break(s) \/ LoseLocks(s)
                 \/ Release(s) \/ Collect(s)
        BY <4>1, <4>2, <4>3 DEF Prepare, Load, Acquire, NoExecutableNode, Complete, Break, LoseLocks, Release, Collect,
                                Goto, GotoRelease, TakeSnapshot
      <4>4. CASE \E n \in Nodes : TaskStep(s, n) \/ SaveError(s, n)
        BY <4>1, <4>4 DEF TaskStep, SaveTask, Sync, Resume, Watch, SaveError
      <4> QED  BY <3>4, <4>1, <4>2, <4>3, <4>4
               DEF RunnerStep, Trouble, Block, MarkRunning, StartBatch, FinishPlan, PreflightError, Goto, GotoRelease
    <3>5. job'[x].holder = r /\ job'[x].state = "open"
      BY <2>1, <2>3, <3>1, <3>2, <3>3, <3>4
         DEF Next, vars, Work, Renew, LoseJob, Commands, BeginTerminate, Unlock, StopOperation, FinishTerminate,
             Supersede, Outside, Lapse, StartOperation, EndOperation, Drift
    <3> QED  BY <1>2, <3>5 DEF x
  <2> QED  BY <2>2, <2>3
<1> QED  BY <1>1, <1>2, ExecSteps

(* Where no run breaks off, every run keeps the job it was started for.    *)
LEMMA HolderInvariance == ~Breaks => (Spec => []RunsHoldTheirJobs)
<1> SUFFICES ASSUME ~Breaks PROVE Spec => []RunsHoldTheirJobs
  OBVIOUS
<1>1. Init => RunsHoldTheirJobs
  BY DEF Init, RunsHoldTheirJobs, Idle
<1>2. TypeIInv /\ RunsHoldTheirJobs /\ [Next]_vars => RunsHoldTheirJobs'
  BY HolderSteps
<1> QED  BY <1>1, <1>2, TypeInvariance, PTL DEF Spec

(* No two runs work on one execution where no run breaks off, or where one *)
(* runner is all there is.                                                 *)
LEMMA OneRunInvariance == RunsDoNotOverlap => (Spec => []OneRun)
<1>1. CASE ~Breaks
  <2>1. RunsHoldTheirJobs => OneRun
    BY DEF RunsHoldTheirJobs, OneRun
  <2> QED  BY <1>1, <2>1, HolderInvariance, PTL
<1>2. CASE \A r, s \in Runners : r = s
  <2>1. OneRun
    BY <1>2 DEF OneRun
  <2> QED  BY <2>1, PTL
<1> QED  BY <1>1, <1>2 DEF RunsDoNotOverlap

(* What is saved of operations, and asked for, by the steps of a run. *)
LEMMA OwnSteps ==
  ASSUME TypeIInv, NEW r \in Runners, RunnerStep(r) \/ Trouble(r)
  PROVE  \/ run'[r] = Idle /\ UNCHANGED <<op, requests>>
         \/ /\ run[r].pc = "loading" /\ run'[r].pc = "acquiring"
            /\ run'[r].exec = run[r].exec /\ run'[r].task = run[r].task /\ run'[r].known = op[run[r].exec]
            /\ status'[run[r].exec] # "none" /\ UNCHANGED <<op, requests>>
         \/ /\ run[r].pc \notin {"idle", "loading"} /\ run'[r].pc \notin {"idle", "loading"}
            /\ run'[r].exec = run[r].exec /\ run'[r].task = run[r].task
            /\ run'[r].known = run[r].known /\ run'[r].runtime = run[r].runtime /\ UNCHANGED <<op, requests>>
         \/ /\ StartBatch(r) /\ run[r].pc = "running" /\ run'[r].pc = "running" /\ UNCHANGED <<op, requests>>
            /\ run'[r] = [run[r] EXCEPT !.task = [n \in Nodes |-> IF n \in Ready(r) THEN FirstTask(r, n) ELSE "none"]]
         \/ /\ run[r].pc = "running" /\ run'[r].pc \in {"completing", "running"} /\ UNCHANGED <<op, requests>>
            /\ {run[r].task[n] : n \in Batch(r)} \subseteq {"succeeded", "failed"}
            /\ run'[r].exec = run[r].exec /\ run'[r].known = run[r].known
            /\ run'[r].runtime = Collected(r) /\ run'[r].task = Idle.task
         \/ \E n \in Nodes, task \in Tasks :
              /\ TaskStep(r, n) \/ SaveError(r, n)
              /\ SetTask(r, n, task) /\ run[r].pc = "running" /\ run'[r] = [run[r] EXCEPT !.task[n] = task]
<1>0. /\ run \in [Runners -> RunState] /\ run[r] \in RunState
      /\ status \in [Executions -> OutcomeStatuses \cup {"none", "Preflight", "Running", "Blocked", "Terminated"}]
  BY DEF TypeIInv, RunsOK, DatabaseOK
<1>1. ASSUME NEW done, End(r, done) PROVE run'[r] = Idle
  BY <1>0, <1>1 DEF End
<1>2. ASSUME NEW pc, Goto(r, pc)
      PROVE  /\ run'[r].pc = pc /\ run'[r].exec = run[r].exec /\ run'[r].task = run[r].task
             /\ run'[r].known = run[r].known /\ run'[r].runtime = run[r].runtime
  <2>1. run'[r] = [run[r] EXCEPT !.pc = pc]
    BY <1>0, <1>2 DEF Goto
  <2> QED  BY <1>0, <2>1 DEF RunState
<1>3. ASSUME NEW done, GotoRelease(r, done)
      PROVE  /\ run'[r].pc = "releasing" /\ run'[r].exec = run[r].exec /\ run'[r].task = run[r].task
             /\ run'[r].known = run[r].known /\ run'[r].runtime = run[r].runtime
  <2>1. run'[r] = [run[r] EXCEPT !.pc = "releasing", !.result = done]
    BY <1>0, <1>3 DEF GotoRelease
  <2> QED  BY <1>0, <2>1 DEF RunState
<1>4. ASSUME NEW seen, NEW saved, NEW known, TakeSnapshot(r, seen, saved, known)
      PROVE  run'[r].pc = "acquiring" /\ run'[r].exec = run[r].exec /\ run'[r].task = run[r].task /\ run'[r].known = known
  <2>1. run'[r] = [run[r] EXCEPT !.pc = "acquiring", !.seen = seen, !.known = known,
                     !.runtime = [m \in Nodes |-> IF m \in Targets[run[r].exec] THEN LoadedStatus(saved[m]) ELSE "none"]]
    BY <1>0, <1>4 DEF TakeSnapshot
  <2> QED  BY <1>0, <2>1 DEF RunState
<1>5. CASE Prepare(r)
  <2>1. run[r].exec \in Executions /\ run[r].pc = "loading"
    BY <1>5, RunnerFacts DEF Prepare
  <2>2. UNCHANGED <<op, requests>>
    BY <1>5 DEF Prepare, database
  <2>3. \/ End(r, FALSE)
        \/ status' = [status EXCEPT ![run[r].exec] = "Preflight"]
           /\ TakeSnapshot(r, "Preflight", Fresh(run[r].exec), op[run[r].exec])
    BY <1>5 DEF Prepare
  <2> QED  BY <1>0, <1>1, <1>4, <1>5, <2>1, <2>2, <2>3
<1>6. CASE Load(r)
  <2>1. UNCHANGED <<op, requests, status>> /\ run[r].pc = "loading"
    BY <1>6 DEF Load, database
  <2>2. \/ End(r, TRUE)
        \/ status[run[r].exec] # "none" /\ TakeSnapshot(r, status[run[r].exec], node[run[r].exec], op[run[r].exec])
    BY <1>6 DEF Load
  <2> QED  BY <1>1, <1>4, <1>6, <2>1, <2>2
<1>7. CASE Acquire(r) \/ Block(r) \/ MarkRunning(r) \/ PreflightError(r) \/ FinishPlan(r) \/ Complete(r)
  <2>1. UNCHANGED <<op, requests>>
    BY <1>7 DEF Acquire, Block, MarkRunning, PreflightError, FinishPlan, Complete, database
  <2>2. run[r].pc \notin {"idle", "loading"}
    BY <1>7 DEF Acquire, Block, MarkRunning, PreflightError, FinishPlan, BetweenBatches, Complete
  <2>3. \/ \E done : End(r, done)
        \/ \E pc \in {"preflight", "running", "completing"} : Goto(r, pc)
        \/ \E done : GotoRelease(r, done)
    BY <1>7 DEF Acquire, Block, MarkRunning, PreflightError, FinishPlan, Complete
  <2> QED  BY <1>1, <1>2, <1>3, <2>1, <2>2, <2>3
<1>8. CASE Release(r) \/ NoExecutableNode(r) \/ Break(r) \/ LoseLocks(r)
  BY <1>1, <1>8 DEF Release, NoExecutableNode, Break, LoseLocks, database
<1>9. CASE StartBatch(r)
  <2>1. /\ run[r].pc = "running" /\ UNCHANGED <<op, requests>>
        /\ run'[r] = [run[r] EXCEPT !.task = [n \in Nodes |-> IF n \in Ready(r) THEN FirstTask(r, n) ELSE "none"]]
    BY <1>0, <1>9 DEF StartBatch, BetweenBatches, database
  <2>2. run'[r].pc = "running"
    BY <1>0, <2>1 DEF RunState
  <2> QED  BY <1>9, <2>1, <2>2
<1>10. CASE Collect(r)
  <2> DEFINE ended == {run[r].task[n] : n \in Batch(r)}
  <2>1. run[r].pc = "running" /\ UNCHANGED <<op, requests>> /\ ended \subseteq Ended
    BY <1>10 DEF Collect, database
  <2>2. CASE ended \cap {"stopped", "broken"} # {}
    BY <1>1, <1>10, <2>1, <2>2 DEF Collect
  <2>3. CASE ended \cap {"stopped", "broken"} = {}
    <3>1. run'[r] = [run[r] EXCEPT !.pc = IF "failed" \in ended THEN "completing" ELSE "running",
                                   !.runtime = Collected(r), !.task = Idle.task]
      BY <1>0, <1>10, <2>3 DEF Collect
    <3>2. ended \subseteq {"succeeded", "failed"}
      BY <2>1, <2>3 DEF Ended
    <3> HIDE DEF ended
    <3>3. run'[r].pc \in {"completing", "running"} /\ run'[r].exec = run[r].exec /\ run'[r].known = run[r].known
          /\ run'[r].runtime = Collected(r) /\ run'[r].task = Idle.task
      BY <1>0, <3>1 DEF RunState
    <3> QED  BY <2>1, <3>2, <3>3 DEF ended
  <2> QED  BY <2>2, <2>3
<1>11. CASE \E n \in Nodes : TaskStep(r, n) \/ SaveError(r, n)
  <2>1. PICK n \in Nodes : TaskStep(r, n) \/ SaveError(r, n)
    BY <1>11
  <2>2. PICK task \in Tasks : SetTask(r, n, task)
    BY <2>1 DEF TaskStep, SaveError, SaveTask, SaveNode, Sync, Resume, Watch, Tasks, Ended
  <2>3. run'[r] = [run[r] EXCEPT !.task[n] = task]
    BY <1>0, <2>2 DEF SetTask
  <2>4. run[r].pc = "running"
    BY <2>1, RunnerFacts DEF TaskStep, SaveError, SaveTask, Sync, Resume, Watch
  <2> QED  BY <2>1, <2>2, <2>3, <2>4
<1> QED  BY <1>5, <1>6, <1>7, <1>8, <1>9, <1>10, <1>11 DEF RunnerStep, Trouble

(* Who saves an operation id, and who asks for an operation. *)
LEMMA OpSteps ==
  ASSUME TypeIInv, [Next]_vars, NEW x \in Executions, NEW n \in Nodes
  PROVE  /\ \/ op'[x][n] = op[x][n]
            \/ op'[x][n] = TRUE /\ \E r \in Runners : run[r].exec = x /\ SaveTask(r, n) /\ run[r].task[n] # "none"
            \/ status[x] = "none"
         /\ \/ requests'[x][n] = requests[x][n]
            \/ /\ requests'[x][n] = requests[x][n] + 1
               /\ \E r \in Runners : run[r].exec = x /\ Sync(r, n) /\ run[r].task[n] = "syncing"
<1>0. op \in [Executions -> [Nodes -> BOOLEAN]] /\ requests \in [Executions -> [Nodes -> Nat]]
  BY DEF TypeIInv, DatabaseOK, RequestsOK
<1>1. CASE \E r \in Runners : RunnerStep(r) \/ Trouble(r)
  <2>1. PICK r \in Runners : RunnerStep(r) \/ Trouble(r)
    BY <1>1
  <2>2. CASE UNCHANGED <<op, requests>>
    BY <2>2
  <2>3. CASE \E m \in Nodes : TaskStep(r, m) \/ SaveError(r, m)
    <3>1. PICK m \in Nodes : TaskStep(r, m) \/ SaveError(r, m)
      BY <2>3
    <3>2. run[r].exec \in Executions /\ run[r].task[m] # "none"
      BY <3>1, RunnerFacts DEF TaskStep, SaveError, SaveTask, Sync, Resume, Watch
    <3>3. CASE SaveTask(r, m)
      <4>1. requests' = requests /\ (op' = op \/ op' = [op EXCEPT ![run[r].exec][m] = TRUE])
        BY <3>3 DEF SaveTask, SaveNode, database
      <4> QED  BY <1>0, <3>2, <3>3, <4>1
    <3>4. CASE Sync(r, m)
      <4>1. run[r].task[m] = "syncing" /\ op' = op /\ requests' = [requests EXCEPT ![run[r].exec][m] = @ + 1]
        BY <3>4 DEF Sync, database
      <4> QED  BY <1>0, <3>2, <3>4, <4>1
    <3>5. CASE ~SaveTask(r, m) /\ ~Sync(r, m)
      BY <3>1, <3>5 DEF TaskStep, SaveError, Resume, Watch, database
    <3> QED  BY <3>3, <3>4, <3>5
  <2> QED  BY <2>1, <2>2, <2>3, OwnSteps
<1>2. CASE \E z \in Executions, selected \in SUBSET Nodes : Retry(z, selected)
  <2>1. PICK z \in Executions, selected \in SUBSET Nodes : Retry(z, selected)
    BY <1>2
  <2>2. status[Following[z]] = "none" /\ requests' = requests
        /\ op' = [op EXCEPT ![Following[z]] = [m \in Nodes |-> op[z][m] /\ m \notin selected]]
    BY <2>1 DEF Retry, Latest
  <2> QED  BY <1>0, <2>2
<1>3. CASE UNCHANGED <<op, requests>>
  BY <1>3
<1> QED  BY <1>1, <1>2, <1>3
         DEF Next, vars, database, Work, Claim, Renew, LoseJob, Commands, BeginTerminate, Unlock, StopOperation,
             FinishTerminate, Supersede, Outside, Lapse, StartOperation, EndOperation, Drift

(* A task that saves an operation id or asks for an operation goes on. *)
LEMMA SendersGoOn ==
  ASSUME TypeIInv, NEW r \in Runners, NEW n \in Nodes, SaveTask(r, n) \/ Sync(r, n)
  PROVE  run'[r].task[n] # run[r].task[n]
<1>0. run \in [Runners -> RunState] /\ run[r] \in RunState
  BY DEF TypeIInv, RunsOK
<1>1. ASSUME NEW task, SetTask(r, n, task) PROVE run'[r].task[n] = task
  <2>1. run'[r] = [run[r] EXCEPT !.task[n] = task]
    BY <1>0, <1>1 DEF SetTask
  <2> QED  BY <1>0, <2>1 DEF RunState
<1> QED  BY <1>1 DEF SaveTask, SaveNode, Sync

(* What run r knows of the operation of Application n. *)
Aware(r, n) ==
  LET x == run[r].exec IN
  /\ run[r].runtime[n] = "Queued" /\ run[r].task[n] = "none" => op[x][n] = run[r].known[n]
  /\ run[r].task[n] = "saving" => ~op[x][n]
  /\ run[r].task[n] = "syncing" => requests[x][n] = 0 /\ op[x][n]

SendIInv ==
  /\ NothingSentTwice
  /\ \A x \in Executions, n \in Nodes :
       /\ requests[x][n] > 0 => op[x][n]
       /\ status[x] = "none" => requests[x][n] = 0
  /\ \A r \in Runners :
       /\ run[r].pc \notin {"idle", "loading"} => status[run[r].exec] # "none"
       /\ run[r].pc \in {"idle", "loading"} => \A n \in Nodes : run[r].runtime[n] = "none"
       /\ \A n \in Nodes : Aware(r, n)

(* An attempt that there is does not vanish. *)
LEMMA AttemptsStay ==
  ASSUME TypeIInv, [Next]_vars, NEW x \in Executions, status[x] # "none"
  PROVE  status'[x] # "none"
  BY StatusSteps DEF Aggregate

(* Only an operation that was not yet asked for, and whose id is saved, is asked for. *)
LEMMA RequestSteps ==
  ASSUME TypeIInv, SendIInv, [Next]_vars, NEW x \in Executions, NEW n \in Nodes
  PROVE  /\ requests'[x][n] <= 1
         /\ requests'[x][n] > 0 => op'[x][n]
         /\ status'[x] = "none" => requests'[x][n] = 0
<1>0. /\ requests[x][n] \in Nat /\ requests[x][n] <= 1 /\ (requests[x][n] > 0 => op[x][n])
      /\ status[x] = "none" => requests[x][n] = 0
  BY DEF TypeIInv, RequestsOK, SendIInv, NothingSentTwice
<1>1. status'[x] = "none" => status[x] = "none"
  BY AttemptsStay
<1>4. status[x] # "none" /\ op[x][n] => op'[x][n]
  <2>1. op'[x][n] = op[x][n] \/ op'[x][n] = TRUE \/ status[x] = "none"
    BY OpSteps
  <2> QED  BY <2>1
<1>5. \/ requests'[x][n] = requests[x][n]
      \/ /\ requests'[x][n] = requests[x][n] + 1
         /\ \E r \in Runners : run[r].exec = x /\ run[r].task[n] = "syncing"
  <2>1. \/ requests'[x][n] = requests[x][n]
        \/ /\ requests'[x][n] = requests[x][n] + 1
           /\ \E r \in Runners : run[r].exec = x /\ Sync(r, n) /\ run[r].task[n] = "syncing"
    BY OpSteps
  <2> QED  BY <2>1
<1>2. CASE requests'[x][n] = requests[x][n]
  BY <1>0, <1>1, <1>2, <1>4
<1>3. CASE requests'[x][n] # requests[x][n]
  <2>1. PICK r \in Runners : run[r].exec = x /\ run[r].task[n] = "syncing"
    BY <1>3, <1>5
  <2>2. requests'[x][n] = requests[x][n] + 1
    BY <1>3, <1>5
  <2>3. requests[x][n] = 0 /\ op[x][n] /\ status[x] # "none"
    BY <2>1, RunnerFacts DEF SendIInv, Aware
  <2>4. op'[x][n]
    BY <2>3, <1>4
  <2> QED  BY <1>1, <2>2, <2>3, <2>4
<1> QED  BY <1>2, <1>3

(* A run that stays where it is knows what it knew: nobody else saves or asks. *)
LEMMA AwareStays ==
  ASSUME TypeIInv, OneRun, SendIInv, [Next]_vars, NEW r \in Runners, NEW n \in Nodes,
         run[r].pc \notin {"idle", "loading"},
         run'[r].exec = run[r].exec, run'[r].task[n] = run[r].task[n]
  PROVE  op'[run[r].exec][n] = op[run[r].exec][n] /\ requests'[run[r].exec][n] = requests[run[r].exec][n]
<1> DEFINE x == run[r].exec
<1>1. x \in Executions /\ status[x] # "none"
  BY RunnerFacts DEF SendIInv
<1>2. ASSUME NEW s \in Runners, run[s].exec = x, run[s].task[n] # "none", SaveTask(s, n) \/ Sync(s, n) PROVE FALSE
  <2>1. s = r
    BY <1>2, RunnerFacts DEF OneRun
  <2> QED  BY <1>2, <2>1, SendersGoOn
<1> HIDE DEF x
<1>3. op'[x][n] = op[x][n] /\ requests'[x][n] = requests[x][n]
  BY <1>1, <1>2, OpSteps
<1> QED  BY <1>3 DEF x

(* A run keeps aware of its operations. *)
LEMMA AwareSteps ==
  ASSUME TypeIInv, OneRun, SendIInv, [Next]_vars, NEW r \in Runners
  PROVE  /\ run'[r].pc \notin {"idle", "loading"} => status'[run'[r].exec] # "none"
         /\ run'[r].pc \in {"idle", "loading"} => \A n \in Nodes : run'[r].runtime[n] = "none"
         /\ \A n \in Nodes :
              /\ run'[r].runtime[n] = "Queued" /\ run'[r].task[n] = "none" => op'[run'[r].exec][n] = run'[r].known[n]
              /\ run'[r].task[n] = "saving" => ~op'[run'[r].exec][n]
              /\ run'[r].task[n] = "syncing" => requests'[run'[r].exec][n] = 0 /\ op'[run'[r].exec][n]
<1>0. /\ run \in [Runners -> RunState] /\ run[r] \in RunState
      /\ run[r].pc \notin {"idle", "loading"} => status[run[r].exec] # "none"
      /\ run[r].pc \in {"idle", "loading"} => \A n \in Nodes : run[r].runtime[n] = "none"
      /\ \A n \in Nodes : Aware(r, n)
  BY DEF TypeIInv, RunsOK, SendIInv
<1>1. \A n \in Nodes : Idle.runtime[n] = "none" /\ Idle.task[n] = "none"
  BY DEF Idle
<1>2. run[r].pc # "running" => \A n \in Nodes : run[r].task[n] = "none"
  BY RunnerFacts
<1>3. run[r].pc \notin {"idle", "loading"} => run[r].exec \in Executions /\ status'[run[r].exec] # "none"
  BY <1>0, RunnerFacts, AttemptsStay
<1>4. CASE run'[r] = run[r]
  BY <1>0, <1>2, <1>3, <1>4, AwareStays DEF Aware
<1>5. CASE \E x \in Executions : Claim(r, x)
  <2>1. run'[r].pc = "loading" /\ run'[r].runtime = Idle.runtime /\ run'[r].task = Idle.task
    BY <1>0, <1>5 DEF Claim, Idle
  <2> QED  BY <1>1, <2>1
<1>6. CASE run'[r] = Idle
  BY <1>1, <1>6 DEF Idle
<1>7. CASE /\ run[r].pc = "loading" /\ run'[r].pc = "acquiring"
           /\ run'[r].exec = run[r].exec /\ run'[r].task = run[r].task /\ run'[r].known = op[run[r].exec]
           /\ status'[run[r].exec] # "none" /\ UNCHANGED <<op, requests>>
  BY <1>2, <1>7
<1>8. CASE /\ run[r].pc \notin {"idle", "loading"} /\ run'[r].pc \notin {"idle", "loading"}
           /\ run'[r].exec = run[r].exec /\ run'[r].task = run[r].task
           /\ run'[r].known = run[r].known /\ run'[r].runtime = run[r].runtime /\ UNCHANGED <<op, requests>>
  BY <1>0, <1>3, <1>8 DEF Aware
<1>9. CASE /\ StartBatch(r) /\ run[r].pc = "running" /\ run'[r].pc = "running" /\ UNCHANGED <<op, requests>>
           /\ run'[r] = [run[r] EXCEPT !.task = [n \in Nodes |-> IF n \in Ready(r) THEN FirstTask(r, n) ELSE "none"]]
  <2>1. /\ run'[r].exec = run[r].exec /\ run'[r].known = run[r].known /\ run'[r].runtime = run[r].runtime
        /\ \A n \in Nodes : run'[r].task[n] = IF n \in Ready(r) THEN FirstTask(r, n) ELSE "none"
    BY <1>0, <1>9 DEF RunState
  <2>2. \A n \in Nodes : run[r].task[n] = "none"
    BY <1>9 DEF StartBatch, BetweenBatches, Batch
  <2>3. \A n \in Nodes : run'[r].task[n] # "none" =>
          run[r].runtime[n] = "Queued" /\ run'[r].task[n] = IF run[r].known[n] THEN "resuming" ELSE "saving"
    BY <2>1, ReadyFacts DEF FirstTask
  <2> QED  BY <1>0, <1>3, <1>9, <2>1, <2>2, <2>3 DEF Aware
<1>10. CASE /\ run[r].pc = "running" /\ run'[r].pc \in {"completing", "running"} /\ UNCHANGED <<op, requests>>
            /\ {run[r].task[n] : n \in Batch(r)} \subseteq {"succeeded", "failed"}
            /\ run'[r].exec = run[r].exec /\ run'[r].known = run[r].known
            /\ run'[r].runtime = Collected(r) /\ run'[r].task = Idle.task
  <2>1. \A n \in Nodes : run'[r].runtime[n] = "Queued" => run[r].runtime[n] = "Queued" /\ run[r].task[n] = "none"
    BY <1>10 DEF Collected, Batch
  <2> QED  BY <1>0, <1>1, <1>3, <1>10, <2>1 DEF Aware
<1>11. CASE \E m \in Nodes, task \in Tasks :
              /\ TaskStep(r, m) \/ SaveError(r, m)
              /\ SetTask(r, m, task) /\ run[r].pc = "running" /\ run'[r] = [run[r] EXCEPT !.task[m] = task]
  <2>1. PICK m \in Nodes, task \in Tasks :
              /\ TaskStep(r, m) \/ SaveError(r, m)
              /\ SetTask(r, m, task) /\ run[r].pc = "running" /\ run'[r] = [run[r] EXCEPT !.task[m] = task]
    BY <1>11
  <2>2. /\ run'[r].exec = run[r].exec /\ run'[r].known = run[r].known /\ run'[r].runtime = run[r].runtime
        /\ run'[r].pc = "running" /\ \A n \in Nodes : run'[r].task[n] = IF n = m THEN task ELSE run[r].task[n]
    BY <1>0, <2>1 DEF RunState
  <2>3. ASSUME NEW n \in Nodes, n # m
        PROVE  /\ run'[r].runtime[n] = "Queued" /\ run'[r].task[n] = "none" => op'[run'[r].exec][n] = run'[r].known[n]
               /\ run'[r].task[n] = "saving" => ~op'[run'[r].exec][n]
               /\ run'[r].task[n] = "syncing" => requests'[run'[r].exec][n] = 0 /\ op'[run'[r].exec][n]
    <3>1. run'[r].task[n] = run[r].task[n]
      BY <2>2, <2>3
    <3>2. op'[run[r].exec][n] = op[run[r].exec][n] /\ requests'[run[r].exec][n] = requests[run[r].exec][n]
      BY <2>1, <2>2, <3>1, AwareStays
    <3> QED  BY <1>0, <2>2, <3>1, <3>2 DEF Aware
  <2>4. /\ task \notin {"none", "saving"}
        /\ task = "syncing" => requests'[run[r].exec][m] = 0 /\ op'[run[r].exec][m]
    <3>0. ASSUME NEW other, SetTask(r, m, other) PROVE other = task
      <4>1. run'[r] = [run[r] EXCEPT !.task[m] = other]
        BY <1>0, <3>0 DEF SetTask
      <4> QED  BY <1>0, <2>2, <4>1 DEF RunState
    <3>1. CASE SaveTask(r, m)
      <4>1. CASE status[run[r].exec] = "Terminated" \/ run[r].task[m] # "saving"
        BY <3>0, <3>1, <4>1 DEF SaveTask, SaveNode
      <4>2. CASE status[run[r].exec] # "Terminated" /\ run[r].task[m] = "saving"
        <5>1. task = "syncing" /\ requests' = requests /\ op' = [op EXCEPT ![run[r].exec][m] = TRUE] /\ ~op[run[r].exec][m]
          BY <1>0, <3>0, <3>1, <4>2 DEF SaveTask, SaveNode, Aware
        <5>2. requests[run[r].exec][m] = 0 /\ op'[run[r].exec][m]
          BY <1>3, <2>1, <5>1 DEF SendIInv, TypeIInv, DatabaseOK, RequestsOK
        <5> QED  BY <5>1, <5>2
      <4> QED  BY <4>1, <4>2
    <3>2. CASE Sync(r, m) \/ Resume(r, m) \/ Watch(r, m) \/ SaveError(r, m)
      BY <3>0, <3>2 DEF Sync, Resume, Watch, SaveError
    <3> QED  BY <2>1, <3>1, <3>2 DEF TaskStep
  <2> QED  BY <1>0, <1>3, <2>1, <2>2, <2>3, <2>4
<1>12. CASE RunnerStep(r) \/ Trouble(r)
  BY <1>6, <1>7, <1>8, <1>9, <1>10, <1>11, <1>12, OwnSteps
<1> QED  BY <1>4, <1>5, <1>12, RunSteps

(* NothingSentTwice: an attempt asks for the operation of an Application at most once, *)
(* whatever crashes, unless a run outlives its job while another one carries it on.    *)
THEOREM AtMostOneSync == RunsDoNotOverlap => (Spec => []NothingSentTwice)
<1> SUFFICES ASSUME RunsDoNotOverlap PROVE Spec => []NothingSentTwice
  OBVIOUS
<1>1. Init => SendIInv
  <2> SUFFICES ASSUME Init PROVE SendIInv
    OBVIOUS
  <2>1. \A x \in Executions, n \in Nodes : requests[x][n] = 0
    BY DEF Init
  <2>2. \A r \in Runners : run[r].pc = "idle" /\ \A n \in Nodes : run[r].task[n] = "none" /\ run[r].runtime[n] = "none"
    BY DEF Init, Idle
  <2> QED  BY <2>1, <2>2 DEF SendIInv, NothingSentTwice, Aware
<1>2. ASSUME TypeIInv, OneRun, SendIInv, [Next]_vars PROVE SendIInv'
  <2>1. NothingSentTwice' /\ \A x \in Executions, n \in Nodes :
          /\ requests'[x][n] > 0 => op'[x][n]
          /\ status'[x] = "none" => requests'[x][n] = 0
    BY <1>2, RequestSteps DEF NothingSentTwice
  <2> QED  BY <1>2, <2>1, AwareSteps DEF SendIInv, Aware
<1>3. SendIInv => NothingSentTwice
  BY DEF SendIInv
<1> QED  BY <1>1, <1>2, <1>3, TypeInvariance, OneRunInvariance, PTL DEF Spec

-----------------------------------------------------------------------------
(***************************************************************************)
(* Nothing moves in a terminated execution, as long as no two runs of it   *)
(* overlap: only a run that is in its preflight writes without looking at  *)
(* the status, and it is nobody else's to move on.                         *)
(***************************************************************************)

(* What is saved of the nodes of an execution changes with its attempt, by its run, or *)
(* by a termination.                                                                   *)
LEMMA NodeSteps ==
  ASSUME TypeIInv, [Next]_vars, NEW x \in Executions, node'[x] # node[x]
  PROVE  \/ status[x] = "none"
         \/ \E r \in Runners : Block(r) /\ run[r].exec = x
         \/ \E r \in Runners, n \in Nodes : SaveTask(r, n) /\ run[r].exec = x /\ status[x] # "Terminated"
         \/ \E r \in Runners : /\ Complete(r) /\ run[r].exec = x
                               /\ status[x] \notin OutcomeStatuses \cup {"Terminated"}
         \/ FinishTerminate /\ operator.exec = x /\ status[x] \in Terminable
<1>0. node \in [Executions -> [Nodes -> NodeStates]] /\ node' # node
  BY DEF TypeIInv, DatabaseOK
<1>1. CASE Work
  <2>1. PICK r \in Runners : RunnerStep(r) \/ \E y \in Executions : Claim(r, y)
    BY <1>1 DEF Work
  <2>2. CASE Prepare(r)
    BY <1>0, <2>2 DEF Prepare, database
  <2>3. CASE Block(r)
    BY <1>0, <2>3 DEF Block
  <2>4. CASE Complete(r)
    BY <1>0, <2>4 DEF Complete, database
  <2>5. ASSUME NEW n \in Nodes, TaskStep(r, n)
        PROVE  SaveTask(r, n) /\ run[r].exec = x /\ status[x] # "Terminated"
    <3>1. SaveTask(r, n)
      BY <1>0, <2>5 DEF TaskStep, Sync, Resume, Watch, database
    <3>2. \E saved : node' = [node EXCEPT ![run[r].exec][n] = saved] /\ status[run[r].exec] # "Terminated"
      BY <1>0, <3>1 DEF SaveTask, SaveNode, database
    <3> QED  BY <1>0, <3>1, <3>2
  <2> QED  BY <1>0, <2>1, <2>2, <2>3, <2>4, <2>5
           DEF RunnerStep, Claim, Load, Acquire, MarkRunning, StartBatch, NoExecutableNode, Collect, FinishPlan, Release,
               database
<1>2. CASE Commands
  <2>1. ASSUME NEW z \in Executions, NEW selected \in SUBSET Nodes, Retry(z, selected)
        PROVE  status[x] = "none"
    BY <1>0, <2>1 DEF Retry, Latest
  <2>2. CASE FinishTerminate
    BY <1>0, <2>2 DEF FinishTerminate, database
  <2> QED  BY <1>0, <1>2, <2>1, <2>2 DEF Commands, BeginTerminate, Unlock, StopOperation, Supersede, database
<1> QED  BY <1>0, <1>1, <1>2
         DEF Next, vars, database, Trouble, Break, PreflightError, LoseLocks, SaveError, Renew, LoseJob, Outside, Lapse,
             StartOperation, EndOperation, Drift

(* A run that has yet to pass its preflight. *)
BeforePreflight(r) == run[r].pc = "preflight" \/ (run[r].pc = "acquiring" /\ run[r].seen = "Preflight")

PreflightIInv == \A r \in Runners : BeforePreflight(r) => status[run[r].exec] = "Preflight"

(* Runs that move a status go somewhere else. *)
LEMMA MoversMove ==
  ASSUME TypeIInv, NEW r \in Runners, MarkRunning(r) \/ Block(r) \/ Complete(r)
  PROVE  run[r].pc # "idle" /\ run'[r].pc # run[r].pc /\ run'[r].pc \in {"idle", "running", "releasing"}
<1>0. run \in [Runners -> RunState] /\ run[r] \in RunState
  BY DEF TypeIInv, RunsOK
<1>1. ASSUME NEW done, End(r, done) PROVE run'[r].pc = "idle"
  BY <1>0, <1>1 DEF End, Idle
<1>2. ASSUME Goto(r, "running") PROVE run'[r].pc = "running"
  BY <1>0, <1>2 DEF Goto, RunState
<1>3. ASSUME NEW done, GotoRelease(r, done) PROVE run'[r].pc = "releasing"
  BY <1>0, <1>3 DEF GotoRelease, RunState
<1> QED  BY <1>1, <1>2, <1>3 DEF MarkRunning, Block, Complete

(* How a run goes on, and the status of its execution with it. *)
LEMMA RunsGoOn ==
  ASSUME TypeIInv, NEW r \in Runners, RunnerStep(r) \/ Trouble(r), run'[r].pc # "idle"
  PROVE  \/ /\ run[r].pc = "loading" /\ run'[r].pc = "acquiring" /\ run'[r].seen = status'[run[r].exec]
            /\ \/ status' = status /\ status[run[r].exec] \notin {"none", "Terminated"}
               \/ status'[run[r].exec] = "Preflight"
         \/ /\ run[r].pc = "acquiring" /\ status' = status
            /\ run'[r].pc = IF run[r].seen = "Preflight" THEN "preflight" ELSE "running"
         \/ /\ run[r].pc = "preflight"
            /\ \/ run'[r].pc = "running" /\ status'[run[r].exec] = "Running"
               \/ run'[r].pc = "releasing" /\ (Breaks \/ status[run[r].exec] # "Preflight")
               \/ run'[r].pc = "releasing" /\ run'[r].result /\ status'[run[r].exec] = "Blocked"
         \/ run[r].pc = "running" /\ run'[r].pc \in {"running", "completing"} /\ status' = status
         \/ /\ run[r].pc = "completing" /\ run'[r].pc = "releasing" /\ run'[r].result
            /\ status'[run[r].exec] \in {"Succeeded", "Failed"}
<1>0. /\ run \in [Runners -> RunState] /\ run[r] \in RunState
      /\ status \in [Executions -> OutcomeStatuses \cup {"none", "Preflight", "Running", "Blocked", "Terminated"}]
  BY DEF TypeIInv, RunsOK, DatabaseOK
<1>1. ASSUME NEW done, End(r, done) PROVE FALSE
  BY <1>0, <1>1 DEF End, Idle
<1>2. ASSUME NEW pc, Goto(r, pc) PROVE run'[r].pc = pc
  BY <1>0, <1>2 DEF Goto, RunState
<1>3. ASSUME NEW done, GotoRelease(r, done) PROVE run'[r].pc = "releasing" /\ run'[r].result = done
  <2>1. run'[r] = [run[r] EXCEPT !.pc = "releasing", !.result = done]
    BY <1>0, <1>3 DEF GotoRelease
  <2> QED  BY <1>0, <2>1 DEF RunState
<1>4. ASSUME NEW seen, NEW saved, NEW known, TakeSnapshot(r, seen, saved, known)
      PROVE  run'[r].pc = "acquiring" /\ run'[r].seen = seen
  <2>1. run'[r] = [run[r] EXCEPT !.pc = "acquiring", !.seen = seen, !.known = known,
                     !.runtime = [m \in Nodes |-> IF m \in Targets[run[r].exec] THEN LoadedStatus(saved[m]) ELSE "none"]]
    BY <1>0, <1>4 DEF TakeSnapshot
  <2> QED  BY <1>0, <2>1 DEF RunState
<1>5. CASE Prepare(r)
  <2>1. run[r].exec \in Executions /\ run[r].pc = "loading"
    BY <1>5, RunnerFacts DEF Prepare
  <2>2. status' = [status EXCEPT ![run[r].exec] = "Preflight"] /\ TakeSnapshot(r, "Preflight", Fresh(run[r].exec), op[run[r].exec])
    BY <1>1, <1>5 DEF Prepare
  <2> QED  BY <1>0, <1>4, <2>1, <2>2
<1>6. CASE Load(r)
  <2>1. UNCHANGED status /\ run[r].pc = "loading" /\ status[run[r].exec] \notin {"none", "Terminated"}
    BY <1>1, <1>6 DEF Load, database
  <2>2. TakeSnapshot(r, status[run[r].exec], node[run[r].exec], op[run[r].exec])
    BY <1>1, <1>6 DEF Load
  <2> QED  BY <1>4, <2>1, <2>2
<1>7. CASE Acquire(r)
  <2>1. Goto(r, IF run[r].seen = "Preflight" THEN "preflight" ELSE "running") /\ run[r].pc = "acquiring" /\ status' = status
    BY <1>1, <1>7 DEF Acquire, database
  <2> QED  BY <1>2, <2>1
<1>8. CASE MarkRunning(r)
  <2>1. run[r].exec \in Executions /\ run[r].pc = "preflight"
    BY <1>8, RunnerFacts DEF MarkRunning
  <2>2. \/ Goto(r, "running") /\ status' = [status EXCEPT ![run[r].exec] = "Running"]
        \/ GotoRelease(r, FALSE) /\ status[run[r].exec] # "Preflight"
    BY <1>8 DEF MarkRunning
  <2> QED  BY <1>0, <1>2, <1>3, <2>1, <2>2
<1>9. CASE Block(r)
  <2>1. run[r].exec \in Executions /\ run[r].pc = "preflight"
    BY <1>9, RunnerFacts DEF Block
  <2>2. GotoRelease(r, TRUE) /\ status' = [status EXCEPT ![run[r].exec] = "Blocked"]
    BY <1>9 DEF Block
  <2> QED  BY <1>0, <1>3, <2>1, <2>2
<1>16. CASE PreflightError(r)
  <2>1. Breaks /\ run[r].pc = "preflight" /\ GotoRelease(r, FALSE)
    BY <1>16 DEF PreflightError
  <2> QED  BY <1>3, <2>1
<1>10. CASE FinishPlan(r)
  BY <1>2, <1>10 DEF FinishPlan, BetweenBatches, database
<1>11. CASE StartBatch(r)
  <2>1. PICK tasks : run'[r] = [run[r] EXCEPT !.task = tasks]
    BY <1>0, <1>11 DEF StartBatch
  <2>2. run[r].pc = "running" /\ status' = status
    BY <1>11 DEF StartBatch, BetweenBatches, database
  <2> QED  BY <1>0, <2>1, <2>2 DEF RunState
<1>12. CASE Collect(r)
  <2>1. PICK pc \in {"completing", "running"} :
          \E runtime : run'[r] = [run[r] EXCEPT !.pc = pc, !.runtime = runtime, !.task = Idle.task]
    BY <1>0, <1>1, <1>12 DEF Collect
  <2>2. run[r].pc = "running" /\ status' = status
    BY <1>12 DEF Collect, database
  <2> QED  BY <1>0, <2>1, <2>2 DEF RunState
<1>13. CASE \E n \in Nodes : TaskStep(r, n) \/ SaveError(r, n)
  <2>1. PICK n \in Nodes : TaskStep(r, n) \/ SaveError(r, n)
    BY <1>13
  <2>2. PICK task : run'[r] = [run[r] EXCEPT !.task[n] = task]
    BY <1>0, <2>1 DEF TaskStep, SaveError, SaveTask, SaveNode, Sync, Resume, Watch, SetTask
  <2>3. run[r].pc = "running" /\ status' = status
    BY <2>1, RunnerFacts DEF TaskStep, SaveError, SaveTask, SaveNode, Sync, Resume, Watch, database
  <2> QED  BY <1>0, <2>2, <2>3 DEF RunState
<1>14. CASE Complete(r)
  <2>1. run[r].exec \in Executions /\ run[r].pc = "completing" /\ GotoRelease(r, TRUE)
    BY <1>1, <1>14, RunnerFacts DEF Complete
  <2>2. status'[run[r].exec] \in {"Succeeded", "Failed"}
    <3>1. CASE status[run[r].exec] \in OutcomeStatuses \cup {"Terminated"}
      <4>1. status' = status /\ ReleasesLocks(status[run[r].exec])
        BY <1>1, <1>14, <3>1 DEF Complete, database
      <4> QED  BY <4>1 DEF ReleasesLocks
    <3>2. CASE status[run[r].exec] \notin OutcomeStatuses \cup {"Terminated"}
      <4>1. status' = [status EXCEPT ![run[r].exec] = Aggregate(run[r].exec)] /\ ReleasesLocks(Aggregate(run[r].exec))
        BY <1>1, <1>14, <3>2 DEF Complete
      <4> QED  BY <1>0, <2>1, <4>1 DEF ReleasesLocks
    <3> QED  BY <3>1, <3>2
  <2> QED  BY <1>3, <2>1, <2>2
<1>15. CASE Release(r) \/ NoExecutableNode(r) \/ LoseLocks(r) \/ Break(r)
  BY <1>1, <1>15 DEF Release, NoExecutableNode, LoseLocks, Break
<1> QED  BY <1>5, <1>6, <1>7, <1>8, <1>9, <1>10, <1>11, <1>12, <1>13, <1>14, <1>15, <1>16 DEF RunnerStep, Trouble

(* While a run has yet to pass its preflight, its execution waits for it. *)
LEMMA PreflightInvariance == RunsDoNotOverlap => (Spec => []PreflightIInv)
<1> SUFFICES ASSUME RunsDoNotOverlap PROVE Spec => []PreflightIInv
  OBVIOUS
<1>1. Init => PreflightIInv
  BY DEF Init, PreflightIInv, BeforePreflight, Idle
<1>2. ASSUME TypeIInv, OneRun, PreflightIInv, [Next]_vars PROVE PreflightIInv'
  <2> SUFFICES ASSUME NEW r \in Runners,
                      run'[r].pc = "preflight" \/ (run'[r].pc = "acquiring" /\ run'[r].seen = "Preflight")
               PROVE  status'[run'[r].exec] = "Preflight"
    BY DEF PreflightIInv, BeforePreflight
  <2>1. CASE run'[r] # run[r]
    <3>1. ASSUME NEW x \in Executions, Claim(r, x) PROVE run'[r].pc = "loading"
      BY <1>2, <3>1 DEF Claim, TypeIInv, RunsOK
    <3>2. (RunnerStep(r) \/ Trouble(r)) /\ run'[r].exec = run[r].exec
      BY <1>2, <2>1, <3>1, RunSteps, ExecSteps
    <3>3. (BeforePreflight(r) /\ status' = status) \/ status'[run[r].exec] = "Preflight"
      BY <1>2, <3>2, RunsGoOn DEF BeforePreflight
    <3> QED  BY <1>2, <3>2, <3>3 DEF PreflightIInv
  <2>2. CASE run'[r] = run[r]
    <3> DEFINE x == run[r].exec
    <3>1. status[x] = "Preflight" /\ x \in Executions /\ run[r].pc # "idle"
      BY <1>2, <2>2, RunnerFacts DEF PreflightIInv, BeforePreflight
    <3>2. ASSUME NEW s \in Runners, run[s].exec = x, MarkRunning(s) \/ Block(s) \/ Complete(s) PROVE FALSE
      <4>1. run[s].pc # "idle" /\ run'[s].pc # run[s].pc
        BY <1>2, <3>2, MoversMove
      <4> QED  BY <1>2, <2>2, <3>1, <3>2, <4>1 DEF OneRun
    <3> HIDE DEF x
    <3>3. status'[x] = "Preflight"
      BY <1>2, <3>1, <3>2, StatusSteps DEF Terminable
    <3> QED  BY <2>2, <3>3 DEF x
  <2> QED  BY <2>1, <2>2
<1> QED  BY <1>1, <1>2, TypeInvariance, OneRunInvariance, PTL DEF Spec

(* TerminatedIsFrozen: once an operator has terminated an execution, neither its status *)
(* nor its nodes change, unless a run outlives its job while another one carries it on. *)
THEOREM TerminatedStaysFrozen == RunsDoNotOverlap => (Spec => TerminatedIsFrozen)
<1> SUFFICES ASSUME RunsDoNotOverlap PROVE Spec => TerminatedIsFrozen
  OBVIOUS
<1>1. TypeIInv /\ PreflightIInv /\ [Next]_vars =>
        [\A x \in Executions : status[x] = "Terminated" => status'[x] = "Terminated" /\ node'[x] = node[x]]_vars
  <2> SUFFICES ASSUME TypeIInv, PreflightIInv, [Next]_vars, NEW x \in Executions, status[x] = "Terminated"
               PROVE  status'[x] = "Terminated" /\ node'[x] = node[x]
    OBVIOUS
  <2>1. ~ \E r \in Runners : Block(r) /\ run[r].exec = x
    BY DEF Block, PreflightIInv, BeforePreflight
  <2>2. status'[x] = "Terminated"
    BY <2>1, StatusSteps DEF Terminable
  <2>3. node'[x] = node[x]
    BY <2>1, NodeSteps DEF Terminable
  <2> QED  BY <2>2, <2>3
<1> QED  BY <1>1, TypeInvariance, PreflightInvariance, PTL DEF Spec, TerminatedIsFrozen

-----------------------------------------------------------------------------
(***************************************************************************)
(* As long as runs keep their jobs and locks do not lapse, a Sync is sent  *)
(* by a running execution, under its locks.  Three things have to be known *)
(* together: which status a run finds its execution in at each of its      *)
(* places, that an open job is that of an execution still to be worked on, *)
(* or of a run that is giving its locks back, and who holds the locks.     *)
(***************************************************************************)

Unresolved == {"none", "Preflight", "Running", "Terminated"}

(* The status of the execution of run r, by the place r is at. *)
Stage(r) ==
  LET s == status[run[r].exec] IN
  /\ run[r].pc = "loading" => s \in Unresolved
  /\ run[r].pc = "acquiring" => \/ run[r].seen = "Preflight" /\ s = "Preflight"
                                \/ run[r].seen = "Running" /\ s \in {"Running", "Terminated"}
  /\ run[r].pc = "preflight" => s = "Preflight"
  /\ run[r].pc \in {"running", "completing"} => s \in {"Running", "Terminated"}
  /\ run[r].pc = "releasing" => run[r].result /\ s \in {"Succeeded", "Failed", "Blocked"}

HoldersWork ==
  \A x \in Executions : job[x].holder # "none" => run[job[x].holder].pc # "idle" /\ run[job[x].holder].exec = x

OpenJobsAreUnresolved ==
  \A x \in Executions : job[x].state = "open" /\ status[x] \notin Unresolved =>
    job[x].holder # "none" /\ run[job[x].holder].pc = "releasing"

StageIInv == RunsHoldTheirJobs /\ HoldersWork /\ OpenJobsAreUnresolved /\ \A r \in Runners : Stage(r)

(* How a run that meets no trouble ends ... *)
LEMMA RunsEnd ==
  ASSUME TypeIInv, ~Breaks, NEW r \in Runners, RunnerStep(r) \/ Trouble(r), run'[r].pc = "idle"
  PROVE  /\ run[r].pc # "idle"
         /\ \E done \in BOOLEAN :
              /\ End(r, done)
              /\ \/ done
                 \/ run[r].pc # "releasing" /\ status' = status
                 \/ run[r].pc = "releasing" /\ done = run[r].result
<1>0. run \in [Runners -> RunState] /\ run[r] \in RunState
  BY DEF TypeIInv, RunsOK
<1>1. ASSUME NEW pc \in {"preflight", "running", "completing"}, Goto(r, pc) PROVE FALSE
  BY <1>0, <1>1 DEF Goto, RunState
<1>2. ASSUME NEW done, GotoRelease(r, done) PROVE FALSE
  BY <1>0, <1>2 DEF GotoRelease, RunState
<1>3. ASSUME NEW seen, NEW saved, NEW known, TakeSnapshot(r, seen, saved, known) PROVE FALSE
  <2>1. run'[r] = [run[r] EXCEPT !.pc = "acquiring", !.seen = seen, !.known = known,
                     !.runtime = [m \in Nodes |-> IF m \in Targets[run[r].exec] THEN LoadedStatus(saved[m]) ELSE "none"]]
    BY <1>0, <1>3 DEF TakeSnapshot
  <2> QED  BY <1>0, <2>1 DEF RunState
<1>4. run[r].pc # "idle"
  BY RunnerFacts DEF RunnerStep, Trouble, TaskStep, Prepare, Load, Acquire, Block, MarkRunning, StartBatch,
                NoExecutableNode, BetweenBatches, Collect, FinishPlan, Complete, Release, SaveTask, Sync, Resume, Watch,
                Break, PreflightError, LoseLocks, SaveError
<1>5. CASE Prepare(r)
  <2>1. End(r, FALSE) /\ UNCHANGED database /\ run[r].pc = "loading"
    BY <1>3, <1>5 DEF Prepare
  <2> QED  BY <1>4, <2>1 DEF database
<1>6. CASE Load(r)
  BY <1>3, <1>4, <1>6 DEF Load
<1>7. CASE Acquire(r)
  <2>1. End(r, FALSE) /\ UNCHANGED database /\ run[r].pc = "acquiring"
    BY <1>1, <1>7 DEF Acquire
  <2> QED  BY <1>4, <2>1 DEF database
<1>8. CASE NoExecutableNode(r) \/ LoseLocks(r)
  <2>1. End(r, FALSE) /\ UNCHANGED database /\ run[r].pc = "running"
    BY <1>8 DEF NoExecutableNode, LoseLocks, BetweenBatches
  <2> QED  BY <1>4, <2>1 DEF database
<1>9. CASE Complete(r)
  <2>1. run[r].pc = "completing" /\ (End(r, TRUE) \/ (End(r, FALSE) /\ UNCHANGED database))
    BY <1>2, <1>9 DEF Complete
  <2> QED  BY <1>4, <2>1 DEF database
<1>10. CASE Release(r)
  <2>1. run[r].pc = "releasing" /\ End(r, run[r].result) /\ run[r].result \in BOOLEAN
    BY <1>0, <1>10 DEF Release, RunState
  <2> QED  BY <1>4, <2>1
<1>11. CASE Collect(r)
  <2>1. run[r].pc = "running" /\ UNCHANGED database
    BY <1>11 DEF Collect
  <2>2. \E done \in BOOLEAN : End(r, done)
    <3>1. CASE \E done : run'[r] = [run[r] EXCEPT !.pc = IF done THEN "completing" ELSE "running",
                                         !.runtime = Collected(r), !.task = Idle.task]
      BY <1>0, <3>1 DEF RunState
    <3>2. CASE \A done : run'[r] # [run[r] EXCEPT !.pc = IF done THEN "completing" ELSE "running",
                                         !.runtime = Collected(r), !.task = Idle.task]
      <4>1. End(r, ResolvesJob({run[r].task[n] : n \in Batch(r)}))
        BY <1>0, <1>11, <3>2 DEF Collect
      <4>2. ResolvesJob({run[r].task[n] : n \in Batch(r)}) \in BOOLEAN
        BY DEF ResolvesJob
      <4> QED  BY <4>1, <4>2
    <3> QED  BY <3>1, <3>2
  <2> QED  BY <1>4, <2>1, <2>2 DEF database
<1>12. CASE StartBatch(r)
  <2>1. run[r].pc = "running" /\ \E tasks : run'[r] = [run[r] EXCEPT !.task = tasks]
    BY <1>0, <1>12 DEF StartBatch, BetweenBatches
  <2> QED  BY <1>0, <2>1 DEF RunState
<1>13. CASE \E n \in Nodes : TaskStep(r, n) \/ SaveError(r, n)
  <2>1. PICK n \in Nodes : TaskStep(r, n) \/ SaveError(r, n)
    BY <1>13
  <2>2. PICK task : run'[r] = [run[r] EXCEPT !.task[n] = task]
    BY <1>0, <2>1 DEF TaskStep, SaveError, SaveTask, SaveNode, Sync, Resume, Watch, SetTask
  <2> QED  BY <1>0, <1>4, <2>2 DEF RunState
<1>14. CASE Block(r) \/ MarkRunning(r) \/ FinishPlan(r)
  BY <1>1, <1>2, <1>14 DEF Block, MarkRunning, FinishPlan
<1> QED  BY <1>5, <1>6, <1>7, <1>8, <1>9, <1>10, <1>11, <1>12, <1>13, <1>14
         DEF RunnerStep, Trouble, Break, PreflightError

(* A job changes hands with a claim, with the end of its run, or by a retry. *)
LEMMA HandSteps ==
  ASSUME TypeIInv, ~Breaks, RunsHoldTheirJobs, [Next]_vars, NEW x \in Executions, job'[x] # job[x]
  PROVE  \/ /\ job'[x].holder \in Runners /\ Claim(job'[x].holder, x)
            /\ job[x].state = "open" /\ job[x].holder = "none"
         \/ /\ job[x].holder \in Runners /\ job'[x].holder = "none" /\ run[job[x].holder].exec = x
            /\ \E done \in BOOLEAN :
                 /\ job'[x].state = IF done THEN "done" ELSE "open"
                 /\ \/ done
                    \/ run[job[x].holder].pc # "releasing" /\ status' = status
                    \/ run[job[x].holder].pc = "releasing" /\ done = run[job[x].holder].result
         \/ job'[x].holder = job[x].holder /\ status'[x] = "Preflight"
<1>0. /\ job \in [Executions -> [state : {"none", "open", "done"}, left : 0..MaxDeliveries, holder : Runners \cup {"none"}]]
      /\ run \in [Runners -> RunState] /\ job' # job
      /\ status \in [Executions -> OutcomeStatuses \cup {"none", "Preflight", "Running", "Blocked", "Terminated"}]
  BY DEF TypeIInv, JobsOK, RunsOK, DatabaseOK
<1>1. ASSUME NEW r \in Runners, NEW y \in Executions, Claim(r, y)
      PROVE  job'[x].holder = r /\ Claim(r, x) /\ job[x].state = "open" /\ job[x].holder = "none"
  BY <1>0, <1>1 DEF Claim
<1>2. ASSUME NEW r \in Runners, RunnerStep(r) \/ Trouble(r)
      PROVE  /\ job[x].holder = r /\ job'[x].holder = "none" /\ run[r].exec = x
             /\ \E done \in BOOLEAN :
                  /\ job'[x].state = IF done THEN "done" ELSE "open"
                  /\ done \/ (run[r].pc # "releasing" /\ status' = status) \/ (run[r].pc = "releasing" /\ done = run[r].result)
  <2>1. run'[r].pc = "idle"
    <3>1. run[r].pc # "idle"
      BY <1>2, RunnerFacts DEF RunnerStep, Trouble, TaskStep, Prepare, Load, Acquire, Block, MarkRunning, StartBatch,
              NoExecutableNode, BetweenBatches, Collect, FinishPlan, Complete, Release, SaveTask, Sync, Resume, Watch,
              Break, PreflightError, LoseLocks, SaveError
    <3>2. run'[r] = run[r] \/ run'[r].pc = "idle"
      BY <1>0, <3>1, ExecSteps DEF Claim
    <3>3. CASE run'[r] = run[r]
      <4>2. ASSUME NEW done, End(r, done) PROVE FALSE
        BY <1>0, <3>1, <3>3, <4>2 DEF End, Idle
      <4>3. CASE Prepare(r) \/ Load(r) \/ Acquire(r) \/ Complete(r) \/ Collect(r)
        BY <1>0, <4>2, <4>3 DEF Prepare, Load, Acquire, Complete, Collect, Goto, GotoRelease, TakeSnapshot
      <4>4. CASE \E n \in Nodes : TaskStep(r, n) \/ SaveError(r, n)
        BY <1>0, <4>4 DEF TaskStep, SaveTask, Sync, Resume, Watch, SaveError
      <4> QED  BY <1>0, <1>2, <4>2, <4>3, <4>4
               DEF RunnerStep, Trouble, Block, MarkRunning, StartBatch, FinishPlan, PreflightError, Goto, GotoRelease,
                   NoExecutableNode, Release, Break, LoseLocks
    <3> QED  BY <3>2, <3>3
  <2>2. PICK done \in BOOLEAN :
          /\ End(r, done) /\ run[r].pc # "idle"
          /\ \/ done
             \/ run[r].pc # "releasing" /\ status' = status
             \/ run[r].pc = "releasing" /\ done = run[r].result
    BY <1>2, <2>1, RunsEnd
  <2>3. run[r].exec \in Executions /\ job[run[r].exec].holder = r
    BY <2>2, RunnerFacts DEF RunsHoldTheirJobs
  <2>4. job' = [job EXCEPT ![run[r].exec].state = IF done THEN "done" ELSE "open", ![run[r].exec].holder = "none"]
    BY <2>2, <2>3 DEF End
  <2>5. run[r].exec = x
    BY <1>0, <2>4
  <2>6. job'[x].holder = "none" /\ job'[x].state = IF done THEN "done" ELSE "open"
    BY <1>0, <2>4, <2>5
  <2> QED  BY <2>2, <2>3, <2>5, <2>6
<1>3. ASSUME NEW z \in Executions, NEW selected \in SUBSET Nodes, Retry(z, selected)
      PROVE  job'[x].holder = job[x].holder /\ status'[x] = "Preflight"
  <2>1. Following[z] \in Executions /\ job' = [job EXCEPT ![Following[z]].state = "open"]
        /\ status' = [status EXCEPT ![Following[z]] = "Preflight"]
    BY <1>3, DeploymentExecutionAssumption DEF Retry
  <2> QED  BY <1>0, <2>1
<1>4. \/ \E r \in Runners, y \in Executions : Claim(r, y)
      \/ \E r \in Runners : RunnerStep(r) \/ Trouble(r)
      \/ \E z \in Executions, selected \in SUBSET Nodes : Retry(z, selected)
  BY <1>0 DEF Next, vars, Work, Renew, LoseJob, Commands, BeginTerminate, Unlock, StopOperation, FinishTerminate,
              Supersede, Outside, Lapse, StartOperation, EndOperation, Drift
<1>5. CASE \E r \in Runners, y \in Executions : Claim(r, y)
  BY <1>1, <1>5
<1>6. CASE \E r \in Runners : RunnerStep(r) \/ Trouble(r)
  <2>1. PICK r \in Runners : RunnerStep(r) \/ Trouble(r)
    BY <1>6
  <2> QED  BY <1>2, <2>1
<1>7. CASE \E z \in Executions, selected \in SUBSET Nodes : Retry(z, selected)
  BY <1>3, <1>7
<1> QED  BY <1>4, <1>5, <1>6, <1>7

(* A run finds the status that belongs to its place. *)
LEMMA StageSteps ==
  ASSUME TypeIInv, ~Breaks, StageIInv, [Next]_vars, NEW r \in Runners, run'[r].pc # "idle"
  PROVE  /\ run'[r].pc = "loading" => status'[run'[r].exec] \in Unresolved
         /\ run'[r].pc = "acquiring" => \/ run'[r].seen = "Preflight" /\ status'[run'[r].exec] = "Preflight"
                                        \/ run'[r].seen = "Running" /\ status'[run'[r].exec] \in {"Running", "Terminated"}
         /\ run'[r].pc = "preflight" => status'[run'[r].exec] = "Preflight"
         /\ run'[r].pc \in {"running", "completing"} => status'[run'[r].exec] \in {"Running", "Terminated"}
         /\ run'[r].pc = "releasing" => run'[r].result /\ status'[run'[r].exec] \in {"Succeeded", "Failed", "Blocked"}
<1>0. run \in [Runners -> RunState] /\ run[r] \in RunState /\ Stage(r)
  BY DEF TypeIInv, RunsOK, StageIInv
<1>1. CASE \E x \in Executions : Claim(r, x)
  <2>1. PICK x \in Executions : Claim(r, x)
    BY <1>1
  <2>2. run'[r].pc = "loading" /\ run'[r].exec = x /\ status' = status
    BY <1>0, <2>1 DEF Claim, Idle, database
  <2>3. status[x] \in Unresolved
    BY <2>1 DEF Claim, StageIInv, OpenJobsAreUnresolved
  <2> QED  BY <2>2, <2>3
<1>2. CASE run'[r] = run[r]
  <2> DEFINE x == run[r].exec
  <2>1. x \in Executions /\ run[r].pc # "idle"
    BY <1>2, RunnerFacts
  <2>2. ASSUME NEW s \in Runners, run[s].exec = x, MarkRunning(s) \/ Block(s) \/ Complete(s) PROVE FALSE
    <3>1. run[s].pc # "idle" /\ run'[s].pc # run[s].pc
      BY <2>2, MoversMove
    <3> QED  BY <1>2, <2>1, <2>2, <3>1 DEF StageIInv, RunsHoldTheirJobs
  <2>3. CASE status'[x] = status[x]
    BY <1>0, <1>2, <2>3 DEF Stage
  <2>4. CASE status'[x] # status[x]
    <3> HIDE DEF x
    <3>1. \/ status[x] = "none" /\ status'[x] = "Preflight"
          \/ status[x] \in {"Running", "PartialFailed"} /\ status'[x] = "Terminated"
      BY <2>1, <2>2, <2>4, StatusSteps DEF Terminable
    <3> QED  BY <1>0, <1>2, <2>1, <3>1 DEF Stage, Unresolved, x, RunState
  <2> QED  BY <2>3, <2>4
<1>3. CASE RunnerStep(r) \/ Trouble(r)
  <2>1. run'[r].exec = run[r].exec \/ \E x \in Executions : Claim(r, x)
    BY ExecSteps
  <2>2. CASE run'[r].exec = run[r].exec
    <3>1. \/ /\ run[r].pc = "loading" /\ run'[r].pc = "acquiring" /\ run'[r].seen = status'[run[r].exec]
             /\ \/ status' = status /\ status[run[r].exec] \notin {"none", "Terminated"}
                \/ status'[run[r].exec] = "Preflight"
          \/ /\ run[r].pc = "acquiring" /\ status' = status
             /\ run'[r].pc = IF run[r].seen = "Preflight" THEN "preflight" ELSE "running"
          \/ /\ run[r].pc = "preflight"
             /\ \/ run'[r].pc = "running" /\ status'[run[r].exec] = "Running"
                \/ run'[r].pc = "releasing" /\ (Breaks \/ status[run[r].exec] # "Preflight")
                \/ run'[r].pc = "releasing" /\ run'[r].result /\ status'[run[r].exec] = "Blocked"
          \/ run[r].pc = "running" /\ run'[r].pc \in {"running", "completing"} /\ status' = status
          \/ /\ run[r].pc = "completing" /\ run'[r].pc = "releasing" /\ run'[r].result
             /\ status'[run[r].exec] \in {"Succeeded", "Failed"}
      BY <1>3, RunsGoOn
    <3> HIDE DEF Next
    <3> QED  BY <1>0, <2>2, <3>1 DEF Stage, Unresolved
  <2> QED  BY <1>1, <2>1, <2>2
<1> QED  BY <1>1, <1>2, <1>3, RunSteps

(* The three facts are kept. *)
LEMMA StageInvariance == ~Breaks => (Spec => []StageIInv)
<1> SUFFICES ASSUME ~Breaks PROVE Spec => []StageIInv
  OBVIOUS
<1>1. Init => StageIInv
  <2> SUFFICES ASSUME Init PROVE StageIInv
    OBVIOUS
  <2>1. /\ \A r \in Runners : run[r].pc = "idle"
        /\ \A x \in Executions : job[x].holder = "none" /\ status[x] = "none"
    BY DEF Init, Idle
  <2> QED  BY <2>1 DEF StageIInv, RunsHoldTheirJobs, HoldersWork, OpenJobsAreUnresolved, Stage, Unresolved
<1>2. ASSUME TypeIInv, StageIInv, [Next]_vars PROVE StageIInv'
  <2>0. /\ RunsHoldTheirJobs' /\ RunsHoldTheirJobs /\ HoldersWork /\ OpenJobsAreUnresolved
        /\ run \in [Runners -> RunState]
        /\ job \in [Executions -> [state : {"none", "open", "done"}, left : 0..MaxDeliveries, holder : Runners \cup {"none"}]]
    BY <1>2, HolderSteps DEF StageIInv, TypeIInv, RunsOK, JobsOK
  <2>1. \A r \in Runners : Stage(r)'
    <3> SUFFICES ASSUME NEW r \in Runners PROVE Stage(r)'
      OBVIOUS
    <3>1. CASE run'[r].pc = "idle"
      BY <3>1 DEF Stage
    <3>2. CASE run'[r].pc # "idle"
      BY <1>2, <3>2, StageSteps DEF Stage
    <3> QED  BY <3>1, <3>2
  (* A holder that goes on keeps the job and the execution; one that ends gives up both. *)
  <2>2. ASSUME NEW x \in Executions, job'[x].holder # "none", job'[x].holder = job[x].holder
        PROVE  /\ job[x].holder \in Runners /\ run[job[x].holder].exec = x /\ run[job[x].holder].pc # "idle"
               /\ run'[job[x].holder].pc # "idle" /\ run'[job[x].holder].exec = x
               /\ run[job[x].holder].pc = "releasing" => run'[job[x].holder].pc = "releasing"
    <3> DEFINE h == job[x].holder
    <3>1. h \in Runners /\ run[h].exec = x /\ run[h].pc # "idle"
      BY <2>0, <2>2 DEF HoldersWork
    <3> HIDE DEF h
    <3>2. ~ \E y \in Executions : Claim(h, y)
      BY <3>1 DEF Claim
    <3>3. run'[h].pc # "idle"
      <4> SUFFICES ASSUME run'[h].pc = "idle" PROVE FALSE
        OBVIOUS
      <4>1. PICK done \in BOOLEAN : End(h, done)
        BY <1>2, <3>1, <3>2, RunSteps, RunsEnd
      <4>2. job'[x].holder = "none"
        BY <2>0, <3>1, <4>1 DEF End, h
      <4> QED  BY <2>2, <4>2
    <3>4. run'[h].exec = x
      BY <1>2, <3>1, <3>2, <3>3, ExecSteps
    <3>5. run[h].pc = "releasing" => run'[h].pc = "releasing"
      <4>1. CASE run'[h] = run[h]
        BY <4>1
      <4>2. CASE run'[h] # run[h]
        <5>1. RunnerStep(h) \/ Trouble(h)
          BY <1>2, <3>1, <3>2, <4>2, RunSteps
        <5>2. run[h].pc \in {"loading", "acquiring", "preflight", "running", "completing"}
          BY <1>2, <3>1, <3>3, <5>1, RunsGoOn
        <5> QED  BY <5>2
      <4> QED  BY <4>1, <4>2
    <3> QED  BY <3>1, <3>3, <3>4, <3>5 DEF h
  <2>3. ASSUME NEW x \in Executions, job'[x].holder # "none"
        PROVE  run'[job'[x].holder].pc # "idle" /\ run'[job'[x].holder].exec = x
    <3>1. CASE job'[x].holder = job[x].holder
      BY <2>2, <2>3, <3>1
    <3>2. CASE job'[x].holder # job[x].holder
      <4>1. job'[x].holder \in Runners /\ Claim(job'[x].holder, x)
        BY <1>2, <2>0, <2>3, <3>2, HandSteps
      <4> QED  BY <2>0, <4>1 DEF Claim, Idle
    <3> QED  BY <3>1, <3>2
  <2>4. ASSUME NEW x \in Executions, job'[x].state = "open", status'[x] \notin Unresolved
        PROVE  job'[x].holder # "none" /\ run'[job'[x].holder].pc = "releasing"
    <3>1. CASE job'[x] # job[x]
      <4>1. CASE job'[x].holder \in Runners /\ Claim(job'[x].holder, x) /\ job[x].state = "open" /\ job[x].holder = "none"
        <5>1. status' = status
          BY <4>1 DEF Claim, database
        <5> QED  BY <2>0, <2>4, <4>1, <5>1 DEF OpenJobsAreUnresolved
      <4>2. CASE /\ job[x].holder \in Runners /\ job'[x].holder = "none" /\ run[job[x].holder].exec = x
                 /\ \E done \in BOOLEAN :
                      /\ job'[x].state = IF done THEN "done" ELSE "open"
                      /\ \/ done
                         \/ run[job[x].holder].pc # "releasing" /\ status' = status
                         \/ run[job[x].holder].pc = "releasing" /\ done = run[job[x].holder].result
        <5> DEFINE h == job[x].holder
        <5>1. run[h].pc # "idle" /\ Stage(h) /\ h \in Runners
          BY <1>2, <2>0, <4>2, DeploymentExecutionAssumption DEF HoldersWork, StageIInv
        <5>2. job[x].state = "open"
          BY <2>0, <4>2, <5>1 DEF RunsHoldTheirJobs
        <5>3. status' = status /\ run[h].pc # "releasing"
          BY <2>4, <4>2, <5>1 DEF Stage
        <5> QED  BY <2>0, <2>4, <5>2, <5>3 DEF OpenJobsAreUnresolved
      <4>3. CASE job'[x].holder = job[x].holder /\ status'[x] = "Preflight"
        BY <2>4, <4>3 DEF Unresolved
      <4> QED  BY <1>2, <2>0, <3>1, <4>1, <4>2, <4>3, HandSteps
    <3>2. CASE job'[x] = job[x] /\ status[x] \notin Unresolved
      <4>1. job[x].holder # "none" /\ run[job[x].holder].pc = "releasing"
        BY <2>0, <2>4, <3>2 DEF OpenJobsAreUnresolved
      <4> QED  BY <2>2, <3>2, <4>1
    <3>3. CASE job'[x] = job[x] /\ status[x] \in Unresolved
      <4>1. PICK r \in Runners : run[r].exec = x /\ (Block(r) \/ Complete(r))
        BY <1>2, <2>4, <3>3, StatusSteps DEF Unresolved
      <4>2. run[r].pc # "idle" /\ run'[r].pc \in {"idle", "running", "releasing"}
        BY <1>2, <4>1, MoversMove
      <4>3. job[x].holder = r
        BY <2>0, <4>1, <4>2 DEF RunsHoldTheirJobs
      <4>4. run'[r].pc # "idle"
        BY <2>2, <3>3, <4>1, <4>2, <4>3, DeploymentExecutionAssumption
      <4>5. run'[r].pc = "releasing"
        <5>1. run[r].pc \in {"preflight", "completing"}
          BY <4>1 DEF Block, Complete
        <5>2. run'[r].pc = "running" => status'[x] = "Running"
          BY <1>2, <4>1, <4>4, <5>1, RunsGoOn DEF RunnerStep
        <5> QED  BY <2>4, <4>2, <4>4, <5>2 DEF Unresolved
      <4> QED  BY <3>3, <4>3, <4>5, DeploymentExecutionAssumption
    <3> QED  BY <3>1, <3>2, <3>3
  <2> QED  BY <2>0, <2>1, <2>3, <2>4 DEF StageIInv, HoldersWork, OpenJobsAreUnresolved
<1> QED  BY <1>1, <1>2, TypeInvariance, PTL DEF Spec

HoldsAll(x) == \A n \in Targets[x] : lock[n].exec = x

(* An execution needs its locks while its content is about to change, or is left in part. *)
NeedsLocks(x) ==
  \/ status[x] = "Running"
  \/ status[x] = "PartialFailed" /\ Latest(x)
  \/ \E r \in Runners : run[r].pc = "preflight" /\ run[r].exec = x

LocksIInv == lapsed = {} /\ \A x \in Executions : NeedsLocks(x) => HoldsAll(x)

(* No lock lapses in a step. *)
LEMMA NothingLapses ==
  ASSUME ~Lapses, lapsed = {}, [Next]_vars
  PROVE  lapsed' = {}
<1>1. CASE UNCHANGED locks
  BY <1>1 DEF locks
<1>2. CASE \E r \in Runners : Acquire(r) \/ Release(r) \/ Renew(r)
  BY <1>2 DEF Acquire, Release, Renew, InTime, Locks!Drop, locks
<1>3. CASE \E x \in Executions : Unlock(x) \/ \E selected \in SUBSET Nodes : Retry(x, selected)
  BY <1>3 DEF Unlock, Retry, InTime, Locks!Unlock
<1> QED  BY <1>1, <1>2, <1>3
         DEF Next, Work, RunnerStep, Trouble, TaskStep, Commands, Outside, Claim, Prepare, Load, Block, MarkRunning,
             StartBatch, NoExecutableNode, Collect, FinishPlan, Complete, SaveTask, Sync, Resume, Watch, Break,
             PreflightError, LoseLocks, SaveError, LoseJob, BeginTerminate, StopOperation, FinishTerminate, Supersede,
             Lapse, StartOperation, EndOperation, Drift, vars

(* An execution that needs its locks keeps them, unless it hands them to its retry. *)
LEMMA LocksStay ==
  ASSUME TypeIInv, StageIInv, LocksIInv, [Next]_vars, NEW x \in Executions, NeedsLocks(x), NEW n \in Targets[x]
  PROVE  lock'[n].exec = x \/ \E selected \in SUBSET Nodes : Retry(x, selected)
<1>0. /\ lock[n].exec = x /\ x # "none" /\ n \in Nodes /\ lapsed = {}
      /\ lock \in [Nodes -> [exec : Executions \cup {"none"}, owner : 0..MaxDeliveries]]
  BY DeploymentExecutionAssumption DEF LocksIInv, HoldsAll, TypeIInv, LocksOK
<1>1. status[x] \in {"Running", "PartialFailed", "Preflight"}
  BY DEF NeedsLocks, StageIInv, Stage
<1>2. CASE UNCHANGED locks
  BY <1>0, <1>2 DEF locks
<1>3. CASE \E r \in Runners : Acquire(r) /\ Locks!Take(run[r].exec, run[r].owner)
  BY <1>0, <1>3 DEF Locks!Take, Locks!Takeable, Locks!Give, Locks!Free
<1>4. CASE \E r \in Runners : Release(r) /\ Locks!Drop(run[r].exec, run[r].owner)
  <2>1. PICK r \in Runners : Release(r) /\ Locks!Drop(run[r].exec, run[r].owner)
    BY <1>4
  <2>2. status[run[r].exec] \in {"Succeeded", "Failed", "Blocked"}
    BY <2>1 DEF Release, StageIInv, Stage
  <2>3. n \notin Targets[run[r].exec]
    BY <1>0, <1>1, <2>1, <2>2 DEF Locks!Drop, Locks!OwnsAll
  <2> QED  BY <1>0, <2>1, <2>3 DEF Locks!Drop, Locks!Give
<1>5. CASE \E r \in Runners : Renew(r)
  BY <1>0, <1>5 DEF Renew, Locks!Renew
<1>6. CASE \E y \in Executions : Unlock(y)
  <2>1. PICK y \in Executions : Unlock(y)
    BY <1>6
  <2>2. y # x /\ n \notin Targets[y]
    BY <1>0, <1>1, <2>1 DEF Unlock, Locks!Unlock
  <2> QED  BY <1>0, <2>1, <2>2 DEF Unlock, Locks!Unlock, Locks!Give
<1>7. CASE \E y \in Executions, selected \in SUBSET Nodes : Retry(y, selected)
  <2>1. PICK y \in Executions, selected \in SUBSET Nodes : Retry(y, selected)
    BY <1>7
  <2>2. CASE y = x
    BY <2>1, <2>2
  <2>3. CASE y # x
    BY <1>0, <2>1, <2>3 DEF Retry, Locks!HandOff, Locks!HeldBy, Locks!Give
  <2> QED  BY <2>2, <2>3
<1>8. \/ UNCHANGED locks
      \/ \E r \in Runners : \/ Acquire(r) /\ Locks!Take(run[r].exec, run[r].owner)
                            \/ Release(r) /\ Locks!Drop(run[r].exec, run[r].owner)
                            \/ Renew(r)
      \/ \E y \in Executions : Unlock(y) \/ \E selected \in SUBSET Nodes : Retry(y, selected)
      \/ Lapse
  BY DEF Next, Work, RunnerStep, Trouble, TaskStep, Commands, Outside, Claim, Prepare, Load, Acquire, Release, Block,
             MarkRunning, StartBatch, NoExecutableNode, Collect, FinishPlan, Complete, SaveTask, Sync, Resume, Watch, Break,
             PreflightError, LoseLocks, SaveError, LoseJob, BeginTerminate, StopOperation, FinishTerminate, Supersede,
             StartOperation, EndOperation, Drift, vars
<1>9. CASE Lapse
  BY <1>0, <1>9 DEF Lapse, Locks!Lapse
<1> QED  BY <1>2, <1>3, <1>4, <1>5, <1>6, <1>7, <1>8, <1>9

(* An execution comes to need its locks by taking them. *)
LEMMA NeedsSteps ==
  ASSUME TypeIInv, ~Breaks, StageIInv, [Next]_vars, NEW x \in Executions,
         \/ status'[x] = "Running"
         \/ status'[x] = "PartialFailed" /\ (Following[x] # "none" => status'[Following[x]] = "none")
         \/ \E r \in Runners : run'[r].pc = "preflight" /\ run'[r].exec = x
  PROVE  \/ NeedsLocks(x) /\ ~ \E selected \in SUBSET Nodes : Retry(x, selected)
         \/ \E r \in Runners : Acquire(r) /\ run[r].exec = x /\ Locks!Take(x, run[r].owner)
<1>0. /\ run \in [Runners -> RunState]
      /\ status \in [Executions -> OutcomeStatuses \cup {"none", "Preflight", "Running", "Blocked", "Terminated"}]
  BY DEF TypeIInv, RunsOK, DatabaseOK
<1>1. ASSUME NEW selected \in SUBSET Nodes, Retry(x, selected) PROVE FALSE
  <2>1. /\ Following[x] \in Executions /\ status[x] \in {"Failed", "PartialFailed"} /\ status[Following[x]] = "none"
        /\ status' = [status EXCEPT ![Following[x]] = "Preflight"] /\ run' = run
    BY <1>1, DeploymentExecutionAssumption DEF Retry, Latest
  <2>2. status'[x] = status[x] /\ status'[Following[x]] = "Preflight" /\ Following[x] # "none"
    BY <1>0, <2>1, DeploymentExecutionAssumption
  <2>3. \A r \in Runners : ~(run[r].pc = "preflight" /\ run[r].exec = x)
    BY <2>1 DEF StageIInv, Stage
  <2> QED  BY <2>1, <2>2, <2>3
<1>2. CASE \E r \in Runners : run'[r].pc = "preflight" /\ run'[r].exec = x
  <2>1. PICK r \in Runners : run'[r].pc = "preflight" /\ run'[r].exec = x
    BY <1>2
  <2>2. ASSUME NEW y \in Executions, Claim(r, y) PROVE FALSE
    BY <1>0, <2>1, <2>2 DEF Claim
  <2>3. run[r].pc # "idle" /\ run[r].exec = x
    BY <2>1, <2>2, ExecSteps
  <2>4. CASE run[r].pc = "preflight"
    BY <1>1, <2>3, <2>4 DEF NeedsLocks
  <2>5. CASE run[r].pc # "preflight"
    <3>1. RunnerStep(r) \/ Trouble(r)
      BY <2>1, <2>2, <2>5, RunSteps
    <3>2. run[r].pc = "acquiring"
      BY <2>1, <2>5, <3>1, RunsGoOn
    <3>3. \A n \in Nodes : run[r].task[n] = "none"
      BY <3>2, RunnerFacts
    <3>4. Acquire(r)
      BY <3>1, <3>2, <3>3 DEF RunnerStep, Trouble, TaskStep, Prepare, Load, Block, MarkRunning, StartBatch,
                NoExecutableNode, BetweenBatches, Collect, FinishPlan, Complete, Release, SaveTask, Sync, Resume, Watch,
                Break, PreflightError, LoseLocks, SaveError
    <3>5. ~End(r, FALSE)
      BY <1>0, <2>1 DEF End, Idle
    <3> QED  BY <2>3, <3>4, <3>5 DEF Acquire
  <2> QED  BY <2>4, <2>5
<1>3. CASE status'[x] = status[x] /\ status[x] = "Running"
  BY <1>1, <1>3 DEF NeedsLocks
<1>4. CASE status'[x] = status[x] /\ status[x] = "PartialFailed" /\ (Following[x] # "none" => status'[Following[x]] = "none")
  <2>1. Following[x] # "none" => status[Following[x]] = "none"
    BY <1>4, AttemptsStay, DeploymentExecutionAssumption
  <2> QED  BY <1>1, <1>4, <2>1 DEF NeedsLocks, Latest
<1>5. CASE status'[x] # status[x] /\ status'[x] \in {"Running", "PartialFailed"}
  <2>1. \/ \E r \in Runners : MarkRunning(r) /\ run[r].exec = x
        \/ /\ status[x] \notin OutcomeStatuses \cup {"Terminated"}
           /\ \E r \in Runners : Complete(r) /\ run[r].exec = x
    BY <1>5, StatusSteps
  <2>2. NeedsLocks(x)
    BY <2>1 DEF NeedsLocks, StageIInv, Stage, MarkRunning, Complete
  <2> QED  BY <1>1, <2>2
<1> QED  BY <1>2, <1>3, <1>4, <1>5

(* As long as runs keep their jobs and no lock lapses, whoever needs locks has them. *)
LEMMA LocksInvariance == ~Breaks /\ ~Lapses => (Spec => []LocksIInv)
<1> SUFFICES ASSUME ~Breaks, ~Lapses PROVE Spec => []LocksIInv
  OBVIOUS
<1>1. Init => LocksIInv
  BY DEF Init, LocksIInv, NeedsLocks, Idle, Locks!Init
<1>2. ASSUME TypeIInv, StageIInv, LocksIInv, [Next]_vars PROVE LocksIInv'
  <2>1. lapsed' = {}
    BY <1>2, NothingLapses DEF LocksIInv
  <2>2. ASSUME NEW x \in Executions,
               \/ status'[x] = "Running"
               \/ status'[x] = "PartialFailed" /\ (Following[x] # "none" => status'[Following[x]] = "none")
               \/ \E r \in Runners : run'[r].pc = "preflight" /\ run'[r].exec = x,
               NEW n \in Targets[x]
        PROVE  lock'[n].exec = x
    <3>1. CASE \E r \in Runners : Acquire(r) /\ run[r].exec = x /\ Locks!Take(x, run[r].owner)
      <4>1. n \in Nodes
        BY DeploymentExecutionAssumption
      <4> QED  BY <3>1, <4>1 DEF Locks!Take, Locks!Give
    <3>2. CASE NeedsLocks(x) /\ ~ \E selected \in SUBSET Nodes : Retry(x, selected)
      BY <1>2, <3>2, LocksStay
    <3> QED  BY <1>2, <2>2, <3>1, <3>2, NeedsSteps
  <2> QED  BY <2>1, <2>2 DEF LocksIInv, NeedsLocks, HoldsAll, Latest
<1> QED  BY <1>1, <1>2, TypeInvariance, StageInvariance, PTL DEF Spec

(* Who sends. *)
LEMMA Senders ==
  ASSUME TypeIInv, StageIInv, [Next]_vars, NEW x \in Executions, NEW n \in Nodes, Sends(x, n)
  PROVE  n \in Targets[x] /\ status[x] \in {"Running", "Terminated"}
<1>1. requests'[x][n] # requests[x][n]
  BY DEF Sends, TypeIInv, RequestsOK
<1>2. \/ requests'[x][n] = requests[x][n]
      \/ /\ requests'[x][n] = requests[x][n] + 1
         /\ \E r \in Runners : run[r].exec = x /\ Sync(r, n) /\ run[r].task[n] = "syncing"
  BY OpSteps
<1>3. PICK r \in Runners : run[r].exec = x /\ run[r].task[n] = "syncing"
  BY <1>1, <1>2
<1> QED  BY <1>3 DEF TypeIInv, TasksAreRunning, StageIInv, Stage

(* SyncUnderLock: as long as runs keep their jobs and no lock lapses, a Sync is sent by *)
(* a running execution that holds the lock, or by one that was just terminated.         *)
THEOREM SyncsAreUnderLock == ~Breaks /\ ~Lapses => (Spec => SyncUnderLock)
<1> SUFFICES ASSUME ~Breaks, ~Lapses PROVE Spec => SyncUnderLock
  OBVIOUS
<1>1. TypeIInv /\ StageIInv /\ LocksIInv /\ [Next]_vars =>
        [\A x \in Executions, n \in Nodes : Sends(x, n) =>
           \/ status[x] = "Terminated"
           \/ status[x] = "Running" /\ lock[n].exec = x]_vars
  BY Senders DEF LocksIInv, NeedsLocks, HoldsAll
<1> QED  BY <1>1, TypeInvariance, StageInvariance, LocksInvariance, PTL DEF Spec, SyncUnderLock

(* OthersKeepOut: as long as runs keep their jobs and no lock lapses, nobody touches an *)
(* Application of an execution that is running or has failed in part.                   *)
THEOREM OthersAreKeptOut == ~Breaks /\ ~Lapses => (Spec => OthersKeepOut)
<1> SUFFICES ASSUME ~Breaks, ~Lapses PROVE Spec => OthersKeepOut
  OBVIOUS
<1>1. TypeIInv /\ StageIInv /\ LocksIInv /\ [Next]_vars =>
        [\A x, y \in Executions, n \in Nodes :
           /\ Sends(x, n) /\ status[x] = "Running"
           /\ n \in Targets[y] /\ VersionOf[y] # VersionOf[x] /\ Latest(y)
           => status[y] \notin {"Running", "PartialFailed"}]_vars
  BY Senders DEF LocksIInv, NeedsLocks, HoldsAll
<1> QED  BY <1>1, TypeInvariance, StageInvariance, LocksInvariance, PTL DEF Spec, OthersKeepOut

(* PartialFailureKeepsLocks: as long as runs keep their jobs and no lock lapses, an *)
(* execution that failed in part has all of its locks until it is retried.          *)
THEOREM PartialFailuresKeepLocks == ~Breaks /\ ~Lapses => (Spec => []PartialFailureKeepsLocks)
<1> SUFFICES ASSUME ~Breaks, ~Lapses PROVE Spec => []PartialFailureKeepsLocks
  OBVIOUS
<1>1. LocksIInv => PartialFailureKeepsLocks
  BY DEF LocksIInv, NeedsLocks, HoldsAll, PartialFailureKeepsLocks
<1> QED  BY <1>1, LocksInvariance, PTL

(* BlockedSendsNothing, which crashes refute: as long as runs keep their jobs, a blocked *)
(* execution sends no Sync.                                                              *)
THEOREM BlockedIsQuiet == ~Breaks => (Spec => BlockedSendsNothing)
<1> SUFFICES ASSUME ~Breaks PROVE Spec => BlockedSendsNothing
  OBVIOUS
<1>1. TypeIInv /\ StageIInv /\ [Next]_vars =>
        [\A x \in Executions, n \in Nodes : Sends(x, n) => status[x] # "Blocked"]_vars
  BY Senders
<1> QED  BY <1>1, TypeInvariance, StageInvariance, PTL DEF Spec, BlockedSendsNothing

==============================================================================
