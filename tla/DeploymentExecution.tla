-------------------------- MODULE DeploymentExecution --------------------------
(***************************************************************************)
(* Deployment executions: the executor that carries them out for the job   *)
(* queue, the tables it shares with the operators (retry, terminate,       *)
(* unlock), the locks of Applications, and Argo CD.                        *)
(*                                                                         *)
(* A runner is one delivery of a job.  It loses its place between any two  *)
(* calls: to a crash, to an error of the database, or because its job or   *)
(* its locks lapsed while it went on.  Jobs are reduced to their deliveries *)
(* (JobQueue), locks to who holds them (OperationLocks), and one plan, of  *)
(* PlanEngine, is the plan of every execution.                             *)
(***************************************************************************)
EXTENDS PlanEngine

CONSTANTS
  Executions,    \* places for business attempts
  VersionOf,     \* VersionOf[x]: the Request Version that x deploys
  Following,     \* Following[x]: the attempt that retries x, or "none"
  Targets,       \* Targets[x]: the Applications of the Request Version
  Plans,         \* the plans there may be
  Limit,         \* max_parallel_deployments of the worker
  Runners,       \* workers, and runs that outlived their job
  MaxDeliveries, \* max_attempts of a job
  Driftable,     \* Applications whose content may change after the review
  Breaks,        \* whether runs crash, meet errors and lose their job
  Lapses         \* whether a lock may lapse because its holder is slow

Versions == {VersionOf[x] : x \in Executions}

First == {x \in Executions : \A y \in Executions : Following[y] # x}

ASSUME DeploymentExecutionAssumption ==
  /\ "none" \notin Executions \cup Runners
  /\ Following \in [Executions -> Executions \cup {"none"}]
  /\ DOMAIN VersionOf = Executions
  /\ Targets \in [Executions -> (SUBSET Nodes) \ {{}}]
  /\ \A x \in Executions : Following[x] # "none" =>
       /\ VersionOf[Following[x]] = VersionOf[x]
       /\ Targets[Following[x]] = Targets[x]
  /\ \A x, y \in First : VersionOf[x] = VersionOf[y] => x = y
  /\ \A p \in Plans : p \in Plan /\ ValidEdges(p.edges) /\ ~Cyclic(p.edges)
  /\ Limit \in Nat \ {0}
  /\ MaxDeliveries \in Nat \ {0}
  /\ Driftable \subseteq Nodes
  /\ Breaks \in BOOLEAN /\ Lapses \in BOOLEAN

VARIABLES
  plan,         \* the plan that the versions are pinned to
  version,      \* version[v]: status of the Request Version
  status,       \* status[x]: status of the execution, "none" before it exists
  lockVersion,  \* lockVersion[x]: the version that commands on x expect
  node,         \* node[x][n]: saved status of the node
  op,           \* op[x][n]: whether an operation id is saved
  job,          \* job[x]: the job that delivers x
  lock, lapsed, \* the lock table, see OperationLocks
  argo,         \* argo[n]: operation asked for, last operation and its phase
  drifted,      \* Applications whose content is no longer what was reviewed
  run,          \* run[r]: what runner r does
  operator,     \* the terminate command under way
  requests,     \* history: requests[x][n], Sync calls made
  started       \* history: operations that Argo CD has started

database == <<version, status, lockVersion, node, op>>
locks == <<lock, lapsed>>
outside == <<argo, drifted, started>>
vars == <<plan, database, job, locks, outside, run, operator, requests>>

Locks == INSTANCE OperationLocks WITH
           Apps <- Nodes, Owners <- 0..MaxDeliveries

OutcomeStatuses == {"Succeeded", "Failed", "PartialFailed"}

Idle == [pc |-> "idle", exec |-> "none", owner |-> 0, seen |-> "none",
         runtime |-> [n \in Nodes |-> "none"], known |-> [n \in Nodes |-> FALSE],
         task |-> [n \in Nodes |-> "none"], result |-> FALSE]

AtEase == [pc |-> "idle", exec |-> "none", expected |-> 0, left |-> {}]

Init ==
  /\ plan \in Plans
  /\ version = [v \in Versions |-> "Candidate"]
  /\ status = [x \in Executions |-> "none"]
  /\ lockVersion = [x \in Executions |-> 0]
  /\ node = [x \in Executions |-> [n \in Nodes |-> "none"]]
  /\ op = [x \in Executions |-> [n \in Nodes |-> FALSE]]
  /\ job = [x \in Executions |->
              [state |-> IF x \in First THEN "open" ELSE "none",
               left |-> MaxDeliveries, holder |-> "none"]]
  /\ Locks!Init
  /\ argo = [n \in Nodes |-> [wanted |-> "none", op |-> "none", phase |-> "none"]]
  /\ drifted = {}
  /\ run = [r \in Runners |-> Idle]
  /\ operator = AtEase
  /\ requests = [x \in Executions |-> [n \in Nodes |-> 0]]
  /\ started = {}

-----------------------------------------------------------------------------
(* A delivery begins and ends *)

Claim(r, x) ==
  /\ run[r].pc = "idle"
  /\ job[x].state = "open" /\ job[x].holder = "none" /\ job[x].left > 0
  /\ job' = [job EXCEPT ![x].left = @ - 1, ![x].holder = r]
  /\ run' = [run EXCEPT ![r] = [Idle EXCEPT !.pc = "loading", !.exec = x,
                                            !.owner = MaxDeliveries - job[x].left + 1]]
  /\ UNCHANGED <<database, locks, outside, operator, requests, plan>>

(* Only the holder of the job can resolve it. *)
End(r, done) ==
  LET x == run[r].exec IN
  /\ run' = [run EXCEPT ![r] = Idle]
  /\ job' = IF job[x].holder # r THEN job
            ELSE [job EXCEPT ![x].state = IF done THEN "done" ELSE "open",
                             ![x].holder = "none"]

Goto(r, pc) ==
  /\ run' = [run EXCEPT ![r].pc = pc]
  /\ UNCHANGED job

GotoRelease(r, done) ==
  /\ run' = [run EXCEPT ![r].pc = "releasing", ![r].result = done]
  /\ UNCHANGED job

(* A crash, or an error of the database: the job is delivered again. *)
Break(r) ==
  /\ Breaks
  /\ run[r].pc # "idle"
  /\ End(r, FALSE)
  /\ UNCHANGED <<database, locks, outside, operator, requests, plan>>

(* The lease of the job lapses, and the run goes on. *)
LoseJob(x) ==
  /\ Breaks
  /\ job[x].holder # "none"
  /\ job' = [job EXCEPT ![x].holder = "none"]
  /\ UNCHANGED <<database, locks, outside, run, operator, requests, plan>>

-----------------------------------------------------------------------------
(* prepareAndLock *)

(* Mutant of LoadedStatus: the saved status is taken as it is. *)
LoadedStatusOfColumn(s) == s

LoadedStatus(s) == IF s \in {"Succeeded", "Failed", "Skipped"} THEN s ELSE "Queued"

(* The snapshot of the execution the delivery works on from now on. *)
TakeSnapshot(r, seen, saved, known) ==
  LET x == run[r].exec IN
  /\ run' = [run EXCEPT
       ![r] = [@ EXCEPT !.pc = "acquiring", !.seen = seen, !.known = known,
                        !.runtime = [n \in Nodes |-> IF n \in Targets[x]
                                                     THEN LoadedStatus(saved[n])
                                                     ELSE "none"]]]
  /\ UNCHANGED job

Fresh(x) == [n \in Nodes |-> IF n \in Targets[x] THEN "Waiting" ELSE "none"]

Prepare(r) ==
  LET x == run[r].exec
      v == VersionOf[x] IN
  /\ run[r].pc = "loading"
  /\ status[x] = "none"
  /\ IF version[v] \in {"Superseded", "Terminated", "Succeeded", "Failed"}
     THEN End(r, FALSE) /\ UNCHANGED database
     ELSE /\ version' = [version EXCEPT ![v] = "Deploying"]
          /\ status' = [status EXCEPT ![x] = "Preflight"]
          /\ lockVersion' = [lockVersion EXCEPT ![x] = 1]
          /\ node' = [node EXCEPT ![x] = Fresh(x)]
          /\ UNCHANGED op
          /\ TakeSnapshot(r, "Preflight", Fresh(x), op[x])
  /\ UNCHANGED <<locks, outside, operator, requests, plan>>

Load(r) ==
  LET x == run[r].exec IN
  /\ run[r].pc = "loading"
  /\ status[x] # "none"
  /\ IF status[x] = "Terminated" THEN End(r, TRUE)
     ELSE TakeSnapshot(r, status[x], node[x], op[x])
  /\ UNCHANGED <<database, locks, outside, operator, requests, plan>>

(* The statement that took or renewed locks was not so late that they lapsed. *)
InTime == Lapses \/ lapsed' = {}

(* Mutant of Acquire: the plan goes on although the locks were refused. *)
AcquireAnyway(r) ==
  LET x == run[r].exec IN
  /\ run[r].pc = "acquiring"
  /\ \/ Locks!Take(x, run[r].owner) /\ InTime
     \/ ~Locks!Takeable(x) /\ UNCHANGED locks
  /\ Goto(r, IF run[r].seen = "Preflight" THEN "preflight" ELSE "running")
  /\ UNCHANGED <<database, outside, operator, requests, plan>>

(* A delivery that finds an Application locked fails. *)
Acquire(r) ==
  LET x == run[r].exec IN
  /\ run[r].pc = "acquiring"
  /\ \/ /\ Locks!Take(x, run[r].owner) /\ InTime
        /\ Goto(r, IF run[r].seen = "Preflight" THEN "preflight" ELSE "running")
     \/ /\ ~Locks!Takeable(x)
        /\ End(r, FALSE)
        /\ UNCHANGED locks
  /\ UNCHANGED <<database, outside, operator, requests, plan>>

-----------------------------------------------------------------------------
(* ensurePreflight *)

PreflightError(r) ==
  /\ Breaks
  /\ run[r].pc = "preflight"
  /\ GotoRelease(r, FALSE)
  /\ UNCHANGED <<database, locks, outside, operator, requests, plan>>

(* What preflight reads of an Application is no longer what was reviewed: it *)
(* has drifted, or a sync has left it with no difference.                    *)
Changed(x, n) == n \in drifted \/ node[x][n] = "Succeeded"

(* An operation that failed may have applied a part. *)
MayHaveChanged(x, n) == Changed(x, n) \/ argo[n].op # "none"

(* The other content blocks whatever the execution has become meanwhile. *)
Block(r) ==
  LET x == run[r].exec IN
  /\ run[r].pc = "preflight"
  /\ \E n \in {m \in Targets[x] : MayHaveChanged(x, m)} :
       node' = [node EXCEPT ![x][n] = "Blocked"]
  /\ status' = [status EXCEPT ![x] = "Blocked"]
  /\ version' = [version EXCEPT ![VersionOf[x]] = "Superseded"]
  /\ GotoRelease(r, TRUE)
  /\ UNCHANGED <<lockVersion, op, locks, outside, operator, requests, plan>>

MarkRunning(r) ==
  LET x == run[r].exec IN
  /\ run[r].pc = "preflight"
  /\ \A n \in Targets[x] : ~Changed(x, n)
  /\ IF status[x] = "Preflight"
     THEN /\ status' = [status EXCEPT ![x] = "Running"]
          /\ Goto(r, "running")
     ELSE /\ GotoRelease(r, FALSE)
          /\ UNCHANGED status
  /\ UNCHANGED <<version, lockVersion, node, op, locks, outside, operator, requests, plan>>

(* An error of the release is ignored. *)
Release(r) ==
  LET x == run[r].exec IN
  /\ run[r].pc = "releasing"
  /\ \/ Locks!Drop(x, run[r].owner)
     \/ /\ Breaks \/ ~Locks!OwnsAll(x, run[r].owner)
        /\ UNCHANGED locks
  /\ End(r, run[r].result)
  /\ UNCHANGED <<database, outside, operator, requests, plan>>

-----------------------------------------------------------------------------
(* executePlan, with the heartbeat of the locks beside it *)

Renew(r) ==
  /\ run[r].pc = "running"
  /\ Locks!Renew(run[r].exec, run[r].owner) /\ InTime
  /\ UNCHANGED <<database, job, outside, run, operator, requests, plan>>

(* The heartbeat finds a lock in other hands: the plan is abandoned. *)
LoseLocks(r) ==
  /\ run[r].pc = "running"
  /\ ~Locks!OwnsAll(run[r].exec, run[r].owner)
  /\ End(r, FALSE)
  /\ UNCHANGED <<database, locks, outside, operator, requests, plan>>

Batch(r) == {n \in Nodes : run[r].task[n] # "none"}

BetweenBatches(r) == run[r].pc = "running" /\ Batch(r) = {}

HasQueuedNode(r) == \E n \in Nodes : run[r].runtime[n] = "Queued"

Ready(r) == ReadyNodes(plan, Targets[run[r].exec], run[r].runtime, {}, Limit)

(* Mutant of FirstTask: an operation that may be under way is asked for again. *)
FirstTaskSending(r, n) == "saving"

FirstTask(r, n) == IF run[r].known[n] THEN "resuming" ELSE "saving"

StartBatch(r) ==
  /\ BetweenBatches(r)
  /\ Ready(r) # {}
  /\ run' = [run EXCEPT ![r].task = [n \in Nodes |-> IF n \in Ready(r) THEN FirstTask(r, n)
                                                     ELSE "none"]]
  /\ UNCHANGED <<database, job, locks, outside, operator, requests, plan>>

NoExecutableNode(r) ==
  /\ BetweenBatches(r)
  /\ HasQueuedNode(r) /\ Ready(r) = {}
  /\ End(r, FALSE)
  /\ UNCHANGED <<database, locks, outside, operator, requests, plan>>

Ended == {"succeeded", "failed", "broken", "stopped"}

SetTask(r, n, task) == run' = [run EXCEPT ![r].task[n] = task]

(* Mutant of SaveNode: a terminated execution is written to. *)
SaveNodeUnfenced(r, n, saved, task) ==
  LET x == run[r].exec IN
  /\ node' = [node EXCEPT ![x][n] = saved]
  /\ op' = [op EXCEPT ![x][n] = TRUE]
  /\ SetTask(r, n, task)
  /\ UNCHANGED <<version, status, lockVersion>>

(* Saving a node is refused once the execution is terminated; nothing else *)
(* fences it.                                                              *)
SaveNode(r, n, saved, task) ==
  LET x == run[r].exec IN
  IF status[x] = "Terminated"
  THEN SetTask(r, n, "stopped") /\ UNCHANGED database
  ELSE /\ node' = [node EXCEPT ![x][n] = saved]
       /\ op' = [op EXCEPT ![x][n] = TRUE]
       /\ SetTask(r, n, task)
       /\ UNCHANGED <<version, status, lockVersion>>

SaveTask(r, n) ==
  LET task == run[r].task[n] IN
  /\ \/ task = "saving" /\ SaveNode(r, n, "Syncing", "syncing")
     \/ task = "succeeding" /\ SaveNode(r, n, "Succeeded", "succeeded")
     \/ task = "failing" /\ SaveNode(r, n, "Failed", "failed")
  /\ UNCHANGED <<job, locks, outside, operator, requests, plan>>

SaveError(r, n) ==
  /\ Breaks
  /\ run[r].task[n] \in {"saving", "succeeding", "failing"}
  /\ SetTask(r, n, "broken")
  /\ UNCHANGED <<database, job, locks, outside, operator, requests, plan>>

Busy(n) == argo[n].wanted # "none" \/ argo[n].phase = "Running"

(* Argo CD takes one operation at a time.  The reply can be lost, and the  *)
(* call can fail.                                                          *)
Sync(r, n) ==
  LET x == run[r].exec IN
  /\ run[r].task[n] = "syncing"
  /\ requests' = [requests EXCEPT ![x][n] = @ + 1]
  /\ \/ /\ ~Busy(n)
        /\ argo' = [argo EXCEPT ![n].wanted = x]
        /\ \E task \in {"watching", "failing"} : SetTask(r, n, task)
     \/ /\ SetTask(r, n, "failing")
        /\ UNCHANGED argo
  /\ UNCHANGED <<database, job, locks, drifted, started, operator, plan>>

(* The operation must be the one this execution asked for. *)
Resume(r, n) ==
  LET x == run[r].exec IN
  /\ run[r].task[n] = "resuming"
  /\ \/ argo[n].op = x /\ SetTask(r, n, "watching")
     \/ SetTask(r, n, "failing")
  /\ UNCHANGED <<database, job, locks, outside, operator, requests, plan>>

(* Mutant of Observed: Argo CD reports a success, of whatever operation. *)
ObservedAny(x, n) == argo[n].phase \in {"Running", "Succeeded"}

(* The revision can be in place and healthy before the operation ends. *)
Observed(x, n) == argo[n].op = x /\ argo[n].phase \in {"Running", "Succeeded"}

(* Mutant of Watch: no timeout, and no end but that of the operation. *)
WatchPatiently(r, n) ==
  /\ run[r].task[n] = "watching"
  /\ argo[n].op = run[r].exec
  /\ \/ argo[n].phase = "Succeeded" /\ SetTask(r, n, "succeeding")
     \/ argo[n].phase = "Failed" /\ SetTask(r, n, "failing")
  /\ UNCHANGED <<database, job, locks, outside, operator, requests, plan>>

(* A node fails with its operation, by its timeout, by another revision, or *)
(* because it cannot be observed.                                           *)
Watch(r, n) ==
  /\ run[r].task[n] = "watching"
  /\ \/ Observed(run[r].exec, n) /\ SetTask(r, n, "succeeding")
     \/ SetTask(r, n, "failing")
  /\ UNCHANGED <<database, job, locks, outside, operator, requests, plan>>

Collected(r) ==
  [n \in Nodes |-> CASE run[r].task[n] = "succeeded" -> "Succeeded"
                     [] run[r].task[n] = "failed" -> "Failed"
                     [] OTHER -> run[r].runtime[n]]

ResolvesJob(ended) == "stopped" \in ended

(* An execution that was stopped is nobody's error; an error outweighs the *)
(* failure of a node.                                                      *)
Collect(r) ==
  LET ended == {run[r].task[n] : n \in Batch(r)} IN
  /\ run[r].pc = "running"
  /\ Batch(r) # {} /\ ended \subseteq Ended
  /\ IF ended \cap {"stopped", "broken"} # {} THEN End(r, ResolvesJob(ended))
     ELSE /\ run' = [run EXCEPT
               ![r] = [@ EXCEPT !.pc = IF "failed" \in ended THEN "completing" ELSE "running",
                                !.runtime = Collected(r), !.task = Idle.task]]
          /\ UNCHANGED job
  /\ UNCHANGED <<database, locks, outside, operator, requests, plan>>

FinishPlan(r) ==
  /\ BetweenBatches(r)
  /\ ~HasQueuedNode(r)
  /\ Goto(r, "completing")
  /\ UNCHANGED <<database, locks, outside, operator, requests, plan>>

-----------------------------------------------------------------------------
(* Complete *)

FinalStatus(x, n) == IF node[x][n] = "Waiting" THEN "Skipped" ELSE node[x][n]

Aggregate(x) ==
  IF \A n \in Targets[x] : node[x][n] = "Succeeded" THEN "Succeeded"
  ELSE IF \A n \in Targets[x] : node[x][n] # "Succeeded" THEN "Failed"
  ELSE "PartialFailed"

ReleasesLocks(s) == s \in {"Succeeded", "Failed"}

(* A Blocked execution is completed like a running one. *)
Complete(r) ==
  LET x == run[r].exec
      closed == status[x] \in OutcomeStatuses \cup {"Terminated"}
      outcome == IF closed THEN status[x] ELSE Aggregate(x) IN
  /\ run[r].pc = "completing"
  /\ IF ~closed /\ \E n \in Targets[x] : node[x][n] = "Syncing"
     THEN End(r, FALSE) /\ UNCHANGED database
     ELSE /\ IF closed THEN UNCHANGED database
             ELSE /\ node' = [node EXCEPT ![x] = [n \in Nodes |-> FinalStatus(x, n)]]
                  /\ status' = [status EXCEPT ![x] = outcome]
                  /\ lockVersion' = [lockVersion EXCEPT ![x] = @ + 1]
                  /\ version' = [version EXCEPT ![VersionOf[x]] = outcome]
                  /\ UNCHANGED op
          /\ IF ReleasesLocks(outcome) THEN GotoRelease(r, TRUE) ELSE End(r, TRUE)
  /\ UNCHANGED <<locks, outside, operator, requests, plan>>

-----------------------------------------------------------------------------
(* Commands of operators, on the latest attempt; they are decided on a     *)
(* snapshot, and the version of the execution fences their transaction.    *)

Latest(x) == status[x] # "none" /\ (Following[x] # "none" => status[Following[x]] = "none")

RetriedStatus(x, n, selected) ==
  CASE node[x][n] \in {"none", "Succeeded"} -> node[x][n]
    [] node[x][n] = "Failed" /\ n \in selected -> "Waiting"
    [] OTHER -> "Skipped"

Retry(x, selected) ==
  LET y == Following[x]
      v == VersionOf[x] IN
  /\ Latest(x) /\ y # "none"
  /\ status[x] \in {"Failed", "PartialFailed"}
  /\ version[v] \in {"Failed", "PartialFailed"}
  /\ selected # {} /\ \A n \in selected : node[x][n] = "Failed"
  /\ \A n \in Targets[x] : node[x][n] \in {"Succeeded", "Failed", "Skipped"}
  /\ status' = [status EXCEPT ![y] = "Preflight"]
  /\ version' = [version EXCEPT ![v] = "Deploying"]
  /\ lockVersion' = [lockVersion EXCEPT ![x] = @ + 1, ![y] = 1]
  /\ node' = [node EXCEPT ![y] = [n \in Nodes |-> RetriedStatus(x, n, selected)]]
  /\ op' = [op EXCEPT ![y] = [n \in Nodes |-> op[x][n] /\ n \notin selected]]
  /\ Locks!HandOff(x, y, 0) /\ InTime
  /\ job' = [job EXCEPT ![y].state = "open"]
  /\ UNCHANGED <<outside, run, operator, requests, plan>>

Terminable == {"Running", "PartialFailed"}

(* The workflow of a superseded version allows no command. *)
BeginTerminate(x) ==
  /\ operator = AtEase
  /\ Latest(x)
  /\ status[x] \in Terminable
  /\ version[VersionOf[x]] # "Superseded"
  /\ operator' = [pc |-> "stopping", exec |-> x, expected |-> lockVersion[x],
                  left |-> {n \in Targets[x] : node[x][n] = "Syncing"}]
  /\ UNCHANGED <<database, job, locks, outside, run, requests, plan>>

(* The command fails when Argo CD has no operation to stop. *)
StopOperation(n) ==
  /\ n \in operator.left
  /\ \/ /\ argo[n].phase = "Running"
        /\ argo' = [argo EXCEPT ![n].phase = "Failed"]
        /\ operator' = [operator EXCEPT !.left = @ \ {n}]
     \/ /\ argo[n].phase # "Running" \/ Breaks
        /\ operator' = AtEase
        /\ UNCHANGED argo
  /\ UNCHANGED <<database, job, locks, drifted, started, run, requests, plan>>

TerminatedNode(s) ==
  IF s \in {"none", "Succeeded", "Failed", "Blocked", "Skipped"} THEN s ELSE "Terminated"

FinishTerminate ==
  LET x == operator.exec IN
  /\ operator.pc = "stopping" /\ operator.left = {}
  /\ IF lockVersion[x] = operator.expected /\ status[x] \in Terminable
     THEN /\ status' = [status EXCEPT ![x] = "Terminated"]
          /\ version' = [version EXCEPT ![VersionOf[x]] = "Terminated"]
          /\ lockVersion' = [lockVersion EXCEPT ![x] = @ + 1]
          /\ node' = [node EXCEPT ![x] = [n \in Nodes |-> TerminatedNode(@[n])]]
          /\ UNCHANGED op
     ELSE UNCHANGED database
  /\ operator' = AtEase
  /\ UNCHANGED <<job, locks, outside, run, requests, plan>>

(* Mutant of Unlock: the execution need not be terminated. *)
UnlockAnytime(x) ==
  /\ status[x] # "none"
  /\ Locks!Unlock(x)
  /\ lockVersion' = [lockVersion EXCEPT ![x] = (@ + 1) % 4]
  /\ UNCHANGED <<version, status, node, op, job, outside, run, operator, requests, plan>>

(* Actual states are compared with what the operator has entered, which is *)
(* no guard here: an operator can enter what Argo CD reports.              *)
Unlock(x) ==
  /\ status[x] = "Terminated"
  /\ Locks!Unlock(x)
  /\ lockVersion' = [lockVersion EXCEPT ![x] = @ + 1]
  /\ UNCHANGED <<version, status, node, op, job, outside, run, operator, requests, plan>>

Replaceable(s) == s \in {"Candidate", "PartialFailed"}

(* A newer candidate replaces a version that is not being deployed. *)
Supersede(v) ==
  /\ Replaceable(version[v])
  /\ version' = [version EXCEPT ![v] = "Superseded"]
  /\ UNCHANGED <<status, lockVersion, node, op, job, locks, outside, run, operator, requests, plan>>

-----------------------------------------------------------------------------
(* Outside: Argo CD, the content of Applications, time *)

StartOperation(n) ==
  /\ argo[n].wanted # "none" /\ argo[n].phase # "Running"
  /\ argo' = [argo EXCEPT ![n] = [wanted |-> "none", op |-> argo[n].wanted, phase |-> "Running"]]
  /\ started' = started \cup {<<argo[n].wanted, n>>}
  /\ UNCHANGED <<database, job, locks, drifted, run, operator, requests, plan>>

EndOperation(n) ==
  /\ argo[n].phase = "Running"
  /\ \E phase \in {"Succeeded", "Failed"} : argo' = [argo EXCEPT ![n].phase = phase]
  /\ UNCHANGED <<database, job, locks, drifted, started, run, operator, requests, plan>>

Drift(n) ==
  /\ n \in Driftable \ drifted
  /\ drifted' = drifted \cup {n}
  /\ UNCHANGED <<database, job, locks, argo, started, run, operator, requests, plan>>

Lapse ==
  /\ Lapses
  /\ Locks!Lapse
  /\ UNCHANGED <<database, job, outside, run, operator, requests, plan>>

-----------------------------------------------------------------------------

TaskStep(r, n) == SaveTask(r, n) \/ Sync(r, n) \/ Resume(r, n) \/ Watch(r, n)

RunnerStep(r) ==
  \/ Prepare(r) \/ Load(r) \/ Acquire(r)
  \/ Block(r) \/ MarkRunning(r)
  \/ StartBatch(r) \/ NoExecutableNode(r) \/ Collect(r) \/ FinishPlan(r)
  \/ Complete(r) \/ Release(r)
  \/ \E n \in Nodes : TaskStep(r, n)

Trouble(r) ==
  \/ Break(r) \/ PreflightError(r) \/ LoseLocks(r)
  \/ \E n \in Nodes : SaveError(r, n)

Commands ==
  \/ \E x \in Executions :
       \/ BeginTerminate(x) \/ Unlock(x)
       \/ \E selected \in SUBSET Nodes : Retry(x, selected)
  \/ \E n \in Nodes : StopOperation(n)
  \/ FinishTerminate
  \/ \E v \in Versions : Supersede(v)

Outside == Lapse \/ \E n \in Nodes : StartOperation(n) \/ EndOperation(n) \/ Drift(n)

Work == \E r \in Runners : RunnerStep(r) \/ \E x \in Executions : Claim(r, x)

Next ==
  \/ Work
  \/ \E r \in Runners : Trouble(r) \/ Renew(r)
  \/ \E x \in Executions : LoseJob(x)
  \/ Commands
  \/ Outside

Spec == Init /\ [][Next]_vars

(* The consumer polls for jobs, a run goes on, and every wait has a timeout. *)
FairSpec ==
  /\ Spec
  /\ \A r \in Runners :
       WF_vars(RunnerStep(r) \/ LoseLocks(r) \/ \E x \in Executions : Claim(r, x))

-----------------------------------------------------------------------------
(* Properties *)

(* Every variable keeps its shape.                                           *)
TypeOK ==
  /\ version \in [Versions -> OutcomeStatuses \cup
                    {"Candidate", "Deploying", "Superseded", "Terminated"}]
  /\ status \in [Executions -> OutcomeStatuses \cup
                    {"none", "Preflight", "Running", "Blocked", "Terminated"}]
  /\ lockVersion \in [Executions -> Nat]
  /\ node \in [Executions -> [Nodes -> {"none", "Waiting", "Syncing", "Succeeded", "Failed",
                                        "Skipped", "Blocked", "Terminated"}]]
  /\ op \in [Executions -> [Nodes -> BOOLEAN]]
  /\ job \in [Executions -> [state: {"none", "open", "done"}, left: 0..MaxDeliveries,
                             holder: Runners \cup {"none"}]]
  /\ lock \in [Nodes -> [exec: Executions \cup {"none"}, owner: 0..MaxDeliveries]]
  /\ lapsed \subseteq {n \in Nodes : lock[n].exec # "none"}
  /\ argo \in [Nodes -> [wanted: Executions \cup {"none"}, op: Executions \cup {"none"},
                         phase: {"none", "Running", "Succeeded", "Failed"}]]
  /\ drifted \subseteq Nodes
  /\ run \in [Runners ->
       [pc: {"idle", "loading", "acquiring", "preflight", "running", "completing", "releasing"},
        exec: Executions \cup {"none"}, owner: 0..MaxDeliveries,
        seen: OutcomeStatuses \cup {"none", "Preflight", "Running", "Blocked"},
        runtime: [Nodes -> {"none", "Queued", "Succeeded", "Failed", "Skipped"}],
        known: [Nodes -> BOOLEAN],
        task: [Nodes -> Ended \cup {"none", "saving", "syncing", "resuming", "watching",
                                    "succeeding", "failing"}],
        result: BOOLEAN]]
  /\ \A r \in Runners : run[r].pc # "idle" => run[r].exec \in Executions
  /\ operator \in [pc: {"idle", "stopping"}, exec: Executions \cup {"none"}, expected: Nat,
                   left: SUBSET Nodes]
  /\ requests \in [Executions -> [Nodes -> Nat]]
  /\ started \subseteq Executions \X Nodes

Attempts(x) == {y \in Executions : VersionOf[y] = VersionOf[x]}

Concluded(x) == status[x] \in OutcomeStatuses \cup {"Blocked", "Terminated"}

(* Whatever crashes, an operation is asked for at most once per attempt: a   *)
(* delivery that finds a saved operation id looks for it and asks no more.   *)
NothingSentTwice == \A x \in Executions, n \in Nodes : requests[x][n] <= 1

(* A node counts as deployed only if Argo CD has started the operation of    *)
(* this attempt, or of the earlier one whose success it keeps.               *)
SuccessWasOurs ==
  \A x \in Executions, n \in Nodes :
    node[x][n] = "Succeeded" => \E y \in Attempts(x) : <<y, n>> \in started

(* The outcome of an execution and its nodes, saved by different statements, *)
(* tell the same story.                                                      *)
OutcomeMatchesNodes ==
  \A x \in Executions :
    LET saved == {node[x][n] : n \in Targets[x]} IN
    /\ status[x] = "Succeeded" => saved = {"Succeeded"}
    /\ status[x] = "Failed" => saved \subseteq {"Failed", "Skipped", "Blocked"}
    /\ status[x] = "PartialFailed" =>
         /\ "Succeeded" \in saved /\ saved # {"Succeeded"}
         /\ saved \subseteq {"Succeeded", "Failed", "Skipped", "Blocked"}

(* The Request Version shows the state of its latest attempt, except when a  *)
(* newer candidate has replaced it.                                          *)
VersionFollowsLatest ==
  \A x \in Executions : Latest(x) =>
    CASE status[x] \in {"Preflight", "Running"} -> version[VersionOf[x]] = "Deploying"
      [] status[x] = "Blocked" -> version[VersionOf[x]] = "Superseded"
      [] status[x] = "PartialFailed" ->
           version[VersionOf[x]] \in {"PartialFailed", "Superseded"}
      [] OTHER -> version[VersionOf[x]] = status[x]

(* A job succeeds only when its execution has come to an end.                *)
JobsEndWithTheirExecution ==
  \A x \in Executions : job[x].state = "done" => Concluded(x)

(* Nothing moves in a terminated execution, whatever its runs still do.      *)
TerminatedIsFrozen ==
  [][\A x \in Executions : status[x] = "Terminated" =>
       status'[x] = "Terminated" /\ node'[x] = node[x]]_vars

Sends(x, n) == requests'[x][n] > requests[x][n]

(* As long as leases are kept, a Sync is sent by a running execution, under  *)
(* its lock; only an execution that was just terminated may still send one.  *)
SyncUnderLock ==
  [][\A x \in Executions, n \in Nodes : Sends(x, n) =>
       \/ status[x] = "Terminated"
       \/ status[x] = "Running" /\ lock[n].exec = x]_vars

(* As long as leases are kept, nobody touches an Application of an execution *)
(* that is running or has failed in part.                                    *)
OthersKeepOut ==
  [][\A x, y \in Executions, n \in Nodes :
       /\ Sends(x, n) /\ status[x] = "Running"
       /\ n \in Targets[y] /\ VersionOf[y] # VersionOf[x] /\ Latest(y)
       => status[y] \notin {"Running", "PartialFailed"}]_vars

(* As long as leases are kept, a partial failure keeps all of its locks until *)
(* it is retried or unlocked.                                                 *)
PartialFailureKeepsLocks ==
  \A x \in Executions, n \in Nodes :
    status[x] = "PartialFailed" /\ Latest(x) /\ n \in Targets[x] => lock[n].exec = x

(* Every job comes to an end: the execution concludes, or the deliveries are *)
(* used up and nobody works on it.                                           *)
JobsEnd ==
  \A x \in Executions :
    job[x].state = "open" ~> \/ job[x].state = "done"
                             \/ job[x].left = 0 /\ \A r \in Runners : run[r].exec # x

(* The code does not ensure the rest.                                        *)

(* Drifted content fails closed: a blocked execution sends no Sync.          *)
BlockedSendsNothing ==
  [][\A x \in Executions, n \in Nodes : Sends(x, n) => status[x] # "Blocked"]_vars

(* A partial failure whose content does not drift can be deployed in full:  *)
(* only drift blocks the retry of its failed Applications.                   *)
OnlyDriftBlocks ==
  \A x \in Executions : status[x] = "Blocked" => Targets[x] \cap drifted # {}

(* An outcome that gives the locks back has converged: no operation of the   *)
(* execution is under way where its lock is free.                            *)
UnderWay(x, n) == argo[n].op = x /\ argo[n].phase = "Running"

FailedHasConverged ==
  \A x \in Executions, n \in Nodes :
    status[x] = "Failed" /\ lock[n].exec = "none" => ~UnderWay(x, n)

(* Terminate stops the active operations: nothing is sent after it.          *)
TerminatedSendsNothing ==
  [][\A x \in Executions, n \in Nodes : Sends(x, n) => status[x] # "Terminated"]_vars

(* An unlock is rejected while an operation is still active.                 *)
UnlockedIsQuiet ==
  [][\A x \in Executions : Unlock(x) => \A n \in Targets[x] : ~UnderWay(x, n)]_vars

(* An execution that finds an Application locked keeps waiting: it concludes  *)
(* in the end, unless its version was replaced before it began.               *)
KeepsWaiting ==
  \A x \in Executions :
    job[x].state = "open" ~> Concluded(x) \/ version[VersionOf[x]] = "Superseded"

==============================================================================
