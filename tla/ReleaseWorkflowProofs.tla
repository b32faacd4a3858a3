------------------------- MODULE ReleaseWorkflowProofs -------------------------
(***************************************************************************)
(* What holds of the release workflow for every graph, every number of     *)
(* versions, operators and roles.  Commands are decided on a snapshot and  *)
(* written later: the invariant behind everything says what is still true  *)
(* of a snapshot while the lock version that was read is the one stored.   *)
(***************************************************************************)
EXTENDS ReleaseWorkflow, FiniteSetTheorems, SequenceTheorems, TLAPS

-----------------------------------------------------------------------------
(* The shapes of everything *)

Edges == document.edges

Instance ==
  [status : InstanceStatus, state : DOMAIN document.type \cup {None}, lock : Nat, ended : BOOLEAN]

Task ==
  [state : DOMAIN document.policy, status : TaskStatus, type : PolicyTypes,
   required : Nat \ {0}, self : BOOLEAN, users : SUBSET Users, roles : SUBSET Roles,
   decided : [Users -> {None, "Approve", "Reject"}]]

Outcomes == {None, "Succeeded", "Failed", "PartialFailed"}

Executions == [status : ExecStatus, outcome : Outcomes, fence : Nat]

StartCommands == [kind : {"start"}, v : Versions]

TransitionCommands == [kind : {"transition"}, v : Versions, lock : Nat, edge : Edges]

ReviewCommands ==
  [kind : {"review"}, v : Versions, lock : Nat, stage : Nat \ {0}, by : Users,
   decision : {"Approve", "Reject"}, status : TaskStatus, edges : SUBSET Edges]

ReassignmentCommands ==
  [kind : {"reassignment"}, v : Versions, lock : Nat, stage : Nat \ {0}, assignment : Assignments]

ExecutionCommands ==
  [kind : {"retry", "terminate"}, v : Versions, lock : Nat, edge : Edges, fence : Nat]

Commands ==
  {Idle} \cup StartCommands \cup TransitionCommands \cup ReviewCommands
    \cup ReassignmentCommands \cup ExecutionCommands

(* An instance exists exactly when it has a status, and has ended exactly  *)
(* when it does not run.                                                   *)
InstanceIsWhole(row) ==
  /\ row.status = None => row = NoInstance
  /\ row.status # None => row.state \in DOMAIN document.type
  /\ row.ended <=> row.status \notin {None, "Running"}

TypeIInv ==
  /\ document \in Documents
  /\ version \in [Versions -> [status : VersionStatus, lock : Nat]]
  /\ instance \in [Versions -> Instance]
  /\ \A v \in Versions : InstanceIsWhole(instance[v])
  /\ tasks \in [Versions -> Seq(Task)]
  /\ \A v \in Versions : tasks[v] # <<>> \/ intents[v] > 0 => instance[v].status # None
  /\ intents \in [Versions -> Nat]
  /\ exec \in [Versions -> Executions]
  /\ cmd \in [Processes -> Commands]

-----------------------------------------------------------------------------
(* What is still true of a command while the lock it was decided under is  *)
(* the stored one                                                          *)

Approval(v) == HasReview(v) /\ CurrentReview(v).status = "Approved"

AsksApproval(edge) ==
  \/ edge.trigger # "Manual"
  \/ \E condition \in edge.conditions :
       condition.fact = "review.status" /\ condition.values = {"Approved"}

With(task, u, decision) == [task EXCEPT !.decided[u] = decision]

AsLoaded(command) ==
  /\ command.kind \in {"transition", "retry", "terminate"} =>
       instance[command.v].state = command.edge.from
  /\ command.kind = "transition" /\ AsksApproval(command.edge) => Approval(command.v)
  /\ command.kind \in {"review", "reassignment"} => command.stage = Len(tasks[command.v])
  /\ command.kind = "review" =>
       LET task == tasks[command.v][command.stage]
       IN  task.status = "Pending" =>
             command.status = NextStatus(With(task, command.by, command.decision))

(* What a command is, whatever happens after it was decided. *)
Proper(command) ==
  /\ command.kind = "transition" =>
       /\ command.edge.trigger \in {"Manual", "ReviewSatisfied"}
       /\ \A condition \in command.edge.conditions : condition.fact = "review.status"
  /\ command.kind = "review" /\ command.edges # {} =>
       command.status = "Approved" /\ \E edge \in command.edges : command.edges = {edge}
  /\ command.kind \in {"retry", "terminate"} =>
       command.edge.trigger = "Manual" /\ command.edge.permission = command.kind

Stands(command) ==
  /\ command.kind = "start" => version[command.v].status # None
  /\ command.kind \notin {"idle", "start"} =>
       /\ Proper(command)
       /\ command.lock <= instance[command.v].lock
       /\ instance[command.v].status # None
       /\ command.lock = instance[command.v].lock => AsLoaded(command)

CommandsIInv == \A c \in Processes : Stands(cmd[c])

(* Only a version that deploys has an execution that runs.  The execution  *)
(* has advanced the lock version of the version's row and not that of its  *)
(* instance, and the two never meet again.                                 *)
ExecutionOK(v) ==
  /\ exec[v].status \in {"Preflight", "Running"} => version[v].status = "Deploying"
  /\ exec[v].status # None => instance[v].lock < version[v].lock /\ instance[v].status # None
  /\ version[v].status \in {"Succeeded", "Failed", "PartialFailed"} => exec[v].status = version[v].status
  /\ instance[v].lock <= version[v].lock
  /\ version[v].status # None => version[v].lock > 0
  /\ instance[v].status # None => version[v].status # None

ExecIInv == \A v \in Versions : ExecutionOK(v)

-----------------------------------------------------------------------------

(* Neither a deployment's result nor its termination leaves a review state *)
(* of the graphs.                                                          *)
ReviewsEndAsReviews ==
  \A value \in Documents : \A edge \in value.edges :
    edge.from \in DOMAIN value.policy =>
      /\ edge.trigger # "DeploymentResult"
      /\ edge.trigger = "Manual" => edge.permission # "terminate"

(* Besides the newest review of a running instance, none is open, and none *)
(* is once an execution has failed.                                        *)
NoneOpen(v) == \A i \in DOMAIN tasks[v] : tasks[v][i].status # "Pending"

OpenOK(v) ==
  \A i \in DOMAIN tasks[v] :
    tasks[v][i].status = "Pending" =>
      i = Len(tasks[v]) /\ instance[v].status = "Running" /\ instance[v].state = tasks[v][i].state

FailedOK(v) == exec[v].status \in {"Failed", "PartialFailed"} => NoneOpen(v)

ReviewIInv == \A v \in Versions : OpenOK(v) /\ FailedOK(v)

-----------------------------------------------------------------------------
(* The operators of the graph and of reviews *)

(* The document of a request is a valid one. *)
LEMMA DocumentFacts ==
  ASSUME document \in Documents
  PROVE  /\ ValidDocument(document)
         /\ IsFiniteSet(Edges)
         /\ document.initial \in DOMAIN document.type
         /\ \A edge \in Edges : edge.from \in DOMAIN document.type /\ edge.to \in DOMAIN document.type
         /\ \A state \in DOMAIN document.type : IsReview(state) <=> state \in DOMAIN document.policy
         /\ DOMAIN document.policy \subseteq DOMAIN document.type
         /\ \A state \in DOMAIN document.policy : ValidPolicy(document.policy[state])
<1>1. ValidDocument(document)
  BY ReleaseWorkflowAssumption
<1>2. ValidStates(document) /\ IsFiniteSet(Edges) /\ document.initial \in DOMAIN document.type
      /\ \A edge \in Edges : ValidEdge(document, edge)
  BY <1>1 DEF ValidDocument, Edges
<1> QED  BY <1>1, <1>2 DEF ValidStates, ValidEdge, IsReview

(* The only edge of a set of edges is in it. *)
LEMMA OnlyEdge ==
  ASSUME NEW S, IsFiniteSet(S), Cardinality(S) = 1
  PROVE  The(S) \in S /\ \E edge \in S : S = {edge}
<1>1. PICK x : S = {x}
  BY FS_Singleton
<1> QED  BY <1>1 DEF The

(* The edges that lead on from a state are edges of the graph, finitely    *)
(* many, and their conditions are about the facts that were given.         *)
LEMMA EdgesFromFacts ==
  ASSUME document \in Documents, NEW state, NEW trigger, NEW facts
  PROVE  /\ EdgesFrom(state, trigger, facts) \subseteq Edges
         /\ IsFiniteSet(EdgesFrom(state, trigger, facts))
         /\ \A edge \in EdgesFrom(state, trigger, facts) :
              /\ edge.from = state /\ edge.trigger = trigger
              /\ \A condition \in edge.conditions :
                   condition.fact \in DOMAIN facts /\ facts[condition.fact] \in condition.values
<1>1. EdgesFrom(state, trigger, facts) \subseteq Edges
  BY DEF EdgesFrom, Edges
<1>2. IsFiniteSet(EdgesFrom(state, trigger, facts))
  BY <1>1, DocumentFacts, FS_Subset
<1> QED  BY <1>1, <1>2 DEF EdgesFrom, ConditionsMatch, Holds

(* An instance that arrives in a state is whole, and runs unless the state *)
(* is a terminal one.                                                      *)
LEMMA ArrivedShape ==
  ASSUME NEW state \in DOMAIN document.type, NEW lock \in Nat
  PROVE  /\ Arrived(state, lock) \in Instance
         /\ InstanceIsWhole(Arrived(state, lock))
         /\ Arrived(state, lock).status \in {"Running", "Completed"}
         /\ Arrived(state, lock).state = state /\ Arrived(state, lock).lock = lock
         /\ IsReview(state) => Arrived(state, lock).status = "Running"
<1> USE DEF Arrived, Instance, InstanceStatus, None, IsReview
<1>1. CASE document.type[state] = "Terminal"
  BY <1>1 DEF InstanceIsWhole
<1>2. CASE document.type[state] # "Terminal"
  BY <1>2 DEF InstanceIsWhole
<1> QED  BY <1>1, <1>2

(* A review that is opened waits, without a decision. *)
LEMMA NewTaskShape ==
  ASSUME document \in Documents, NEW state \in DOMAIN document.policy
  PROVE  /\ NewTask(state) \in Task
         /\ NewTask(state).status = "Pending" /\ NewTask(state).state = state
         /\ NewTask(state).decided = NoDecisions
<1>1. ValidPolicy(document.policy[state])
  BY DocumentFacts
<1>2. NoDecisions \in [Users -> {None, "Approve", "Reject"}]
  BY DEF NoDecisions
<1> QED  BY <1>1, <1>2 DEF NewTask, Task, TaskStatus, ValidPolicy

(* Closing a review ends its wait and changes nothing else. *)
LEMMA ClosedShape ==
  ASSUME NEW task \in Task
  PROVE  /\ Closed(task) \in Task /\ Closed(task).status # "Pending"
         /\ task.status # "Pending" => Closed(task) = task
         /\ task.status = "Pending" => Closed(task) = [task EXCEPT !.status = "Closed"]
         /\ Closed(task).state = task.state
BY DEF Closed, Task, TaskStatus

(* A status is computed among three. *)
LEMMA NextStatusShape ==
  ASSUME NEW task
  PROVE  NextStatus(task) \in {"Rejected", "Approved", "Pending"} /\ NextStatus(task) \in TaskStatus
BY DEF NextStatus, TaskStatus

(* A sequence of reviews whose elements are replaced one by one. *)
LEMMA SameLength ==
  ASSUME NEW S, NEW list \in Seq(S), NEW other, DOMAIN other = DOMAIN list,
         \A i \in DOMAIN list : other[i] \in S, other = [i \in DOMAIN list |-> other[i]]
  PROVE  other \in Seq(S) /\ Len(other) = Len(list)
<1>1. DOMAIN list = 1..Len(list) /\ Len(list) \in Nat
  BY LenProperties
<1> QED  BY <1>1

(* Closing the reviews of a state that is left keeps the list. *)
LEMMA ReviewsLeftShape ==
  ASSUME TypeIInv, NEW v \in Versions, NEW state
  PROVE  /\ ReviewsLeft(v, state) \in Seq(Task) /\ Len(ReviewsLeft(v, state)) = Len(tasks[v])
         /\ \A i \in 1..Len(tasks[v]) :
              ReviewsLeft(v, state)[i] = IF tasks[v][i].state = state THEN Closed(tasks[v][i]) ELSE tasks[v][i]
<1>1. tasks[v] \in Seq(Task) /\ DOMAIN tasks[v] = 1..Len(tasks[v])
  BY LenProperties DEF TypeIInv
<1>2. \A i \in DOMAIN tasks[v] : tasks[v][i] \in Task
  BY <1>1, ElementOfSeq
<1> DEFINE left == ReviewsLeft(v, state)
<1>3. /\ DOMAIN left = DOMAIN tasks[v]
      /\ \A i \in DOMAIN tasks[v] :
           left[i] = IF tasks[v][i].state = state THEN Closed(tasks[v][i]) ELSE tasks[v][i]
      /\ left = [i \in DOMAIN tasks[v] |-> left[i]]
  BY DEF ReviewsLeft
<1>4. \A i \in DOMAIN tasks[v] : left[i] \in Task
  BY <1>2, <1>3, ClosedShape
<1> HIDE DEF left
<1>5. left \in Seq(Task) /\ Len(left) = Len(tasks[v])
  BY <1>1, <1>3, <1>4, SameLength
<1> QED  BY <1>1, <1>3, <1>5 DEF left

(* The reviews after the arrival in a state: the old ones, and a new one   *)
(* if it is a review state.                                                *)
TasksAfter(state, list) == IF IsReview(state) THEN Append(list, NewTask(state)) ELSE list

(* An arrival keeps the reviews there were, and adds one exactly in a      *)
(* review state.                                                           *)
LEMMA TasksAfterShape ==
  ASSUME document \in Documents, NEW state \in DOMAIN document.type, NEW list \in Seq(Task)
  PROVE  /\ TasksAfter(state, list) \in Seq(Task)
         /\ \A i \in 1..Len(list) : TasksAfter(state, list)[i] = list[i]
         /\ IsReview(state) =>
              /\ Len(TasksAfter(state, list)) = Len(list) + 1
              /\ TasksAfter(state, list)[Len(list) + 1] = NewTask(state)
         /\ ~IsReview(state) => TasksAfter(state, list) = list
<1>1. CASE IsReview(state)
  <2>1. NewTask(state) \in Task
    BY <1>1, DocumentFacts, NewTaskShape
  <2> QED  BY <1>1, <2>1, AppendProperties DEF TasksAfter
<1>2. CASE ~IsReview(state)
  BY <1>2 DEF TasksAfter
<1> QED  BY <1>1, <1>2

(* Every row is in its set. *)
LEMMA RowFacts ==
  ASSUME TypeIInv, NEW v \in Versions
  PROVE  /\ version[v] \in [status : VersionStatus, lock : Nat]
         /\ instance[v] \in Instance /\ InstanceIsWhole(instance[v])
         /\ tasks[v] \in Seq(Task) /\ DOMAIN tasks[v] = 1..Len(tasks[v]) /\ Len(tasks[v]) \in Nat
         /\ \A i \in 1..Len(tasks[v]) : tasks[v][i] \in Task
         /\ exec[v] \in Executions /\ intents[v] \in Nat
<1>1. tasks[v] \in Seq(Task)
  BY DEF TypeIInv
<1>2. DOMAIN tasks[v] = 1..Len(tasks[v]) /\ Len(tasks[v]) \in Nat
  BY <1>1, LenProperties
<1>3. \A i \in 1..Len(tasks[v]) : tasks[v][i] \in Task
  BY <1>1, ElementOfSeq
<1> QED  BY <1>1, <1>2, <1>3 DEF TypeIInv

(* The newest review of a version that has one. *)
LEMMA CurrentFacts ==
  ASSUME TypeIInv, NEW v \in Versions, HasReview(v)
  PROVE  /\ Len(tasks[v]) \in Nat \ {0} /\ Len(tasks[v]) \in DOMAIN tasks[v]
         /\ CurrentReview(v) = tasks[v][Len(tasks[v])] /\ CurrentReview(v) \in Task
         /\ instance[v].status # None
<1>1. Len(tasks[v]) # 0
  BY RowFacts, EmptySeq DEF HasReview
<1>2. Len(tasks[v]) \in 1..Len(tasks[v])
  BY <1>1, RowFacts
<1>3. instance[v].status # None
  BY DEF TypeIInv, HasReview
<1> QED  BY <1>1, <1>2, <1>3, RowFacts DEF CurrentReview

-----------------------------------------------------------------------------
(* The steps *)

(* The graph of a request never changes. *)
LEMMA DocumentStays ==
  ASSUME [Next]_vars
  PROVE  document' = document
<1>1. CASE UNCHANGED vars
  BY <1>1 DEF vars
<1>2. ASSUME NEW c, Operator(c) PROVE document' = document
  BY <1>2 DEF Operator, LoadTransition, LoadDecision, LoadReassignment, LoadExecutionCommand, Decide, Apply, Conflict
<1>3. CASE CandidateWorker
  BY <1>3 DEF CandidateWorker, LoadStart, LoadRecovery, Decide, Apply, Conflict
<1>4. ASSUME NEW v, DeploymentWorker(v) PROVE document' = document
  BY <1>4 DEF DeploymentWorker, Prepare, Block, MarkRunning, NodesEnd, Complete
<1>5. ASSUME NEW v, NewCandidate(v) PROVE document' = document
  BY <1>5 DEF NewCandidate
<1> QED  BY <1>1, <1>2, <1>3, <1>4, <1>5 DEF Next

Rows == <<document, version, instance, tasks, intents, exec>>

(* A process that decides on a command. *)
Loads(c) ==
  \E v \in Versions :
    \/ LoadStart(v) /\ c = Worker
    \/ LoadRecovery(v) /\ c = Worker
    \/ LoadTransition(c, v)
    \/ \E u \in Users, decision \in {"Approve", "Reject"} : LoadDecision(c, v, u, decision)
    \/ \E assignment \in Assignments : LoadReassignment(c, v, assignment)
    \/ \E name \in {"retry", "terminate"} : LoadExecutionCommand(c, v, name)

(* A step is nothing, a command that is decided, refused or written, or a  *)
(* step of the deployment worker or of a candidate.                        *)
LEMMA StepCases ==
  ASSUME [Next]_vars
  PROVE  \/ UNCHANGED vars
         \/ \E c \in Processes : Loads(c)
         \/ \E c \in Processes : Conflict(c)
         \/ \E c \in Processes : Apply(c)
         \/ \E v \in Versions : DeploymentWorker(v)
         \/ \E v \in Versions : NewCandidate(v)
<1>1. ASSUME NEW c \in Clients, Operator(c)
      PROVE  c \in Processes /\ (Loads(c) \/ Conflict(c) \/ Apply(c))
  BY <1>1 DEF Processes, Operator, Loads
<1>2. ASSUME CandidateWorker
      PROVE  Worker \in Processes /\ (Loads(Worker) \/ Conflict(Worker) \/ Apply(Worker))
  BY <1>2 DEF Processes, CandidateWorker, Loads
<1> QED  BY <1>1, <1>2 DEF Next

(* A transition that an operator or the worker decides on is one the state *)
(* has, and needs the approval it asks for.                                *)
LEMMA TransitionsStand ==
  ASSUME TypeIInv, NEW v \in Versions, NEW edge \in Edges,
         instance[v].status = "Running", edge.from = instance[v].state,
         edge.trigger \in {"Manual", "ReviewSatisfied"},
         \A condition \in edge.conditions : condition.fact = "review.status",
         AsksApproval(edge) => Approval(v)
  PROVE  LET m == [kind |-> "transition", v |-> v, lock |-> instance[v].lock, edge |-> edge]
         IN  m \in Commands /\ Stands(m)
<1> DEFINE m == [kind |-> "transition", v |-> v, lock |-> instance[v].lock, edge |-> edge]
<1>1. instance[v].lock \in Nat
  BY RowFacts DEF Instance
<1>2. m \in Commands
  BY <1>1 DEF Commands, TransitionCommands
<1>3. Proper(m)
  BY DEF Proper
<1>4. AsLoaded(m)
  BY DEF AsLoaded
<1> QED  BY <1>1, <1>2, <1>3, <1>4 DEF Stands, None

(* A start, and a transition of the worker's recovery. *)
LEMMA WorkerLoads ==
  ASSUME TypeIInv, NEW v \in Versions, LoadStart(v) \/ LoadRecovery(v)
  PROVE  \E m \in Commands : Decide(Worker, m) /\ Stands(m)
<1>1. CASE LoadStart(v)
  <2> DEFINE m == [kind |-> "start", v |-> v]
  <2>1. m \in Commands /\ Stands(m)
    BY <1>1 DEF Commands, StartCommands, Stands, LoadStart
  <2> QED  BY <1>1, <2>1 DEF LoadStart
<1>2. CASE LoadRecovery(v)
  <2> DEFINE task == CurrentReview(v)
             found == ReviewEdges(v, task)
             edge == The(found)
  <2>1. HasReview(v) /\ instance[v].status = "Running" /\ Cardinality(found) = 1
        /\ Decide(Worker, [kind |-> "transition", v |-> v, lock |-> instance[v].lock, edge |-> edge])
    BY <1>2 DEF LoadRecovery
  <2>2. document \in Documents
    BY DEF TypeIInv
  <2>3. found # {}
    BY <2>1, FS_EmptySet
  <2>4. task.status = "Approved" /\ found = EdgesFrom(instance[v].state, "ReviewSatisfied", ApprovedFacts)
    BY <2>3 DEF ReviewEdges
  <2>5. edge \in found
    BY <2>1, <2>2, <2>4, EdgesFromFacts, OnlyEdge
  <2>6. DOMAIN ApprovedFacts = {"review.status"}
    BY DEF ApprovedFacts
  <2>7. /\ edge \in Edges /\ edge.from = instance[v].state /\ edge.trigger = "ReviewSatisfied"
        /\ \A condition \in edge.conditions : condition.fact = "review.status"
    BY <2>2, <2>4, <2>5, <2>6, EdgesFromFacts
  <2>8. Approval(v)
    BY <2>1, <2>4 DEF Approval
  <2> HIDE DEF edge, found, task
  <2> QED  BY <2>1, <2>7, <2>8, TransitionsStand
<1> QED  BY <1>1, <1>2

(* A manual transition of an operator. *)
LEMMA TransitionLoads ==
  ASSUME TypeIInv, NEW v \in Versions, NEW c, LoadTransition(c, v)
  PROVE  \E m \in Commands : Decide(c, m) /\ Stands(m)
<1>1. PICK edge \in EdgesFrom(instance[v].state, "Manual", TransitionFacts(v)) :
        Decide(c, [kind |-> "transition", v |-> v, lock |-> instance[v].lock, edge |-> edge])
  BY DEF LoadTransition
<1>2. instance[v].status = "Running" /\ document \in Documents
  BY DEF LoadTransition, TypeIInv
<1>3. /\ edge \in Edges /\ edge.from = instance[v].state /\ edge.trigger = "Manual"
      /\ \A condition \in edge.conditions :
           condition.fact \in DOMAIN TransitionFacts(v) /\ TransitionFacts(v)[condition.fact] \in condition.values
  BY <1>1, <1>2, EdgesFromFacts
<1>4. DOMAIN TransitionFacts(v) \subseteq {"review.status"}
  BY DEF TransitionFacts
<1>5. \A condition \in edge.conditions : condition.fact = "review.status"
  BY <1>3, <1>4
<1>6. ASSUME NEW condition \in edge.conditions, condition.values = {"Approved"}
      PROVE  Approval(v)
  <2>1. "review.status" \in DOMAIN TransitionFacts(v) /\ TransitionFacts(v)["review.status"] = "Approved"
    BY <1>3, <1>5, <1>6
  <2>2. HasReview(v) /\ TransitionFacts(v) = [fact \in {"review.status"} |-> CurrentReview(v).status]
    BY <2>1 DEF TransitionFacts
  <2> QED  BY <2>1, <2>2 DEF Approval
<1>7. AsksApproval(edge) => Approval(v)
  BY <1>3, <1>6 DEF AsksApproval
<1> QED  BY <1>1, <1>2, <1>3, <1>5, <1>7, TransitionsStand

(* A decision: its status counts the decision itself. *)
LEMMA DecisionLoads ==
  ASSUME TypeIInv, NEW v \in Versions, NEW c, NEW u \in Users, NEW decision \in {"Approve", "Reject"},
         LoadDecision(c, v, u, decision)
  PROVE  \E m \in Commands : Decide(c, m) /\ Stands(m)
<1> DEFINE task == Decided(CurrentReview(v), u, decision)
           found == ReviewEdges(v, task)
           m == [kind |-> "review", v |-> v, lock |-> instance[v].lock, stage |-> Len(tasks[v]),
                 by |-> u, decision |-> decision, status |-> task.status, edges |-> found]
<1>1. HasReview(v) /\ Cardinality(found) <= 1 /\ Decide(c, m) /\ document \in Documents
  BY DEF LoadDecision, TypeIInv
<1>2. task.status = NextStatus(With(CurrentReview(v), u, decision))
  BY <1>1, CurrentFacts DEF Decided, With, Task
<1>3. found \subseteq Edges /\ IsFiniteSet(found) /\ (found # {} => task.status = "Approved")
  BY <1>1, EdgesFromFacts, FS_EmptySet DEF ReviewEdges
<1>4. found # {} => \E edge \in found : found = {edge}
  <2>1. Cardinality(found) \in Nat /\ (found # {} => Cardinality(found) # 0)
    BY <1>3, FS_EmptySet, FS_CardinalityType
  <2> HIDE DEF found
  <2>2. found # {} => Cardinality(found) = 1
    BY <1>1, <2>1
  <2> QED  BY <1>3, <2>2, OnlyEdge
<1>5. instance[v].lock \in Nat /\ task.status \in TaskStatus
      /\ Len(tasks[v]) \in Nat \ {0} /\ instance[v].status # None
      /\ CurrentReview(v) = tasks[v][Len(tasks[v])]
  BY <1>1, <1>2, RowFacts, NextStatusShape, CurrentFacts DEF Instance
<1> HIDE DEF found, task
<1>6. m \in Commands
  BY <1>3, <1>5 DEF Commands, ReviewCommands
<1>7. Proper(m)
  BY <1>3, <1>4 DEF Proper
<1>8. AsLoaded(m)
  BY <1>2, <1>5 DEF AsLoaded
<1> QED  BY <1>1, <1>5, <1>6, <1>7, <1>8 DEF Stands

(* A reassignment. *)
LEMMA ReassignmentLoads ==
  ASSUME TypeIInv, NEW v \in Versions, NEW c, NEW assignment \in Assignments,
         LoadReassignment(c, v, assignment)
  PROVE  \E m \in Commands : Decide(c, m) /\ Stands(m)
<1> DEFINE m == [kind |-> "reassignment", v |-> v, lock |-> instance[v].lock,
                 stage |-> Len(tasks[v]), assignment |-> assignment]
<1>1. HasReview(v) /\ Decide(c, m)
  BY DEF LoadReassignment
<1>2. instance[v].lock \in Nat /\ Len(tasks[v]) \in Nat \ {0} /\ instance[v].status # None
  BY <1>1, RowFacts, CurrentFacts DEF Instance
<1>3. m \in Commands
  BY <1>2 DEF Commands, ReassignmentCommands
<1>4. Proper(m) /\ AsLoaded(m)
  BY DEF Proper, AsLoaded
<1> QED  BY <1>1, <1>2, <1>3, <1>4 DEF Stands

(* A retry or a termination takes the one edge that asks for it. *)
LEMMA ExecutionLoads ==
  ASSUME TypeIInv, NEW v \in Versions, NEW c, NEW name \in {"retry", "terminate"},
         LoadExecutionCommand(c, v, name)
  PROVE  \E m \in Commands : Decide(c, m) /\ Stands(m)
<1> DEFINE facts == [fact \in {"deployment.status"} |-> exec[v].status]
           way == EdgesFrom(instance[v].state, "Manual", facts)
           found == {edge \in way : edge.permission = name}
           m == [kind |-> name, v |-> v, lock |-> instance[v].lock,
                 edge |-> The(found), fence |-> exec[v].fence]
<1>1. instance[v].status = "Running" /\ Cardinality(found) = 1 /\ Decide(c, m) /\ document \in Documents
  BY DEF LoadExecutionCommand, TypeIInv
<1>2. /\ IsFiniteSet(way) /\ way \subseteq Edges
      /\ \A edge \in way : edge.from = instance[v].state /\ edge.trigger = "Manual"
  BY <1>1, EdgesFromFacts
<1> HIDE DEF way
<1>3. The(found) \in found
  BY <1>1, <1>2, FS_Subset, OnlyEdge
<1>4. The(found) \in Edges /\ The(found).from = instance[v].state
      /\ The(found).trigger = "Manual" /\ The(found).permission = name
  BY <1>2, <1>3
<1>5. instance[v].lock \in Nat /\ exec[v].fence \in Nat
  BY RowFacts DEF Instance, Executions
<1> HIDE DEF found
<1>6. m \in Commands
  BY <1>4, <1>5 DEF Commands, ExecutionCommands
<1>7. Proper(m)
  BY <1>4 DEF Proper
<1>8. AsLoaded(m)
  BY <1>4 DEF AsLoaded
<1> QED  BY <1>1, <1>5, <1>6, <1>7, <1>8 DEF Stands, None

(* Whatever is decided stands at that moment. *)
LEMMA LoadedStand ==
  ASSUME TypeIInv, NEW c \in Processes, Loads(c)
  PROVE  UNCHANGED Rows /\ \E m \in Commands : cmd' = [cmd EXCEPT ![c] = m] /\ Stands(m)
<1>1. \E m \in Commands : Decide(c, m) /\ Stands(m)
  BY WorkerLoads, TransitionLoads, DecisionLoads, ReassignmentLoads, ExecutionLoads DEF Loads
<1> QED  BY <1>1 DEF Decide, Rows

-----------------------------------------------------------------------------
(* Types *)

(* What a command carries, by its kind. *)
LEMMA CommandFacts ==
  ASSUME NEW m \in Commands
  PROVE  /\ m.kind \in {"idle", "start", "transition", "review", "reassignment", "retry", "terminate"}
         /\ m = Idle <=> m.kind = "idle"
         /\ m.kind # "idle" => m.v \in Versions
         /\ m.kind \notin {"idle", "start"} => m.lock \in Nat
         /\ m.kind \in {"transition", "retry", "terminate"} => m.edge \in Edges
         /\ m.kind \in {"retry", "terminate"} => m.fence \in Nat
         /\ m.kind \in {"review", "reassignment"} => m.stage \in Nat \ {0}
         /\ m.kind = "review" =>
              m.by \in Users /\ m.decision \in {"Approve", "Reject"} /\ m.status \in TaskStatus
                /\ m.edges \subseteq Edges
         /\ m.kind = "reassignment" => m.assignment \in Assignments
<1>1. CASE m = Idle
  BY <1>1 DEF Idle
<1>2. CASE m \in StartCommands
  BY <1>2 DEF StartCommands, Idle
<1>3. CASE m \in TransitionCommands
  BY <1>3 DEF TransitionCommands, Idle
<1>4. CASE m \in ReviewCommands
  BY <1>4 DEF ReviewCommands, Idle
<1>5. CASE m \in ReassignmentCommands
  BY <1>5 DEF ReassignmentCommands, Idle
<1>6. CASE m \in ExecutionCommands
  BY <1>6 DEF ExecutionCommands, Idle
<1> QED  BY <1>1, <1>2, <1>3, <1>4, <1>5, <1>6 DEF Commands

(* A command that is loaded, stays, or goes leaves the pending commands    *)
(* well formed.                                                            *)
LEMMA PendingTypes ==
  ASSUME TypeIInv, [Next]_vars
  PROVE  cmd' \in [Processes -> Commands]
<1>1. cmd \in [Processes -> Commands]
  BY DEF TypeIInv
<1>2. ASSUME NEW c \in Processes, Loads(c) PROVE cmd' \in [Processes -> Commands]
  BY <1>1, <1>2, LoadedStand
<1>3. ASSUME NEW c \in Processes, Conflict(c) \/ Apply(c) PROVE cmd' \in [Processes -> Commands]
  BY <1>1, <1>3 DEF Conflict, Apply, Commands
<1>4. ASSUME NEW v \in Versions, DeploymentWorker(v) \/ NewCandidate(v) PROVE cmd' \in [Processes -> Commands]
  BY <1>1, <1>4 DEF DeploymentWorker, Prepare, Block, MarkRunning, NodesEnd, Complete, NewCandidate
<1>5. CASE UNCHANGED vars
  BY <1>1, <1>5 DEF vars
<1> QED  BY <1>2, <1>3, <1>4, <1>5, StepCases

InstancesOK ==
  /\ instance \in [Versions -> Instance]
  /\ \A v \in Versions : InstanceIsWhole(instance[v])

TasksOK == tasks \in [Versions -> Seq(Task)]

RestOK ==
  /\ version \in [Versions -> [status : VersionStatus, lock : Nat]]
  /\ intents \in [Versions -> Nat]
  /\ exec \in [Versions -> Executions]

StartedOK == \A v \in Versions : tasks[v] # <<>> \/ intents[v] > 0 => instance[v].status # None

(* A row that is replaced by a whole one leaves all instances whole. *)
LEMMA InstanceSet ==
  ASSUME TypeIInv, document' = document, NEW v \in Versions, NEW row \in Instance,
         InstanceIsWhole(row), row.status # None, instance' = [instance EXCEPT ![v] = row]
  PROVE  /\ InstancesOK' /\ instance'[v] = row
         /\ \A w \in Versions : instance[w].status # None => instance'[w].status # None
<1>1. instance \in [Versions -> Instance] /\ \A w \in Versions : InstanceIsWhole(instance[w])
  BY DEF TypeIInv
<1>2. instance' \in [Versions -> Instance] /\ instance'[v] = row
      /\ \A w \in Versions \ {v} : instance'[w] = instance[w]
  BY <1>1
<1>3. Instance' = Instance
  BY DEF Instance
<1>4. \A w \in Versions : InstanceIsWhole(instance[w])'
  BY <1>1, <1>2 DEF InstanceIsWhole
<1> QED  BY <1>2, <1>3, <1>4 DEF InstancesOK

(* An arrival: the instance moves, the review or the job of its new state  *)
(* is added.                                                               *)
Arrives(v, state, lock, list) ==
  /\ instance' = [instance EXCEPT ![v] = Arrived(state, lock)]
  /\ OpenReview(v, state, list)
  /\ RecordIntent(v, state)

(* An arrival leaves well-formed rows, and those of the other versions     *)
(* alone.                                                                  *)
LEMMA ArrivesTypes ==
  ASSUME TypeIInv, document' = document, NEW v \in Versions, NEW state \in DOMAIN document.type,
         NEW lock \in Nat, NEW list \in Seq(Task), Arrives(v, state, lock, list)
  PROVE  /\ InstancesOK' /\ TasksOK' /\ StartedOK' /\ intents' \in [Versions -> Nat]
         /\ instance'[v] = Arrived(state, lock) /\ tasks'[v] = TasksAfter(state, list)
         /\ \A w \in Versions \ {v} :
              instance'[w] = instance[w] /\ tasks'[w] = tasks[w] /\ intents'[w] = intents[w]
<1>1. InstancesOK' /\ instance'[v] = Arrived(state, lock)
      /\ \A w \in Versions : instance[w].status # None => instance'[w].status # None
  <2>1. Arrived(state, lock).status # None
    BY ArrivedShape DEF None
  <2>2. Arrived(state, lock) \in Instance /\ InstanceIsWhole(Arrived(state, lock))
    BY ArrivedShape
  <2>3. instance' = [instance EXCEPT ![v] = Arrived(state, lock)]
    BY DEF Arrives
  <2> QED  BY <2>1, <2>2, <2>3, InstanceSet
<1>2. tasks' = [tasks EXCEPT ![v] = TasksAfter(state, list)]
  BY DEF Arrives, OpenReview, TasksAfter
<1>3. tasks \in [Versions -> Seq(Task)] /\ intents \in [Versions -> Nat] /\ document \in Documents
      /\ instance \in [Versions -> Instance]
  BY DEF TypeIInv
<1>4. TasksAfter(state, list) \in Seq(Task)
  BY <1>3, TasksAfterShape
<1>5. tasks' \in [Versions -> Seq(Task)]
  BY <1>2, <1>3, <1>4
<1>6. Task' = Task
  BY DEF Task
<1>7. intents' \in [Versions -> Nat] /\ \A w \in Versions \ {v} : intents'[w] = intents[w]
  BY <1>3 DEF Arrives, RecordIntent
<1>8. tasks'[v] = TasksAfter(state, list)
      /\ \A w \in Versions \ {v} : tasks'[w] = tasks[w] /\ instance'[w] = instance[w]
  BY <1>2, <1>3 DEF Arrives
<1>9. instance'[v].status # None
  BY <1>1, ArrivedShape DEF None
<1>10. StartedOK'
  <2>1. StartedOK
    BY DEF StartedOK, TypeIInv
  <2> QED  BY <1>1, <1>7, <1>8, <1>9, <2>1 DEF StartedOK
<1> QED  BY <1>1, <1>5, <1>6, <1>7, <1>8, <1>10 DEF TasksOK

(* A review that takes a decision. *)
DecidedList(list, n, u, decision, status) ==
  [list EXCEPT ![n].status = status, ![n].decided[u] = decision]

Decision(task, u, decision, status) == [With(task, u, decision) EXCEPT !.status = status]

(* A decision sets what its review's user decided and its status, and      *)
(* nothing else.                                                           *)
LEMMA DecisionShape ==
  ASSUME NEW task \in Task, NEW u \in Users, NEW decision \in {"Approve", "Reject"}, NEW status \in TaskStatus
  PROVE  /\ Decision(task, u, decision, status) \in Task
         /\ Decision(task, u, decision, status).status = status
         /\ Decision(task, u, decision, status).state = task.state
         /\ With(task, u, decision) \in Task
         /\ Decision(task, u, decision, status) = [With(task, u, decision) EXCEPT !.status = status]
<1>1. task.decided \in [Users -> {None, "Approve", "Reject"}]
  BY DEF Task
<1>2. [task.decided EXCEPT ![u] = decision] \in [Users -> {None, "Approve", "Reject"}]
  BY <1>1
<1>3. With(task, u, decision) \in Task
  BY <1>2 DEF With, Task
<1> QED  BY <1>2, <1>3 DEF Decision, With, Task

(* The review that is decided is the only one that changes. *)
LEMMA DecidedListShape ==
  ASSUME NEW list \in Seq(Task), NEW n \in 1..Len(list), NEW u \in Users,
         NEW decision \in {"Approve", "Reject"}, NEW status \in TaskStatus
  PROVE  /\ DecidedList(list, n, u, decision, status) \in Seq(Task)
         /\ Len(DecidedList(list, n, u, decision, status)) = Len(list)
         /\ DecidedList(list, n, u, decision, status)[n] = Decision(list[n], u, decision, status)
         /\ \A i \in 1..Len(list) : i # n => DecidedList(list, n, u, decision, status)[i] = list[i]
<1> DEFINE next == DecidedList(list, n, u, decision, status)
           task == Decision(list[n], u, decision, status)
<1>1. DOMAIN list = 1..Len(list) /\ \A i \in 1..Len(list) : list[i] \in Task
  BY LenProperties, ElementOfSeq
<1>4. task \in Task
  BY <1>1, DecisionShape
<1>5. next[n] = task
  BY <1>1 DEF DecidedList, Decision, With, Task
<1>6. DOMAIN next = DOMAIN list /\ (\A i \in 1..Len(list) : i # n => next[i] = list[i])
      /\ next = [i \in DOMAIN list |-> next[i]]
  BY <1>1 DEF DecidedList
<1> HIDE DEF next, task
<1>7. \A i \in DOMAIN list : next[i] \in Task
  BY <1>1, <1>4, <1>5, <1>6
<1>8. next \in Seq(Task) /\ Len(next) = Len(list)
  BY <1>6, <1>7, SameLength
<1> QED  BY <1>4, <1>5, <1>6, <1>8 DEF next, task

(* A review that is reassigned. *)
LEMMA ReassignedShape ==
  ASSUME NEW list \in Seq(Task), NEW n \in 1..Len(list), NEW assignment \in Assignments
  PROVE  LET next == [list EXCEPT ![n] = Reassigned(@, assignment)]
         IN  /\ next \in Seq(Task) /\ Len(next) = Len(list)
             /\ next[n] = Reassigned(list[n], assignment) /\ next[n] \in Task
             /\ \A i \in 1..Len(list) : i # n => next[i] = list[i]
<1> DEFINE next == [list EXCEPT ![n] = Reassigned(@, assignment)]
<1>1. DOMAIN list = 1..Len(list) /\ \A i \in 1..Len(list) : list[i] \in Task
  BY LenProperties, ElementOfSeq
<1>2. assignment.users \subseteq Users /\ assignment.roles \subseteq Roles
  BY ReleaseWorkflowAssumption
<1>3. Reassigned(list[n], assignment) \in Task
  BY <1>1, <1>2 DEF Reassigned, Task, TaskStatus
<1>4. next[n] = Reassigned(list[n], assignment) /\ DOMAIN next = DOMAIN list
      /\ (\A i \in 1..Len(list) : i # n => next[i] = list[i])
      /\ next = [i \in DOMAIN list |-> next[i]]
  BY <1>1
<1> HIDE DEF next
<1>5. \A i \in DOMAIN list : next[i] \in Task
  BY <1>1, <1>3, <1>4
<1> QED  BY <1>3, <1>4, <1>5, SameLength DEF next

(* A command that is written under the lock it was decided under is as it  *)
(* was loaded; a review it is about is the newest.                         *)
LEMMA FreshCommand ==
  ASSUME TypeIInv, CommandsIInv, NEW c \in Processes, cmd[c] # Idle, cmd[c].kind # "start",
         InstanceAccepts(cmd[c].v, cmd[c].lock)
  PROVE  /\ cmd[c] \in Commands /\ cmd[c].v \in Versions /\ cmd[c].lock \in Nat
         /\ Proper(cmd[c]) /\ AsLoaded(cmd[c]) /\ instance[cmd[c].v].status # None
         /\ cmd[c].kind \in {"review", "reassignment"} =>
              cmd[c].stage \in 1..Len(tasks[cmd[c].v]) /\ cmd[c].stage = Len(tasks[cmd[c].v])
<1>1. cmd[c] \in Commands /\ Stands(cmd[c])
  BY DEF TypeIInv, CommandsIInv
<1>2. cmd[c].kind \notin {"idle", "start"} /\ cmd[c].v \in Versions /\ cmd[c].lock \in Nat
      /\ (cmd[c].kind \in {"review", "reassignment"} => cmd[c].stage \in Nat \ {0})
  BY <1>1, CommandFacts
<1>3. Proper(cmd[c]) /\ AsLoaded(cmd[c]) /\ instance[cmd[c].v].status # None
  BY <1>1, <1>2 DEF Stands, InstanceAccepts
<1>4. cmd[c].kind \in {"review", "reassignment"} => cmd[c].stage = Len(tasks[cmd[c].v])
  BY <1>3 DEF AsLoaded
<1> QED  BY <1>1, <1>2, <1>3, <1>4

AllOK == InstancesOK /\ TasksOK /\ StartedOK /\ RestOK

(* An instance that keeps its state under a new lock. *)
LEMMA RelockedShape ==
  ASSUME NEW row \in Instance, InstanceIsWhole(row), row.status # None, NEW lock \in Nat
  PROVE  LET next == [row EXCEPT !.lock = lock]
         IN  next \in Instance /\ InstanceIsWhole(next) /\ next.status = row.status
             /\ next.state = row.state /\ next.lock = lock
BY DEF Instance, InstanceIsWhole, NoInstance, None

(* What a start does. *)
LEMMA StartEffect ==
  ASSUME TypeIInv, CommandsIInv, NEW c \in Processes, Apply(c), cmd[c].kind = "start"
  PROVE  /\ cmd[c].v \in Versions /\ instance[cmd[c].v] = NoInstance
         /\ version[cmd[c].v].status # None
         /\ Arrives(cmd[c].v, document.initial, 1, tasks[cmd[c].v])
         /\ UNCHANGED <<document, version, exec>>
<1>1. cmd[c] \in Commands /\ Stands(cmd[c])
  BY DEF TypeIInv, CommandsIInv
<1>2. cmd[c].v \in Versions /\ version[cmd[c].v].status # None
  BY <1>1, CommandFacts DEF Stands
<1>3. Start(cmd[c]) /\ document' = document
  BY DEF Apply, Write
<1> QED  BY <1>2, <1>3 DEF Start, Arrives

(* What a transition does, and that the snapshot it was decided on is the  *)
(* one it is written to.                                                   *)
LEMMA TransitionEffect ==
  ASSUME TypeIInv, CommandsIInv, NEW c \in Processes, Apply(c), cmd[c].kind = "transition"
  PROVE  LET v == cmd[c].v
         IN  /\ v \in Versions /\ cmd[c].lock = instance[v].lock /\ cmd[c].lock \in Nat
             /\ Accepts(v, cmd[c].lock) /\ AdvanceVersion(v, cmd[c].lock)
             /\ cmd[c].edge \in Edges /\ instance[v].state = cmd[c].edge.from
             /\ AsksApproval(cmd[c].edge) => Approval(v)
             /\ Proper(cmd[c])
             /\ Arrives(v, cmd[c].edge.to, cmd[c].lock + 1, ReviewsLeft(v, cmd[c].edge.from))
             /\ UNCHANGED <<document, exec>>
<1>1. ApplyTransition(cmd[c]) /\ document' = document /\ cmd[c] # Idle
  BY DEF Apply, Write
<1>2. InstanceAccepts(cmd[c].v, cmd[c].lock) /\ Accepts(cmd[c].v, cmd[c].lock)
  BY <1>1 DEF ApplyTransition, Accepts
<1>3. /\ cmd[c] \in Commands /\ cmd[c].v \in Versions /\ cmd[c].lock \in Nat
      /\ Proper(cmd[c]) /\ AsLoaded(cmd[c])
  BY <1>1, <1>2, FreshCommand
<1>4. cmd[c].edge \in Edges
  BY <1>3, CommandFacts
<1>5. instance[cmd[c].v].state = cmd[c].edge.from /\ (AsksApproval(cmd[c].edge) => Approval(cmd[c].v))
  BY <1>3 DEF AsLoaded
<1>6. cmd[c].lock = instance[cmd[c].v].lock
  BY <1>2 DEF InstanceAccepts
<1> QED  BY <1>1, <1>2, <1>3, <1>4, <1>5, <1>6 DEF ApplyTransition, Arrives

(* What a decision does: the newest review takes it, and the instance      *)
(* stays, or moves on once the review is approved.                         *)
LEMMA ReviewEffect ==
  ASSUME TypeIInv, CommandsIInv, NEW c \in Processes, Apply(c), cmd[c].kind = "review"
  PROVE  LET v == cmd[c].v
             n == cmd[c].stage
             next == DecidedList(tasks[v], n, cmd[c].by, cmd[c].decision, cmd[c].status)
         IN  /\ v \in Versions /\ cmd[c].lock = instance[v].lock /\ cmd[c].lock \in Nat
             /\ n \in 1..Len(tasks[v]) /\ n = Len(tasks[v]) /\ tasks[v][n].status = "Pending"
             /\ cmd[c].by \in Users /\ cmd[c].decision \in {"Approve", "Reject"} /\ cmd[c].status \in TaskStatus
             /\ cmd[c].status = NextStatus(With(tasks[v][n], cmd[c].by, cmd[c].decision))
             /\ Accepts(v, cmd[c].lock) /\ AdvanceVersion(v, cmd[c].lock)
             /\ instance[v].status # None
             /\ \/ /\ instance' = [instance EXCEPT ![v].lock = cmd[c].lock + 1]
                   /\ tasks' = [tasks EXCEPT ![v] = next]
                   /\ intents' = intents
                \/ /\ cmd[c].status = "Approved"
                   /\ \E edge \in Edges : Arrives(v, edge.to, cmd[c].lock + 1, next)
             /\ UNCHANGED <<document, exec>>
<1> DEFINE v == cmd[c].v
           n == cmd[c].stage
           next == DecidedList(tasks[v], n, cmd[c].by, cmd[c].decision, cmd[c].status)
<1>1. ApplyReview(cmd[c]) /\ document' = document /\ cmd[c] # Idle
  BY DEF Apply, Write
<1>2. InstanceAccepts(v, cmd[c].lock) /\ Accepts(v, cmd[c].lock) /\ AdvanceVersion(v, cmd[c].lock)
      /\ tasks[v][n].status = "Pending" /\ exec' = exec
  BY <1>1 DEF ApplyReview, Accepts
<1>3. /\ cmd[c] \in Commands /\ v \in Versions /\ cmd[c].lock \in Nat
      /\ Proper(cmd[c]) /\ AsLoaded(cmd[c]) /\ instance[v].status # None
      /\ n \in 1..Len(tasks[v]) /\ n = Len(tasks[v])
  BY <1>1, <1>2, FreshCommand
<1>4. cmd[c].by \in Users /\ cmd[c].decision \in {"Approve", "Reject"} /\ cmd[c].status \in TaskStatus
      /\ cmd[c].edges \subseteq Edges
  BY <1>3, CommandFacts
<1>5. cmd[c].status = NextStatus(With(tasks[v][n], cmd[c].by, cmd[c].decision))
  BY <1>2, <1>3 DEF AsLoaded
<1>6. cmd[c].lock = instance[v].lock
  BY <1>2 DEF InstanceAccepts
<1>7. CASE cmd[c].edges = {}
  <2>1. instance' = [instance EXCEPT ![v].lock = cmd[c].lock + 1] /\ tasks' = [tasks EXCEPT ![v] = next]
        /\ intents' = intents
    BY <1>1, <1>7 DEF ApplyReview, DecidedList
  <2> QED  BY <1>1, <1>2, <1>3, <1>4, <1>5, <1>6, <2>1
<1>8. CASE cmd[c].edges # {}
  <2>1. cmd[c].status = "Approved" /\ \E edge \in cmd[c].edges : cmd[c].edges = {edge}
    BY <1>3, <1>8 DEF Proper
  <2>2. The(cmd[c].edges) \in Edges
    BY <1>4, <2>1 DEF The
  <2>3. Arrives(v, The(cmd[c].edges).to, cmd[c].lock + 1, next)
    BY <1>1, <1>8 DEF ApplyReview, DecidedList, Arrives
  <2> QED  BY <1>1, <1>2, <1>3, <1>4, <1>5, <1>6, <2>1, <2>2, <2>3
<1> QED  BY <1>7, <1>8

(* What a reassignment does. *)
LEMMA ReassignmentEffect ==
  ASSUME TypeIInv, CommandsIInv, NEW c \in Processes, Apply(c), cmd[c].kind = "reassignment"
  PROVE  LET v == cmd[c].v
             n == cmd[c].stage
         IN  /\ v \in Versions /\ cmd[c].lock = instance[v].lock /\ cmd[c].lock \in Nat
             /\ n \in 1..Len(tasks[v]) /\ n = Len(tasks[v]) /\ tasks[v][n].status = "Pending"
             /\ cmd[c].assignment \in Assignments
             /\ Accepts(v, cmd[c].lock) /\ AdvanceVersion(v, cmd[c].lock)
             /\ instance[v].status # None
             /\ instance' = [instance EXCEPT ![v].lock = cmd[c].lock + 1]
             /\ tasks' = [tasks EXCEPT ![v] = [tasks[v] EXCEPT ![n] = Reassigned(@, cmd[c].assignment)]]
             /\ UNCHANGED <<document, intents, exec>>
<1> DEFINE v == cmd[c].v
           n == cmd[c].stage
<1>1. ApplyReassignment(cmd[c]) /\ document' = document /\ cmd[c] # Idle
  BY DEF Apply, Write
<1>2. InstanceAccepts(v, cmd[c].lock) /\ Accepts(v, cmd[c].lock) /\ AdvanceVersion(v, cmd[c].lock)
      /\ tasks[v][n].status = "Pending" /\ UNCHANGED <<intents, exec>>
      /\ instance' = [instance EXCEPT ![v].lock = cmd[c].lock + 1]
  BY <1>1 DEF ApplyReassignment, Accepts
<1>3. /\ cmd[c] \in Commands /\ v \in Versions /\ cmd[c].lock \in Nat /\ instance[v].status # None
      /\ n \in 1..Len(tasks[v]) /\ n = Len(tasks[v])
  BY <1>1, <1>2, FreshCommand
<1>4. cmd[c].assignment \in Assignments
  BY <1>3, CommandFacts
<1>5. cmd[c].lock = instance[v].lock
  BY <1>2 DEF InstanceAccepts
<1>6. tasks' = [tasks EXCEPT ![v] = [tasks[v] EXCEPT ![n] = Reassigned(@, cmd[c].assignment)]]
  BY <1>1 DEF ApplyReassignment
<1> QED  BY <1>1, <1>2, <1>3, <1>4, <1>5, <1>6

(* What a retry and a termination do. *)
LEMMA ExecutionEffect ==
  ASSUME TypeIInv, CommandsIInv, NEW c \in Processes, Apply(c), cmd[c].kind \in {"retry", "terminate"}
  PROVE  LET v == cmd[c].v
             retry == cmd[c].kind = "retry"
         IN  /\ v \in Versions /\ cmd[c].lock = instance[v].lock /\ cmd[c].lock \in Nat
             /\ cmd[c].edge \in Edges /\ instance[v].state = cmd[c].edge.from
             /\ cmd[c].edge.trigger = "Manual" /\ cmd[c].edge.permission = cmd[c].kind
             /\ instance[v].status # None
             /\ instance' = [instance EXCEPT ![v] = Arrived(cmd[c].edge.to, cmd[c].lock + 1)]
             /\ \/ retry /\ version[v].status \in {"Failed", "PartialFailed"}
                \/ ~retry /\ exec[v].status \in {"Running", "PartialFailed"}
             /\ version' = [version EXCEPT ![v] = [status |-> IF retry THEN "Deploying" ELSE "Terminated",
                                                  lock |-> version[v].lock + 1]]
             /\ exec' = [exec EXCEPT ![v] = [status |-> IF retry THEN "Preflight" ELSE "Terminated",
                                            outcome |-> None, fence |-> exec[v].fence + 1]]
             /\ UNCHANGED <<document, tasks, intents>>
<1> DEFINE v == cmd[c].v
<1>1. document' = document /\ cmd[c] # Idle
      /\ \/ cmd[c].kind = "retry" /\ Retry(cmd[c])
         \/ cmd[c].kind = "terminate" /\ Terminate(cmd[c])
  BY DEF Apply, Write
<1>2. InstanceAccepts(v, cmd[c].lock)
  BY <1>1 DEF Retry, Terminate
<1>3. /\ cmd[c] \in Commands /\ v \in Versions /\ cmd[c].lock \in Nat /\ instance[v].status # None
      /\ Proper(cmd[c]) /\ AsLoaded(cmd[c])
  BY <1>1, <1>2, FreshCommand
<1>4. cmd[c].edge \in Edges
  BY <1>3, CommandFacts
<1>5. cmd[c].lock = instance[v].lock
  BY <1>2 DEF InstanceAccepts
<1>6. instance[v].state = cmd[c].edge.from /\ cmd[c].edge.trigger = "Manual"
      /\ cmd[c].edge.permission = cmd[c].kind
  BY <1>3 DEF Proper, AsLoaded
<1>7. CASE cmd[c].kind = "retry" /\ Retry(cmd[c])
  BY <1>1, <1>3, <1>4, <1>5, <1>6, <1>7 DEF Retry
<1>8. CASE cmd[c].kind = "terminate" /\ Terminate(cmd[c])
  BY <1>1, <1>3, <1>4, <1>5, <1>6, <1>8 DEF Terminate
<1> QED  BY <1>1, <1>7, <1>8

(* The written command leaves every row well formed. *)
LEMMA ApplyTypes ==
  ASSUME TypeIInv, CommandsIInv, NEW c \in Processes, Apply(c)
  PROVE  AllOK'
<1> DEFINE v == cmd[c].v
<1>1. AllOK /\ document \in Documents
  BY DEF TypeIInv, AllOK, InstancesOK, TasksOK, StartedOK, RestOK
<1>2. cmd[c] \in Commands /\ cmd[c].kind # "idle"
  <2>1. cmd[c] \in Commands /\ cmd[c] # Idle
    BY DEF TypeIInv, Apply
  <2> QED  BY <2>1, CommandFacts
<1>3. Task' = Task
  <2>1. document' = document
    BY DEF Apply
  <2> QED  BY <2>1 DEF Task
<1>4. CASE cmd[c].kind = "start"
  <2>1. v \in Versions /\ Arrives(v, document.initial, 1, tasks[v]) /\ UNCHANGED <<document, version, exec>>
    BY <1>4, StartEffect
  <2>2. document.initial \in DOMAIN document.type /\ tasks[v] \in Seq(Task)
    BY <1>1, <2>1, DocumentFacts, RowFacts
  <2>3. InstancesOK' /\ TasksOK' /\ StartedOK' /\ intents' \in [Versions -> Nat]
    BY <2>1, <2>2, ArrivesTypes
  <2>4. RestOK'
    BY <1>1, <2>1, <2>3 DEF AllOK, RestOK
  <2> QED  BY <2>3, <2>4 DEF AllOK
<1>5. CASE cmd[c].kind = "transition"
  <2>1. /\ v \in Versions /\ cmd[c].lock \in Nat /\ AdvanceVersion(v, cmd[c].lock) /\ cmd[c].edge \in Edges
        /\ Arrives(v, cmd[c].edge.to, cmd[c].lock + 1, ReviewsLeft(v, cmd[c].edge.from))
        /\ UNCHANGED <<document, exec>>
    BY <1>5, TransitionEffect
  <2>2. cmd[c].edge.to \in DOMAIN document.type /\ ReviewsLeft(v, cmd[c].edge.from) \in Seq(Task)
        /\ cmd[c].lock + 1 \in Nat
    BY <1>1, <2>1, DocumentFacts, ReviewsLeftShape
  <2>3. InstancesOK' /\ TasksOK' /\ StartedOK' /\ intents' \in [Versions -> Nat]
    BY <2>1, <2>2, ArrivesTypes
  <2>4. RestOK'
    BY <1>1, <2>1, <2>2, <2>3 DEF AllOK, RestOK, AdvanceVersion
  <2> QED  BY <2>3, <2>4 DEF AllOK
<1>6. CASE cmd[c].kind = "review"
  <2> DEFINE next == DecidedList(tasks[v], cmd[c].stage, cmd[c].by, cmd[c].decision, cmd[c].status)
  <2>1. /\ v \in Versions /\ cmd[c].lock \in Nat /\ AdvanceVersion(v, cmd[c].lock)
        /\ cmd[c].stage \in 1..Len(tasks[v]) /\ instance[v].status # None
        /\ cmd[c].by \in Users /\ cmd[c].decision \in {"Approve", "Reject"} /\ cmd[c].status \in TaskStatus
        /\ UNCHANGED <<document, exec>>
    BY <1>6, ReviewEffect
  <2>2. \/ /\ instance' = [instance EXCEPT ![v].lock = cmd[c].lock + 1]
           /\ tasks' = [tasks EXCEPT ![v] = next]
           /\ intents' = intents
        \/ \E edge \in Edges : Arrives(v, edge.to, cmd[c].lock + 1, next)
    BY <1>6, ReviewEffect
  <2>3. next \in Seq(Task) /\ Len(next) = Len(tasks[v]) /\ cmd[c].lock + 1 \in Nat
    <3>1. tasks[v] \in Seq(Task)
      BY <2>1, RowFacts
    <3>2. next \in Seq(Task) /\ Len(next) = Len(tasks[v])
      BY <2>1, <3>1, DecidedListShape
    <3> HIDE DEF next
    <3> QED  BY <2>1, <3>2
  <2> HIDE DEF next
  <2>4. RestOK' \/ ~(intents' \in [Versions -> Nat])
    BY <1>1, <2>1, <2>3 DEF AllOK, RestOK, AdvanceVersion
  <2>5. ASSUME NEW edge \in Edges, Arrives(v, edge.to, cmd[c].lock + 1, next) PROVE AllOK'
    <3>1. edge.to \in DOMAIN document.type
      BY <1>1, DocumentFacts
    <3>2. InstancesOK' /\ TasksOK' /\ StartedOK' /\ intents' \in [Versions -> Nat]
      BY <2>1, <2>3, <2>5, <3>1, ArrivesTypes
    <3> QED  BY <2>4, <3>2 DEF AllOK
  <2>6. ASSUME instance' = [instance EXCEPT ![v].lock = cmd[c].lock + 1],
               tasks' = [tasks EXCEPT ![v] = next], intents' = intents
        PROVE  AllOK'
    <3> DEFINE row == [instance[v] EXCEPT !.lock = cmd[c].lock + 1]
    <3>1. row \in Instance /\ InstanceIsWhole(row) /\ row.status # None
      BY <2>1, <2>3, RowFacts, RelockedShape
    <3>2. instance' = [instance EXCEPT ![v] = row]
      BY <2>1, <2>6
    <3> HIDE DEF row
    <3>3. InstancesOK' /\ instance'[v] = row
          /\ \A w \in Versions : instance[w].status # None => instance'[w].status # None
      BY <2>1, <3>1, <3>2, InstanceSet
    <3>4. TasksOK'
      BY <1>1, <1>3, <2>3, <2>6 DEF AllOK, TasksOK
    <3>5. StartedOK'
      BY <1>1, <2>1, <2>6, <3>1, <3>3 DEF AllOK, StartedOK, TasksOK
    <3>6. RestOK'
      BY <1>1, <2>4, <2>6 DEF AllOK, RestOK
    <3> QED  BY <3>3, <3>4, <3>5, <3>6 DEF AllOK
  <2> QED  BY <2>2, <2>5, <2>6
<1>7. CASE cmd[c].kind = "reassignment"
  <2> DEFINE n == cmd[c].stage
             next == [tasks[v] EXCEPT ![n] = Reassigned(@, cmd[c].assignment)]
             row == [instance[v] EXCEPT !.lock = cmd[c].lock + 1]
  <2>1. /\ v \in Versions /\ cmd[c].lock \in Nat /\ AdvanceVersion(v, cmd[c].lock)
        /\ n \in 1..Len(tasks[v]) /\ instance[v].status # None /\ cmd[c].assignment \in Assignments
        /\ instance' = [instance EXCEPT ![v].lock = cmd[c].lock + 1]
        /\ tasks' = [tasks EXCEPT ![v] = next]
        /\ UNCHANGED <<document, intents, exec>>
    BY <1>7, ReassignmentEffect
  <2>2. next \in Seq(Task) /\ cmd[c].lock + 1 \in Nat
    BY <2>1, RowFacts, ReassignedShape
  <2>3. row \in Instance /\ InstanceIsWhole(row) /\ row.status # None
    BY <2>1, <2>2, RowFacts, RelockedShape
  <2>4. instance' = [instance EXCEPT ![v] = row]
    BY <2>1
  <2> HIDE DEF row, next
  <2>5. InstancesOK' /\ instance'[v] = row
        /\ \A w \in Versions : instance[w].status # None => instance'[w].status # None
    BY <2>1, <2>3, <2>4, InstanceSet
  <2>6. TasksOK'
    BY <1>1, <1>3, <2>1, <2>2 DEF AllOK, TasksOK
  <2>7. StartedOK'
    BY <1>1, <2>1, <2>3, <2>5 DEF AllOK, StartedOK, TasksOK
  <2>8. RestOK'
    BY <1>1, <2>1, <2>2 DEF AllOK, RestOK, AdvanceVersion
  <2> QED  BY <2>5, <2>6, <2>7, <2>8 DEF AllOK
<1>8. CASE cmd[c].kind \in {"retry", "terminate"}
  <2> DEFINE row == Arrived(cmd[c].edge.to, cmd[c].lock + 1)
             retry == cmd[c].kind = "retry"
  <2>1. /\ v \in Versions /\ cmd[c].lock \in Nat /\ cmd[c].edge \in Edges
        /\ instance' = [instance EXCEPT ![v] = row]
        /\ version' = [version EXCEPT ![v] = [status |-> IF retry THEN "Deploying" ELSE "Terminated",
                                             lock |-> version[v].lock + 1]]
        /\ exec' = [exec EXCEPT ![v] = [status |-> IF retry THEN "Preflight" ELSE "Terminated",
                                       outcome |-> None, fence |-> exec[v].fence + 1]]
        /\ UNCHANGED <<document, tasks, intents>>
    BY <1>8, ExecutionEffect
  <2>2. row \in Instance /\ InstanceIsWhole(row) /\ row.status # None
    <3>1. cmd[c].edge.to \in DOMAIN document.type /\ cmd[c].lock + 1 \in Nat
      BY <1>1, <2>1, DocumentFacts
    <3> QED  BY <3>1, ArrivedShape DEF None
  <2> HIDE DEF row
  <2>3. InstancesOK' /\ instance'[v] = row
        /\ \A w \in Versions : instance[w].status # None => instance'[w].status # None
    BY <2>1, <2>2, InstanceSet
  <2>4. TasksOK' /\ StartedOK'
    BY <1>1, <1>3, <2>1, <2>3 DEF AllOK, TasksOK, StartedOK
  <2>5. RestOK'
    <3>1. version[v].lock + 1 \in Nat /\ exec[v].fence + 1 \in Nat
      BY <2>1, RowFacts DEF Executions
    <3>2. [status |-> IF retry THEN "Deploying" ELSE "Terminated", lock |-> version[v].lock + 1]
            \in [status : VersionStatus, lock : Nat]
      BY <3>1 DEF VersionStatus
    <3>3. [status |-> IF retry THEN "Preflight" ELSE "Terminated", outcome |-> None,
           fence |-> exec[v].fence + 1] \in Executions
      BY <3>1 DEF Executions, ExecStatus, Outcomes
    <3> QED  BY <1>1, <2>1, <3>2, <3>3 DEF AllOK, RestOK
  <2> QED  BY <2>3, <2>4, <2>5 DEF AllOK
<1> QED  BY <1>2, <1>4, <1>5, <1>6, <1>7, <1>8, CommandFacts

(* What a recorded result does to the instance: it takes the edge of the   *)
(* result, or is blocked after its end.                                    *)
LEMMA CompleteEffect ==
  ASSUME TypeIInv, NEW v \in Versions, Complete(v)
  PROVE  \E row \in Instance :
           /\ InstanceIsWhole(row) /\ row.status # None /\ row.lock = instance[v].lock + 1
           /\ instance' = [instance EXCEPT ![v] = row]
           /\ \/ /\ instance[v].status = "Running"
                 /\ \E edge \in Edges :
                      /\ edge.from = instance[v].state /\ edge.trigger = "DeploymentResult"
                      /\ row.state = edge.to /\ ~IsReview(edge.to) /\ ~IsDeployment(edge.to)
              \/ instance[v].ended
<1> DEFINE lock == instance[v].lock + 1
<1>1. lock \in Nat /\ instance[v] \in Instance /\ InstanceIsWhole(instance[v]) /\ document \in Documents
      /\ instance \in [Versions -> Instance]
  BY RowFacts DEF Instance, TypeIInv
<1>2. CASE ResultAdvances(v) /\ instance' = [instance EXCEPT ![v] = Arrived(The(ResultEdges(v)).to, lock)]
  <2> DEFINE edge == The(ResultEdges(v))
  <2>1. edge \in ResultEdges(v)
    <3>1. IsFiniteSet(ResultEdges(v)) /\ Cardinality(ResultEdges(v)) = 1
      BY <1>1, <1>2, EdgesFromFacts DEF ResultEdges, ResultAdvances
    <3> QED  BY <3>1, OnlyEdge
  <2>2. edge \in Edges /\ edge.from = instance[v].state /\ edge.trigger = "DeploymentResult"
    BY <1>1, <2>1, EdgesFromFacts DEF ResultEdges
  <2>3. instance[v].status = "Running" /\ ~IsReview(edge.to) /\ ~IsDeployment(edge.to)
    BY <1>2 DEF ResultAdvances
  <2>4. instance' = [instance EXCEPT ![v] = Arrived(edge.to, lock)]
    BY <1>2
  <2> HIDE DEF edge
  <2>5. edge.to \in DOMAIN document.type
    BY <1>1, <2>2, DocumentFacts
  <2> HIDE DEF lock
  <2>6. /\ Arrived(edge.to, lock) \in Instance /\ InstanceIsWhole(Arrived(edge.to, lock))
        /\ Arrived(edge.to, lock).status # None
        /\ Arrived(edge.to, lock).state = edge.to /\ Arrived(edge.to, lock).lock = lock
    BY <1>1, <2>5, ArrivedShape DEF None
  <2> QED  BY <2>2, <2>3, <2>4, <2>6 DEF lock
<1>3. CASE /\ instance[v].ended
           /\ instance' = [instance EXCEPT ![v].status = "Blocked", ![v].lock = lock]
  <2> DEFINE row == [instance[v] EXCEPT !.status = "Blocked", !.lock = lock]
  <2>1. row \in Instance /\ row.status = "Blocked" /\ row.lock = lock
    BY <1>1 DEF Instance, InstanceStatus
  <2>2. InstanceIsWhole(row)
    BY <1>1, <1>3 DEF Instance, InstanceIsWhole, None
  <2>3. instance' = [instance EXCEPT ![v] = row]
    BY <1>1, <1>3
  <2> HIDE DEF row
  <2> QED  BY <1>3, <2>1, <2>2, <2>3 DEF None
<1> QED  BY <1>2, <1>3 DEF Complete

(* What superseding does to the instance and its reviews. *)
LEMMA SupersededEffect ==
  ASSUME TypeIInv, NEW v \in Versions, NewCandidate(v)
  PROVE  /\ InstancesOK' /\ TasksOK' /\ StartedOK'
         /\ instance'[v].state = instance[v].state /\ instance'[v].lock = instance[v].lock
         /\ \A w \in Versions : (instance[w].status # None <=> instance'[w].status # None)
         /\ tasks'[v] \in Seq(Task) /\ Len(tasks'[v]) = Len(tasks[v])
         /\ \A i \in 1..Len(tasks[v]) : tasks'[v][i] = Closed(tasks[v][i])
         /\ \A w \in Versions \ {v} : instance'[w] = instance[w] /\ tasks'[w] = tasks[w]
<1>1. /\ instance[v] \in Instance /\ InstanceIsWhole(instance[v])
      /\ tasks[v] \in Seq(Task) /\ DOMAIN tasks[v] = 1..Len(tasks[v])
      /\ \A i \in 1..Len(tasks[v]) : tasks[v][i] \in Task
  BY RowFacts
<1>2. /\ UNCHANGED <<document, intents>>
      /\ instance' = [instance EXCEPT ![v] =
                        IF @ = NoInstance THEN @ ELSE [@ EXCEPT !.status = "Superseded", !.ended = TRUE]]
      /\ tasks' = [tasks EXCEPT ![v] = [i \in DOMAIN @ |-> Closed(@[i])]]
  BY DEF NewCandidate
<1>3. /\ instance \in [Versions -> Instance] /\ tasks \in [Versions -> Seq(Task)] /\ StartedOK
      /\ \A w \in Versions : InstanceIsWhole(instance[w])
  BY DEF TypeIInv, StartedOK
<1> DEFINE row == IF instance[v] = NoInstance THEN instance[v]
                  ELSE [instance[v] EXCEPT !.status = "Superseded", !.ended = TRUE]
           list == [i \in DOMAIN tasks[v] |-> Closed(tasks[v][i])]
<1>4. row \in Instance /\ InstanceIsWhole(row) /\ row.state = instance[v].state /\ row.lock = instance[v].lock
      /\ (row.status # None <=> instance[v].status # None)
  <2>1. CASE instance[v] = NoInstance
    BY <1>1, <2>1
  <2>2. CASE instance[v] # NoInstance
    BY <1>1, <2>2 DEF Instance, InstanceStatus, InstanceIsWhole, None
  <2> QED  BY <2>1, <2>2
<1>5. instance' = [instance EXCEPT ![v] = row] /\ tasks' = [tasks EXCEPT ![v] = list]
  BY <1>2
<1>6. DOMAIN list = DOMAIN tasks[v] /\ list = [i \in DOMAIN tasks[v] |-> list[i]]
      /\ \A i \in DOMAIN tasks[v] : list[i] = Closed(tasks[v][i])
  OBVIOUS
<1> HIDE DEF row, list
<1>7. \A i \in DOMAIN tasks[v] : list[i] \in Task
  BY <1>1, <1>6, ClosedShape
<1>8. list \in Seq(Task) /\ Len(list) = Len(tasks[v])
  BY <1>1, <1>6, <1>7, SameLength
<1>9. instance' \in [Versions -> Instance] /\ instance'[v] = row /\ tasks' \in [Versions -> Seq(Task)]
      /\ tasks'[v] = list
      /\ \A w \in Versions \ {v} : instance'[w] = instance[w] /\ tasks'[w] = tasks[w]
  BY <1>3, <1>4, <1>5, <1>8
<1>10. Task' = Task /\ Instance' = Instance
  BY <1>2 DEF Task, Instance
<1>11. InstancesOK'
  <2>1. \A w \in Versions : InstanceIsWhole(instance[w])'
    BY <1>2, <1>3, <1>4, <1>9 DEF InstanceIsWhole
  <2> QED  BY <1>9, <1>10, <2>1 DEF InstancesOK
<1>12. TasksOK'
  BY <1>9, <1>10 DEF TasksOK
<1>13. \A w \in Versions : (instance[w].status # None <=> instance'[w].status # None)
  BY <1>4, <1>9
<1>14. StartedOK'
  <2>1. list # <<>> => tasks[v] # <<>>
    BY <1>1, <1>8, EmptySeq
  <2> QED  BY <1>2, <1>3, <1>9, <1>13, <2>1 DEF StartedOK
<1> QED  BY <1>1, <1>4, <1>6, <1>8, <1>9, <1>11, <1>12, <1>13, <1>14

(* Every step of the deployment worker and of a candidate leaves the rows  *)
(* well formed.                                                            *)
LEMMA WorkerTypes ==
  ASSUME TypeIInv, NEW v \in Versions, DeploymentWorker(v) \/ NewCandidate(v)
  PROVE  AllOK'
<1>1. AllOK
  BY DEF TypeIInv, AllOK, InstancesOK, TasksOK, StartedOK, RestOK
<1>2. document' = document
  BY DEF DeploymentWorker, Prepare, Block, MarkRunning, NodesEnd, Complete, NewCandidate
<1>3. Task' = Task /\ Instance' = Instance
  BY <1>2 DEF Task, Instance
<1>4. version[v] \in [status : VersionStatus, lock : Nat] /\ exec[v] \in Executions
      /\ version[v].lock + 1 \in Nat /\ exec[v].fence + 1 \in Nat
  BY RowFacts DEF Executions
<1>5. ASSUME UNCHANGED <<instance, tasks, intents>>
      PROVE  InstancesOK' /\ TasksOK' /\ StartedOK'
  <2>1. \A w \in Versions : InstanceIsWhole(instance[w])'
    BY <1>1, <1>2, <1>5 DEF AllOK, InstancesOK, InstanceIsWhole
  <2> QED  BY <1>1, <1>3, <1>5, <2>1 DEF AllOK, InstancesOK, TasksOK, StartedOK
<1>6. CASE Prepare(v)
  <2>1. RestOK'
    BY <1>1, <1>4, <1>6 DEF Prepare, AllOK, RestOK, VersionStatus, Executions, ExecStatus
  <2> QED  BY <1>5, <1>6, <2>1 DEF Prepare, AllOK
<1>7. CASE Block(v)
  <2>1. RestOK'
    BY <1>1, <1>4, <1>7 DEF Block, AllOK, RestOK, VersionStatus, Executions, ExecStatus
  <2> QED  BY <1>5, <1>7, <2>1 DEF Block, AllOK
<1>8. CASE MarkRunning(v)
  <2>1. RestOK'
    BY <1>1, <1>4, <1>8 DEF MarkRunning, AllOK, RestOK, Executions, ExecStatus
  <2> QED  BY <1>5, <1>8, <2>1 DEF MarkRunning, AllOK
<1>9. ASSUME NEW outcome \in {"Succeeded", "Failed", "PartialFailed"}, NodesEnd(v, outcome)
      PROVE  AllOK'
  <2>1. RestOK'
    BY <1>1, <1>4, <1>9 DEF NodesEnd, AllOK, RestOK, Executions, Outcomes
  <2> QED  BY <1>5, <1>9, <2>1 DEF NodesEnd, AllOK
<1>10. CASE Complete(v)
  <2>1. UNCHANGED <<document, tasks, intents>> /\ exec[v].outcome # None
        /\ version' = [version EXCEPT ![v] = [status |-> exec[v].outcome, lock |-> version[v].lock + 1]]
        /\ exec' = [exec EXCEPT ![v] = [status |-> exec[v].outcome, outcome |-> None, fence |-> exec[v].fence + 1]]
    BY <1>10 DEF Complete
  <2>2. InstancesOK' /\ \A w \in Versions : instance[w].status # None => instance'[w].status # None
    <3>1. PICK row \in Instance : InstanceIsWhole(row) /\ row.status # None
                                   /\ instance' = [instance EXCEPT ![v] = row]
      BY <1>10, CompleteEffect
    <3> QED  BY <1>2, <3>1, InstanceSet
  <2>3. TasksOK' /\ StartedOK'
    BY <1>1, <1>3, <2>1, <2>2 DEF AllOK, TasksOK, StartedOK
  <2>4. RestOK'
    <3>1. exec[v].outcome \in {"Succeeded", "Failed", "PartialFailed"}
      BY <1>4, <2>1 DEF Executions, Outcomes
    <3> QED  BY <1>1, <1>4, <2>1, <3>1 DEF AllOK, RestOK, VersionStatus, Executions, ExecStatus, Outcomes
  <2> QED  BY <2>2, <2>3, <2>4 DEF AllOK
<1>11. CASE NewCandidate(v)
  <2>1. RestOK'
    BY <1>1, <1>4, <1>11 DEF NewCandidate, AllOK, RestOK, VersionStatus
  <2> QED  BY <1>11, <2>1, SupersededEffect DEF AllOK
<1> QED  BY <1>6, <1>7, <1>8, <1>9, <1>10, <1>11 DEF DeploymentWorker

-----------------------------------------------------------------------------
(* What a step does to a version *)

(* The instance moves under a new lock, or keeps its state and its reviews *)
(* except that they may be closed.                                         *)
Moves(v) ==
  /\ instance'[v].lock > instance[v].lock /\ instance'[v].status # None

Keeps(v) ==
  /\ instance'[v].lock = instance[v].lock /\ instance'[v].state = instance[v].state
  /\ instance[v].status # None => instance'[v].status # None
  /\ Len(tasks'[v]) = Len(tasks[v])
  /\ \A i \in 1..Len(tasks[v]) : tasks'[v][i] \in {tasks[v][i], Closed(tasks[v][i])}

(* Whatever changes the state or the decisions of a version's workflow     *)
(* advances the lock of its instance.                                      *)
LEMMA LockSteps ==
  ASSUME TypeIInv, CommandsIInv, [Next]_vars, NEW v \in Versions
  PROVE  Moves(v) \/ Keeps(v)
<1>1. ASSUME instance'[v] = instance[v], tasks'[v] = tasks[v]
      PROVE  Keeps(v)
  BY <1>1 DEF Keeps
<1>2. instance \in [Versions -> Instance] /\ tasks \in [Versions -> Seq(Task)] /\ document \in Documents
      /\ cmd \in [Processes -> Commands]
  BY DEF TypeIInv
<1>3. instance[v].lock \in Nat /\ (instance[v].status = None => instance[v] = NoInstance)
  BY RowFacts DEF Instance, InstanceIsWhole
<1>4. ASSUME NEW w \in Versions, NEW row \in Instance, row.status # None, row.lock > instance[w].lock,
             instance' = [instance EXCEPT ![w] = row], \A x \in Versions \ {w} : tasks'[x] = tasks[x]
      PROVE  Moves(v) \/ Keeps(v)
  BY <1>1, <1>2, <1>4 DEF Moves
<1>5. ASSUME NEW w \in Versions, NEW state \in DOMAIN document.type, NEW lock \in Nat, NEW list \in Seq(Task),
             Arrives(w, state, lock, list), lock > instance[w].lock
      PROVE  Moves(v) \/ Keeps(v)
  <2>1. /\ Arrived(state, lock) \in Instance /\ Arrived(state, lock).status # None
        /\ Arrived(state, lock).lock = lock
    BY ArrivedShape DEF None
  <2>2. instance' = [instance EXCEPT ![w] = Arrived(state, lock)]
        /\ \A x \in Versions \ {w} : tasks'[x] = tasks[x]
    BY <1>2, <1>5 DEF Arrives, OpenReview
  <2> QED  BY <1>4, <1>5, <2>1, <2>2
<1>6. ASSUME NEW c \in Processes, Apply(c)
      PROVE  Moves(v) \/ Keeps(v)
  <2>1. cmd[c] \in Commands /\ cmd[c].kind # "idle"
    <3>1. cmd[c] \in Commands /\ cmd[c] # Idle
      BY <1>2, <1>6 DEF Apply
    <3> QED  BY <3>1, CommandFacts
  <2>2. CASE cmd[c].kind = "start"
    <3>1. cmd[c].v \in Versions /\ instance[cmd[c].v] = NoInstance
          /\ Arrives(cmd[c].v, document.initial, 1, tasks[cmd[c].v])
      BY <1>6, <2>2, StartEffect
    <3>2. document.initial \in DOMAIN document.type /\ tasks[cmd[c].v] \in Seq(Task)
      BY <1>2, <3>1, DocumentFacts
    <3>3. instance[cmd[c].v].lock = 0
      BY <3>1 DEF NoInstance
    <3> QED  BY <1>5, <3>1, <3>2, <3>3
  <2>3. CASE cmd[c].kind = "transition"
    <3>1. /\ cmd[c].v \in Versions /\ cmd[c].lock \in Nat /\ cmd[c].lock = instance[cmd[c].v].lock
          /\ cmd[c].edge \in Edges
          /\ Arrives(cmd[c].v, cmd[c].edge.to, cmd[c].lock + 1, ReviewsLeft(cmd[c].v, cmd[c].edge.from))
      BY <1>6, <2>3, TransitionEffect
    <3>2. cmd[c].edge.to \in DOMAIN document.type
          /\ ReviewsLeft(cmd[c].v, cmd[c].edge.from) \in Seq(Task)
      BY <1>2, <3>1, DocumentFacts, ReviewsLeftShape
    <3>3. cmd[c].lock + 1 \in Nat /\ cmd[c].lock + 1 > instance[cmd[c].v].lock
      BY <3>1
    <3> QED  BY <1>5, <3>1, <3>2, <3>3
  <2>4. CASE cmd[c].kind = "review"
    <3> DEFINE w == cmd[c].v
               next == DecidedList(tasks[w], cmd[c].stage, cmd[c].by, cmd[c].decision, cmd[c].status)
    <3>1. /\ w \in Versions /\ cmd[c].lock \in Nat /\ cmd[c].lock = instance[w].lock
          /\ cmd[c].stage \in 1..Len(tasks[w]) /\ instance[w].status # None
          /\ cmd[c].by \in Users /\ cmd[c].decision \in {"Approve", "Reject"} /\ cmd[c].status \in TaskStatus
      BY <1>6, <2>4, ReviewEffect
    <3>2. \/ /\ instance' = [instance EXCEPT ![w].lock = cmd[c].lock + 1]
             /\ tasks' = [tasks EXCEPT ![w] = next]
          \/ \E edge \in Edges : Arrives(w, edge.to, cmd[c].lock + 1, next)
      BY <1>6, <2>4, ReviewEffect
    <3>3. next \in Seq(Task)
      BY <1>2, <3>1, DecidedListShape
    <3> HIDE DEF next
    <3>4. ASSUME NEW edge \in Edges, Arrives(w, edge.to, cmd[c].lock + 1, next) PROVE Moves(v) \/ Keeps(v)
      <4>1. edge.to \in DOMAIN document.type /\ cmd[c].lock + 1 \in Nat /\ cmd[c].lock + 1 > instance[w].lock
        BY <1>2, <3>1, DocumentFacts
      <4> QED  BY <1>5, <3>1, <3>3, <3>4, <4>1
    <3>5. ASSUME instance' = [instance EXCEPT ![w].lock = cmd[c].lock + 1],
                 tasks' = [tasks EXCEPT ![w] = next]
          PROVE  Moves(v) \/ Keeps(v)
      BY <1>1, <1>2, <3>1, <3>5 DEF Moves, Instance
    <3> QED  BY <3>2, <3>4, <3>5
  <2>5. CASE cmd[c].kind = "reassignment"
    <3>1. /\ cmd[c].v \in Versions /\ cmd[c].lock \in Nat /\ cmd[c].lock = instance[cmd[c].v].lock
          /\ instance[cmd[c].v].status # None
          /\ instance' = [instance EXCEPT ![cmd[c].v].lock = cmd[c].lock + 1]
          /\ \E list : tasks' = [tasks EXCEPT ![cmd[c].v] = list]
      BY <1>6, <2>5, ReassignmentEffect
    <3> QED  BY <1>1, <1>2, <3>1 DEF Moves, Instance
  <2>6. CASE cmd[c].kind \in {"retry", "terminate"}
    <3>1. /\ cmd[c].v \in Versions /\ cmd[c].lock \in Nat /\ cmd[c].lock = instance[cmd[c].v].lock
          /\ cmd[c].edge \in Edges /\ tasks' = tasks
          /\ instance' = [instance EXCEPT ![cmd[c].v] = Arrived(cmd[c].edge.to, cmd[c].lock + 1)]
      BY <1>6, <2>6, ExecutionEffect
    <3>2. cmd[c].edge.to \in DOMAIN document.type /\ cmd[c].lock + 1 \in Nat
          /\ cmd[c].lock + 1 > instance[cmd[c].v].lock
      BY <1>2, <3>1, DocumentFacts
    <3> DEFINE row == Arrived(cmd[c].edge.to, cmd[c].lock + 1)
    <3>3. row \in Instance /\ row.status # None /\ row.lock = cmd[c].lock + 1
      BY <3>2, ArrivedShape DEF None
    <3>4. instance' = [instance EXCEPT ![cmd[c].v] = row]
      BY <3>1
    <3> HIDE DEF row
    <3> QED  BY <1>4, <3>1, <3>2, <3>3, <3>4
  <2> QED  BY <2>1, <2>2, <2>3, <2>4, <2>5, <2>6, CommandFacts
<1>7. ASSUME NEW w \in Versions, Complete(w)
      PROVE  Moves(v) \/ Keeps(v)
  <2>1. PICK row \in Instance : /\ row.status # None /\ row.lock = instance[w].lock + 1
                                /\ instance' = [instance EXCEPT ![w] = row]
    BY <1>7, CompleteEffect
  <2>2. tasks' = tasks /\ row.lock > instance[w].lock
    <3>1. instance[w].lock \in Nat
      BY RowFacts DEF Instance
    <3> QED  BY <1>7, <2>1, <3>1 DEF Complete
  <2> QED  BY <1>4, <2>1, <2>2
<1>8. ASSUME NEW w \in Versions, NewCandidate(w)
      PROVE  Moves(v) \/ Keeps(v)
  <2>1. CASE v = w
    BY <1>8, <2>1, SupersededEffect DEF Keeps
  <2>2. CASE v # w
    BY <1>1, <1>8, <2>2, SupersededEffect
  <2> QED  BY <2>1, <2>2
<1>9. ASSUME NEW w \in Versions, DeploymentWorker(w), ~Complete(w)
      PROVE  Moves(v) \/ Keeps(v)
  BY <1>1, <1>9 DEF DeploymentWorker, Prepare, Block, MarkRunning, NodesEnd
<1>10. ASSUME NEW c \in Processes, Loads(c) \/ Conflict(c)
       PROVE  Moves(v) \/ Keeps(v)
  BY <1>1, <1>10, LoadedStand DEF Rows, Conflict
<1>11. CASE UNCHANGED vars
  BY <1>1, <1>11 DEF vars
<1> QED  BY <1>6, <1>7, <1>8, <1>9, <1>10, <1>11, StepCases

(* A version never becomes a version that does not exist. *)
LEMMA VersionsStay ==
  ASSUME TypeIInv, CommandsIInv, [Next]_vars, NEW v \in Versions, version[v].status # None
  PROVE  version'[v].status # None
<1>1. version \in [Versions -> [status : VersionStatus, lock : Nat]] /\ cmd \in [Processes -> Commands]
  BY DEF TypeIInv
<1>2. ASSUME NEW c \in Processes, Apply(c)
      PROVE  version'[v].status # None
  <2>1. cmd[c] \in Commands /\ cmd[c].kind # "idle"
    <3>1. cmd[c] \in Commands /\ cmd[c] # Idle
      BY <1>1, <1>2 DEF Apply
    <3> QED  BY <3>1, CommandFacts
  <2>2. CASE cmd[c].kind = "start"
    BY <1>2, <2>2, StartEffect
  <2>3. CASE cmd[c].kind \in {"transition", "review", "reassignment"}
    <3>1. AdvanceVersion(cmd[c].v, cmd[c].lock)
      BY <1>2, <2>3, TransitionEffect, ReviewEffect, ReassignmentEffect
    <3> QED  BY <1>1, <3>1 DEF AdvanceVersion
  <2>4. CASE cmd[c].kind \in {"retry", "terminate"}
    <3>1. \E lock : version' = [version EXCEPT ![cmd[c].v] =
            [status |-> IF cmd[c].kind = "retry" THEN "Deploying" ELSE "Terminated", lock |-> lock]]
      BY <1>2, <2>4, ExecutionEffect
    <3> QED  BY <1>1, <3>1 DEF None
  <2> QED  BY <2>1, <2>2, <2>3, <2>4, CommandFacts
<1>3. ASSUME NEW w \in Versions, DeploymentWorker(w)
      PROVE  version'[v].status # None
  BY <1>1, <1>3 DEF DeploymentWorker, Prepare, Block, MarkRunning, NodesEnd, Complete, None
<1>4. ASSUME NEW w \in Versions, NewCandidate(w)
      PROVE  version'[v].status # None
  BY <1>1, <1>4 DEF NewCandidate, None
<1>5. ASSUME NEW c \in Processes, Loads(c) \/ Conflict(c)
      PROVE  version'[v].status # None
  BY <1>5, LoadedStand DEF Rows, Conflict
<1>6. CASE UNCHANGED vars
  BY <1>6 DEF vars
<1> QED  BY <1>2, <1>3, <1>4, <1>5, <1>6, StepCases

(* Every step leaves the rows and the pending commands well formed. *)
LEMMA TypeStep ==
  ASSUME TypeIInv, CommandsIInv, [Next]_vars
  PROVE  TypeIInv'
<1>1. document' = document /\ document \in Documents
  BY DocumentStays DEF TypeIInv
<1>2. cmd' \in [Processes -> Commands]
  BY PendingTypes
<1>3. AllOK
  BY DEF TypeIInv, AllOK, InstancesOK, TasksOK, StartedOK, RestOK
<1>4. ASSUME UNCHANGED Rows PROVE AllOK'
  <2>1. Task' = Task /\ Instance' = Instance
    BY <1>1 DEF Task, Instance
  <2>2. \A w \in Versions : InstanceIsWhole(instance[w])'
    BY <1>3, <1>4 DEF AllOK, InstancesOK, InstanceIsWhole, Rows
  <2> QED  BY <1>3, <1>4, <2>1, <2>2 DEF AllOK, InstancesOK, TasksOK, StartedOK, RestOK, Rows
<1>5. AllOK'
  <2>1. ASSUME NEW c \in Processes, Loads(c) \/ Conflict(c) PROVE UNCHANGED Rows
    BY <2>1, LoadedStand DEF Conflict, Rows
  <2>2. UNCHANGED vars => UNCHANGED Rows
    BY DEF vars, Rows
  <2> QED  BY <1>4, <2>1, <2>2, ApplyTypes, WorkerTypes, StepCases
<1>6. (cmd \in [Processes -> Commands])'
  <2>1. Edges' = Edges
    BY <1>1 DEF Edges
  <2>2. Commands' = Commands
    BY <2>1 DEF Commands, StartCommands, TransitionCommands, ReviewCommands, ReassignmentCommands, ExecutionCommands
  <2> QED  BY <1>2, <2>2
<1> QED  BY <1>1, <1>5, <1>6 DEF TypeIInv, AllOK, InstancesOK, TasksOK, StartedOK, RestOK

(* A review that keeps waiting, or stays approved, is the one it was. *)
LEMMA KeptReviews ==
  ASSUME TypeIInv, NEW v \in Versions, Keeps(v), NEW i \in 1..Len(tasks[v])
  PROVE  /\ tasks'[v][i].status = "Pending" => tasks'[v][i] = tasks[v][i]
         /\ tasks[v][i].status # "Pending" => tasks'[v][i] = tasks[v][i]
         /\ tasks'[v][i].status # "Pending" => \/ tasks'[v][i] = tasks[v][i]
                                               \/ tasks'[v][i] = [tasks[v][i] EXCEPT !.status = "Closed"]
<1>1. tasks[v][i] \in Task
  BY RowFacts
<1>2. tasks'[v][i] \in {tasks[v][i], Closed(tasks[v][i])}
  BY DEF Keeps
<1> QED  BY <1>1, <1>2, ClosedShape

(* A command goes on standing. *)
LEMMA StandsOn ==
  ASSUME TypeIInv, CommandsIInv, [Next]_vars, NEW m \in Commands, Stands(m)
  PROVE  Stands(m)'
<1>1. m.kind = "start" => version'[m.v].status # None
  BY CommandFacts, VersionsStay DEF Stands
<1>2. CASE m.kind \in {"idle", "start"}
  BY <1>1, <1>2 DEF Stands
<1>3. CASE m.kind \notin {"idle", "start"}
  <2>1. m.v \in Versions /\ m.lock \in Nat
    BY <1>3, CommandFacts
  <2>2. Proper(m) /\ m.lock <= instance[m.v].lock /\ instance[m.v].status # None
        /\ (m.lock = instance[m.v].lock => AsLoaded(m))
    BY <1>3 DEF Stands
  <2>3. instance[m.v].lock \in Nat
    BY <2>1, RowFacts DEF Instance
  <2>4. instance'[m.v].lock \in Nat
    BY <2>1, TypeStep DEF TypeIInv, Instance
  <2>5. Proper(m)'
    BY <2>2 DEF Proper
  <2>6. CASE Moves(m.v)
    <3>1. m.lock <= instance'[m.v].lock /\ m.lock # instance'[m.v].lock /\ instance'[m.v].status # None
      BY <2>1, <2>2, <2>3, <2>4, <2>6 DEF Moves
    <3> QED  BY <1>3, <2>5, <3>1 DEF Stands
  <2>7. CASE Keeps(m.v)
    <3>1. m.lock <= instance'[m.v].lock /\ instance'[m.v].status # None
          /\ instance'[m.v].lock = instance[m.v].lock
      BY <2>2, <2>7 DEF Keeps
    <3>2. ASSUME m.lock = instance[m.v].lock PROVE AsLoaded(m)'
      <4>1. AsLoaded(m)
        BY <2>2, <3>2
      <4>2. instance'[m.v].state = instance[m.v].state /\ Len(tasks'[m.v]) = Len(tasks[m.v])
        BY <2>7 DEF Keeps
      <4>3. Approval(m.v) => Approval(m.v)'
        <5>1. SUFFICES ASSUME Approval(m.v) PROVE Approval(m.v)'
          OBVIOUS
        <5>2. Len(tasks[m.v]) \in 1..Len(tasks[m.v]) /\ tasks[m.v][Len(tasks[m.v])].status = "Approved"
          BY <2>1, <5>1, RowFacts, CurrentFacts DEF Approval
        <5>3. tasks'[m.v][Len(tasks'[m.v])].status = "Approved"
          BY <2>1, <2>7, <4>2, <5>2, KeptReviews
        <5>4. tasks'[m.v] # <<>>
          BY <4>2, <5>2
        <5> QED  BY <5>3, <5>4 DEF Approval, HasReview, CurrentReview
      <4>4. ASSUME m.kind = "review", tasks'[m.v][m.stage].status = "Pending"
            PROVE  m.status = NextStatus(With(tasks'[m.v][m.stage], m.by, m.decision))
        <5>1. m.stage \in 1..Len(tasks[m.v])
          BY <4>1, <4>4, <2>1, CommandFacts, RowFacts DEF AsLoaded
        <5>2. tasks'[m.v][m.stage] = tasks[m.v][m.stage]
          BY <2>1, <2>7, <4>4, <5>1, KeptReviews
        <5> QED  BY <4>1, <4>4, <5>2 DEF AsLoaded
      <4> QED  BY <4>1, <4>2, <4>3, <4>4 DEF AsLoaded
    <3> QED  BY <1>3, <2>5, <3>1, <3>2 DEF Stands
  <2> QED  BY <2>1, <2>6, <2>7, LockSteps
<1> QED  BY <1>2, <1>3

(* Every pending command goes on standing. *)
LEMMA CommandsStand ==
  ASSUME TypeIInv, CommandsIInv, [Next]_vars
  PROVE  CommandsIInv'
<1>1. SUFFICES ASSUME NEW c \in Processes PROVE Stands(cmd[c])'
  BY DEF CommandsIInv
<1>2. cmd \in [Processes -> Commands] /\ Idle \in Commands
  BY DEF TypeIInv, Commands
<1>3. ASSUME cmd'[c] = cmd[c] PROVE Stands(cmd[c])'
  <2>1. PICK m \in Commands : m = cmd[c]
    BY <1>2
  <2>2. Stands(m)'
    BY <2>1, StandsOn DEF CommandsIInv
  <2>3. m = cmd'[c]
    BY <1>3, <2>1
  <2> QED  BY <2>2, <2>3 DEF Stands, Proper, AsLoaded
<1>4. ASSUME cmd'[c] = Idle PROVE Stands(cmd[c])'
  BY <1>4 DEF Stands, Idle
<1>5. ASSUME NEW d \in Processes, Loads(d) PROVE Stands(cmd[c])'
  <2>1. PICK m \in Commands : cmd' = [cmd EXCEPT ![d] = m] /\ Stands(m)
    BY <1>5, LoadedStand
  <2>2. CASE c = d
    <3>1. Stands(m)'
      BY <2>1, StandsOn
    <3>2. m = cmd'[c]
      BY <1>2, <2>1, <2>2
    <3> QED  BY <3>1, <3>2 DEF Stands, Proper, AsLoaded
  <2>3. CASE c # d
    BY <1>2, <1>3, <2>1, <2>3
  <2> QED  BY <2>2, <2>3
<1>6. ASSUME NEW d \in Processes, Conflict(d) \/ Apply(d) PROVE Stands(cmd[c])'
  <2>1. cmd' = [cmd EXCEPT ![d] = Idle]
    BY <1>6 DEF Conflict, Apply
  <2> QED  BY <1>2, <1>3, <1>4, <2>1
<1>7. ASSUME NEW v \in Versions, DeploymentWorker(v) \/ NewCandidate(v) PROVE Stands(cmd[c])'
  BY <1>3, <1>7 DEF DeploymentWorker, Prepare, Block, MarkRunning, NodesEnd, Complete, NewCandidate
<1>8. CASE UNCHANGED vars
  BY <1>3, <1>8 DEF vars
<1> QED  BY <1>5, <1>6, <1>7, <1>8, StepCases

-----------------------------------------------------------------------------
(* Versions, instances and executions *)

(* The rows of a version that a step leaves alone. *)
Untouched(v) ==
  /\ version'[v] = version[v] /\ instance'[v] = instance[v]
  /\ tasks'[v] = tasks[v] /\ exec'[v] = exec[v] /\ intents'[v] = intents[v]

(* What a step of a process or a worker on one version leaves alone: the   *)
(* rows of the others.                                                     *)
LEMMA OthersUntouched ==
  ASSUME TypeIInv, CommandsIInv, NEW w \in Versions
  PROVE  /\ \A c \in Processes : Apply(c) => cmd[c].v \in Versions /\ (w # cmd[c].v => Untouched(w))
         /\ \A v \in Versions : DeploymentWorker(v) /\ w # v => Untouched(w)
         /\ \A v \in Versions : NewCandidate(v) /\ w # v /\ w # v + 1 => Untouched(w)
<1>1. /\ instance \in [Versions -> Instance] /\ tasks \in [Versions -> Seq(Task)] /\ document \in Documents
      /\ cmd \in [Processes -> Commands] /\ exec \in [Versions -> Executions] /\ intents \in [Versions -> Nat]
      /\ version \in [Versions -> [status : VersionStatus, lock : Nat]]
  BY DEF TypeIInv
<1>2. ASSUME NEW c \in Processes, Apply(c)
      PROVE  cmd[c].v \in Versions /\ (w # cmd[c].v => Untouched(w))
  <2>1. cmd[c] \in Commands /\ cmd[c].kind # "idle"
    <3>1. cmd[c] \in Commands /\ cmd[c] # Idle
      BY <1>1, <1>2 DEF Apply
    <3> QED  BY <3>1, CommandFacts
  <2>2. cmd[c].v \in Versions
    BY <2>1, CommandFacts
  <2>3. CASE cmd[c].kind = "start"
    <3>1. Arrives(cmd[c].v, document.initial, 1, tasks[cmd[c].v]) /\ UNCHANGED <<version, exec>>
      BY <1>2, <2>3, StartEffect
    <3> QED  BY <1>1, <2>2, <3>1 DEF Arrives, OpenReview, RecordIntent, Untouched
  <2>4. CASE cmd[c].kind = "transition"
    <3>1. Arrives(cmd[c].v, cmd[c].edge.to, cmd[c].lock + 1, ReviewsLeft(cmd[c].v, cmd[c].edge.from))
          /\ AdvanceVersion(cmd[c].v, cmd[c].lock) /\ exec' = exec
      BY <1>2, <2>4, TransitionEffect
    <3> QED  BY <1>1, <2>2, <3>1 DEF Arrives, OpenReview, RecordIntent, Untouched, AdvanceVersion
  <2>5. CASE cmd[c].kind = "review"
    <3>1. AdvanceVersion(cmd[c].v, cmd[c].lock) /\ exec' = exec
      BY <1>2, <2>5, ReviewEffect
    <3> DEFINE list == DecidedList(tasks[cmd[c].v], cmd[c].stage, cmd[c].by, cmd[c].decision, cmd[c].status)
    <3>2. \/ /\ instance' = [instance EXCEPT ![cmd[c].v].lock = cmd[c].lock + 1]
             /\ tasks' = [tasks EXCEPT ![cmd[c].v] = list]
             /\ intents' = intents
          \/ \E edge \in Edges : Arrives(cmd[c].v, edge.to, cmd[c].lock + 1, list)
      BY <1>2, <2>5, ReviewEffect
    <3> HIDE DEF list
    <3> QED  BY <1>1, <2>2, <3>1, <3>2 DEF Arrives, OpenReview, RecordIntent, Untouched, AdvanceVersion
  <2>6. CASE cmd[c].kind = "reassignment"
    <3>1. /\ AdvanceVersion(cmd[c].v, cmd[c].lock) /\ UNCHANGED <<intents, exec>>
          /\ instance' = [instance EXCEPT ![cmd[c].v].lock = cmd[c].lock + 1]
          /\ \E list : tasks' = [tasks EXCEPT ![cmd[c].v] = list]
      BY <1>2, <2>6, ReassignmentEffect
    <3> QED  BY <1>1, <2>2, <3>1 DEF Untouched, AdvanceVersion
  <2>7. CASE cmd[c].kind \in {"retry", "terminate"}
    <3>1. /\ \E row : instance' = [instance EXCEPT ![cmd[c].v] = row]
          /\ \E row : version' = [version EXCEPT ![cmd[c].v] = row]
          /\ \E row : exec' = [exec EXCEPT ![cmd[c].v] = row]
          /\ UNCHANGED <<tasks, intents>>
      BY <1>2, <2>7, ExecutionEffect
    <3> QED  BY <1>1, <2>2, <3>1 DEF Untouched
  <2> QED  BY <2>1, <2>2, <2>3, <2>4, <2>5, <2>6, <2>7, CommandFacts
<1>3. ASSUME NEW v \in Versions, DeploymentWorker(v), w # v
      PROVE  Untouched(w)
  BY <1>1, <1>3 DEF DeploymentWorker, Prepare, Block, MarkRunning, NodesEnd, Complete, Untouched
<1>4. ASSUME NEW v \in Versions, NewCandidate(v), w # v, w # v + 1
      PROVE  Untouched(w)
  BY <1>1, <1>4 DEF NewCandidate, Untouched
<1> QED  BY <1>2, <1>3, <1>4

(* A written command keeps the executions of the versions right. *)
LEMMA ApplyExecutions ==
  ASSUME TypeIInv, CommandsIInv, ExecIInv, NEW c \in Processes, Apply(c)
  PROVE  ExecIInv'
<1>0. cmd[c].kind # "idle" /\ cmd[c] \in Commands /\ cmd[c].v \in Versions
  <2>1. cmd[c] \in Commands /\ cmd[c] # Idle
    BY DEF Apply, TypeIInv
  <2> QED  BY <2>1, CommandFacts
<1>1. PICK v \in Versions : v = cmd[c].v /\ \A w \in Versions : w # v => Untouched(w)
  BY <1>0, OthersUntouched
<1>2. /\ version[v] \in [status : VersionStatus, lock : Nat] /\ instance[v] \in Instance
      /\ InstanceIsWhole(instance[v]) /\ ExecutionOK(v) /\ document \in Documents
  BY <1>1, RowFacts DEF ExecIInv, TypeIInv
<1>3. instance[v].lock \in Nat /\ version[v].lock \in Nat
  BY <1>2 DEF Instance
<1>4. version \in [Versions -> [status : VersionStatus, lock : Nat]] /\ instance \in [Versions -> Instance]
      /\ exec \in [Versions -> Executions]
  BY DEF TypeIInv
<1>6. CASE cmd[c].kind = "start"
  <2>1. /\ version[v].status # None /\ UNCHANGED <<version, exec>>
        /\ instance' = [instance EXCEPT ![v] = Arrived(document.initial, 1)] /\ instance[v] = NoInstance
    BY <1>1, <1>6, StartEffect DEF Arrives
  <2>2. Arrived(document.initial, 1).lock = 1 /\ Arrived(document.initial, 1).status # None
    BY <1>2, DocumentFacts, ArrivedShape DEF None
  <2>3. instance'[v].lock = 1 /\ exec[v].status = None /\ version[v].lock >= 1
    BY <1>1, <1>2, <1>3, <1>4, <2>1, <2>2 DEF ExecutionOK, NoInstance
  <2>4. ExecutionOK(v)'
    BY <1>2, <2>1, <2>3 DEF ExecutionOK
  <2> QED  BY <1>1, <2>4 DEF ExecIInv, ExecutionOK, Untouched
<1>7. CASE cmd[c].kind \in {"transition", "review", "reassignment"}
  <2>1. AdvanceVersion(v, cmd[c].lock) /\ cmd[c].lock = instance[v].lock /\ exec' = exec
        /\ Accepts(v, cmd[c].lock)
    BY <1>1, <1>7, TransitionEffect, ReviewEffect, ReassignmentEffect
  <2>2. instance[v].status # None
    <3>1. InstanceAccepts(v, cmd[c].lock) /\ cmd[c] # Idle /\ cmd[c].kind # "start"
      BY <1>7, <2>1 DEF Accepts, Apply
    <3> QED  BY <1>1, <3>1, FreshCommand
  <2>3. instance'[v].lock = cmd[c].lock + 1
    <3>1. CASE cmd[c].kind = "transition"
      <4>1. cmd[c].edge \in Edges
            /\ instance' = [instance EXCEPT ![v] = Arrived(cmd[c].edge.to, cmd[c].lock + 1)]
        BY <1>1, <3>1, TransitionEffect DEF Arrives
      <4>2. Arrived(cmd[c].edge.to, cmd[c].lock + 1).lock = cmd[c].lock + 1
        BY DEF Arrived
      <4> QED  BY <1>1, <1>4, <4>1, <4>2
    <3>2. CASE cmd[c].kind = "review"
      <4>1. \/ instance' = [instance EXCEPT ![v].lock = cmd[c].lock + 1]
            \/ \E edge \in Edges : instance' = [instance EXCEPT ![v] = Arrived(edge.to, cmd[c].lock + 1)]
        BY <1>1, <3>2, ReviewEffect DEF Arrives
      <4>2. \A edge \in Edges : Arrived(edge.to, cmd[c].lock + 1).lock = cmd[c].lock + 1
        BY DEF Arrived
      <4> QED  BY <1>1, <1>4, <4>1, <4>2 DEF Instance
    <3>3. CASE cmd[c].kind = "reassignment"
      <4>1. instance' = [instance EXCEPT ![v].lock = cmd[c].lock + 1]
        BY <1>1, <3>3, ReassignmentEffect
      <4> QED  BY <1>1, <1>4, <4>1 DEF Instance
    <3> QED  BY <1>7, <3>1, <3>2, <3>3
  <2>4. version[v].lock = instance[v].lock /\ exec[v].status = None
    BY <1>2, <1>3, <2>1 DEF Accepts, VersionAccepts, ExecutionOK
  <2>5. version'[v].lock = cmd[c].lock + 1 /\ version'[v].status = version[v].status
    BY <1>1, <1>4, <2>1 DEF AdvanceVersion
  <2>6. ExecutionOK(v)'
    BY <1>2, <1>3, <2>1, <2>2, <2>3, <2>4, <2>5 DEF ExecutionOK
  <2> QED  BY <1>1, <2>6 DEF ExecIInv, ExecutionOK, Untouched
<1>8. CASE cmd[c].kind \in {"retry", "terminate"}
  <2> DEFINE retry == cmd[c].kind = "retry"
  <2>1. /\ cmd[c].lock = instance[v].lock /\ instance[v].status # None
        /\ instance' = [instance EXCEPT ![v] = Arrived(cmd[c].edge.to, cmd[c].lock + 1)]
        /\ \/ retry /\ version[v].status \in {"Failed", "PartialFailed"}
           \/ ~retry /\ exec[v].status \in {"Running", "PartialFailed"}
        /\ version' = [version EXCEPT ![v] = [status |-> IF retry THEN "Deploying" ELSE "Terminated",
                                             lock |-> version[v].lock + 1]]
        /\ exec' = [exec EXCEPT ![v] = [status |-> IF retry THEN "Preflight" ELSE "Terminated",
                                       outcome |-> None, fence |-> exec[v].fence + 1]]
    BY <1>1, <1>8, ExecutionEffect
  <2>2. Arrived(cmd[c].edge.to, cmd[c].lock + 1).lock = cmd[c].lock + 1
        /\ Arrived(cmd[c].edge.to, cmd[c].lock + 1).status \in {"Running", "Completed"}
    BY DEF Arrived
  <2>3. instance'[v].lock = instance[v].lock + 1 /\ instance'[v].status # None
    BY <1>1, <1>4, <2>1, <2>2 DEF None
  <2>4. version'[v].lock = version[v].lock + 1
        /\ version'[v].status = (IF retry THEN "Deploying" ELSE "Terminated")
        /\ exec'[v].status = (IF retry THEN "Preflight" ELSE "Terminated")
    BY <1>1, <1>4, <2>1
  <2>5. exec[v].status # None
    BY <1>2, <2>1 DEF ExecutionOK, None
  <2>6. instance[v].lock < version[v].lock
    BY <1>2, <2>5 DEF ExecutionOK
  <2>7. ExecutionOK(v)'
    BY <1>3, <2>3, <2>4, <2>6 DEF ExecutionOK, None
  <2> QED  BY <1>1, <2>7 DEF ExecIInv, ExecutionOK, Untouched
<1> QED  BY <1>0, <1>6, <1>7, <1>8, CommandFacts

(* So do the deployment worker and a new candidate. *)
LEMMA WorkerExecutions ==
  ASSUME TypeIInv, CommandsIInv, ExecIInv, NEW v \in Versions, DeploymentWorker(v) \/ NewCandidate(v)
  PROVE  ExecIInv'
<1>1. \A w \in Versions : version[w].lock \in Nat /\ instance[w].lock \in Nat /\ exec[w] \in Executions
        /\ instance[w] \in Instance /\ InstanceIsWhole(instance[w])
  BY RowFacts DEF Instance
<1>2. version \in [Versions -> [status : VersionStatus, lock : Nat]] /\ instance \in [Versions -> Instance]
      /\ exec \in [Versions -> Executions]
      /\ \A w \in Versions : intents[w] > 0 => instance[w].status # None
  BY DEF TypeIInv
<1>3. \A w \in Versions : ExecutionOK(w)
  BY DEF ExecIInv
<1>4. CASE DeploymentWorker(v)
  <2>1. \A w \in Versions : w # v => Untouched(w)
    BY <1>4, OthersUntouched
  <2>2. CASE Prepare(v)
    <3>1. /\ version'[v].status = "Deploying" /\ version'[v].lock = version[v].lock + 1
          /\ exec'[v].status = "Preflight" /\ instance' = instance /\ instance[v].status # None
      BY <1>2, <2>2 DEF Prepare, Executions
    <3>2. ExecutionOK(v)'
      BY <1>1, <1>3, <3>1 DEF ExecutionOK, None
    <3> QED  BY <2>1, <3>2 DEF ExecIInv, ExecutionOK, Untouched
  <2>3. CASE Block(v)
    <3>1. /\ version'[v].status = "Superseded" /\ version'[v].lock = version[v].lock + 1
          /\ exec'[v].status = "Blocked" /\ instance' = instance /\ exec[v].status = "Preflight"
      BY <1>2, <2>3 DEF Block, Executions
    <3>2. ExecutionOK(v)'
      BY <1>1, <1>3, <3>1 DEF ExecutionOK, None
    <3> QED  BY <2>1, <3>2 DEF ExecIInv, ExecutionOK, Untouched
  <2>4. CASE MarkRunning(v)
    <3>1. exec[v].status = "Preflight" /\ exec'[v].status = "Running" /\ UNCHANGED <<version, instance>>
      BY <1>2, <2>4 DEF MarkRunning, Executions
    <3>2. ExecutionOK(v)'
      BY <1>1, <1>3, <3>1 DEF ExecutionOK, None
    <3> QED  BY <2>1, <3>2 DEF ExecIInv, ExecutionOK, Untouched
  <2>5. ASSUME NEW outcome, NodesEnd(v, outcome) PROVE ExecIInv'
    <3>1. exec'[v].status = exec[v].status /\ UNCHANGED <<version, instance>>
      BY <1>2, <2>5 DEF NodesEnd, Executions
    <3>2. ExecutionOK(v)'
      BY <1>3, <3>1 DEF ExecutionOK
    <3> QED  BY <2>1, <3>2 DEF ExecIInv, ExecutionOK, Untouched
  <2>6. CASE Complete(v)
    <3>1. /\ version'[v].status = exec[v].outcome /\ version'[v].lock = version[v].lock + 1
          /\ exec'[v].status = exec[v].outcome /\ exec[v].status = "Running" /\ exec[v].outcome # None
      BY <1>2, <2>6 DEF Complete
    <3>2. instance'[v].lock = instance[v].lock + 1 /\ instance'[v].status # None
      <4>1. PICK row \in Instance : /\ row.status # None /\ row.lock = instance[v].lock + 1
                                    /\ instance' = [instance EXCEPT ![v] = row]
        BY <2>6, CompleteEffect
      <4> QED  BY <1>2, <4>1
    <3>3. exec[v].outcome \in {"Succeeded", "Failed", "PartialFailed"}
      BY <1>1, <3>1 DEF Executions, Outcomes
    <3>4. ExecutionOK(v)'
      BY <1>1, <1>3, <3>1, <3>2, <3>3 DEF ExecutionOK, None
    <3> QED  BY <2>1, <3>4 DEF ExecIInv, ExecutionOK, Untouched
  <2> QED  BY <1>4, <2>2, <2>3, <2>4, <2>5, <2>6 DEF DeploymentWorker
<1>5. CASE NewCandidate(v)
  <2>1. \A w \in Versions : w # v /\ w # v + 1 => Untouched(w)
    BY <1>5, OthersUntouched
  <2>2. v + 1 \in Versions /\ v + 1 # v /\ version[v + 1].status = None /\ exec' = exec
        /\ version[v].status \notin {None, "Deploying"}
    BY <1>5 DEF NewCandidate, Versions
  <2>3. /\ version'[v].status = "Superseded" /\ version'[v].lock = version[v].lock
        /\ version'[v + 1].status = "Candidate" /\ version'[v + 1].lock = 1
    BY <1>2, <1>5, <2>2 DEF NewCandidate
  <2>4. /\ instance'[v].lock = instance[v].lock /\ (instance[v].status # None <=> instance'[v].status # None)
        /\ instance'[v + 1] = instance[v + 1]
    BY <1>5, <2>2, SupersededEffect
  <2>5. ExecutionOK(v)'
    BY <1>1, <1>3, <2>2, <2>3, <2>4 DEF ExecutionOK, None
  <2>6. instance[v + 1].status = None /\ instance[v + 1].lock = 0 /\ exec[v + 1].status = None
    BY <1>1, <1>3, <2>2 DEF ExecutionOK, InstanceIsWhole, NoInstance
  <2>7. ExecutionOK(v + 1)'
    BY <2>2, <2>3, <2>4, <2>6 DEF ExecutionOK, None
  <2> QED  BY <2>1, <2>5, <2>7 DEF ExecIInv, ExecutionOK, Untouched
<1> QED  BY <1>4, <1>5

(* Executions stay right. *)
LEMMA ExecutionsStep ==
  ASSUME TypeIInv, CommandsIInv, ExecIInv, [Next]_vars
  PROVE  ExecIInv'
<1>1. ASSUME UNCHANGED Rows PROVE ExecIInv'
  BY <1>1 DEF Rows, ExecIInv, ExecutionOK
<1>2. ASSUME NEW c \in Processes, Loads(c) \/ Conflict(c) PROVE UNCHANGED Rows
  BY <1>2, LoadedStand DEF Conflict, Rows
<1>3. UNCHANGED vars => UNCHANGED Rows
  BY DEF vars, Rows
<1> QED  BY <1>1, <1>2, <1>3, ApplyExecutions, WorkerExecutions, StepCases

-----------------------------------------------------------------------------
(* Reviews *)

SameOrClosed(v, i, task) ==
  i \in 1..Len(tasks[v]) /\ task \in {tasks[v][i], Closed(tasks[v][i])}

JustDecided(v, i, task) ==
  /\ i \in 1..Len(tasks[v]) /\ tasks[v][i].status = "Pending"
  /\ \E u \in Users, decision \in {"Approve", "Reject"} :
       task = Decision(tasks[v][i], u, decision, NextStatus(With(tasks[v][i], u, decision)))

JustReassigned(v, i, task) ==
  /\ i \in 1..Len(tasks[v]) /\ tasks[v][i].status = "Pending"
  /\ \E assignment \in Assignments : task = Reassigned(tasks[v][i], assignment)

JustOpened(task) == \E state \in DOMAIN document.policy : task = NewTask(state)

(* What may become of a review in a step. *)
MayBecome(v, i, task) ==
  SameOrClosed(v, i, task) \/ JustDecided(v, i, task) \/ JustReassigned(v, i, task) \/ JustOpened(task)

(* An arrival keeps the reviews it is given and opens at most one.         *)
LEMMA ArrivalReviews ==
  ASSUME TypeIInv, NEW v \in Versions, NEW state \in DOMAIN document.type, NEW list \in Seq(Task),
         \A i \in 1..Len(list) : MayBecome(v, i, list[i]),
         tasks'[v] = TasksAfter(state, list), NEW i \in DOMAIN tasks'[v]
  PROVE  MayBecome(v, i, tasks'[v][i])
<1>1. document \in Documents
  BY DEF TypeIInv
<1>2. /\ TasksAfter(state, list) \in Seq(Task)
      /\ \A k \in 1..Len(list) : TasksAfter(state, list)[k] = list[k]
      /\ IsReview(state) =>
           /\ Len(TasksAfter(state, list)) = Len(list) + 1
           /\ TasksAfter(state, list)[Len(list) + 1] = NewTask(state)
      /\ ~IsReview(state) => TasksAfter(state, list) = list
  BY <1>1, TasksAfterShape
<1> HIDE DEF TasksAfter
<1>3. Len(list) \in Nat /\ DOMAIN list = 1..Len(list)
      /\ DOMAIN TasksAfter(state, list) = 1..Len(TasksAfter(state, list))
  BY <1>2, LenProperties
<1>4. CASE i \in 1..Len(list)
  BY <1>2, <1>4
<1>5. CASE i \notin 1..Len(list)
  <2>1. IsReview(state) /\ i = Len(list) + 1
    <3>1. i \in 1..Len(TasksAfter(state, list))
      BY <1>3
    <3>2. IsReview(state)
      BY <1>2, <1>5, <3>1
    <3> QED  BY <1>2, <1>3, <1>5, <3>1, <3>2
  <2>2. state \in DOMAIN document.policy
    BY <1>1, <2>1, DocumentFacts
  <2> QED  BY <1>2, <2>1, <2>2 DEF MayBecome, JustOpened
<1> QED  BY <1>4, <1>5

(* Every review of a version comes from one that was there, by a decision, *)
(* a reassignment or its closing, or is new.                               *)
LEMMA ReviewSteps ==
  ASSUME TypeIInv, CommandsIInv, [Next]_vars, NEW v \in Versions, NEW i \in DOMAIN tasks'[v]
  PROVE  MayBecome(v, i, tasks'[v][i])
<1>1. /\ tasks[v] \in Seq(Task) /\ DOMAIN tasks[v] = 1..Len(tasks[v])
      /\ \A k \in 1..Len(tasks[v]) : tasks[v][k] \in Task
  BY RowFacts
<1>2. /\ document \in Documents /\ tasks \in [Versions -> Seq(Task)] /\ cmd \in [Processes -> Commands]
  BY DEF TypeIInv
<1>3. ASSUME tasks'[v] = tasks[v] PROVE MayBecome(v, i, tasks'[v][i])
  BY <1>1, <1>3 DEF MayBecome, SameOrClosed
<1>4. ASSUME NEW c \in Processes, Apply(c) PROVE MayBecome(v, i, tasks'[v][i])
  <2>1. cmd[c].kind # "idle" /\ cmd[c] \in Commands /\ cmd[c].v \in Versions
    <3>1. cmd[c] \in Commands /\ cmd[c] # Idle
      BY <1>2, <1>4 DEF Apply
    <3> QED  BY <3>1, CommandFacts
  <2>2. CASE v # cmd[c].v
    BY <1>3, <1>4, <2>2, OthersUntouched DEF Untouched
  <2>3. CASE v = cmd[c].v
    <3>1. CASE cmd[c].kind = "start"
      <4>1. Arrives(v, document.initial, 1, tasks[v]) /\ document' = document
        BY <1>4, <2>3, <3>1, StartEffect
      <4>2. document.initial \in DOMAIN document.type
        BY <1>2, DocumentFacts
      <4>3. tasks'[v] = TasksAfter(document.initial, tasks[v])
        BY <1>1, <4>1, <4>2, ArrivesTypes
      <4>4. \A k \in 1..Len(tasks[v]) : MayBecome(v, k, tasks[v][k])
        BY DEF MayBecome, SameOrClosed
      <4> QED  BY <1>1, <4>2, <4>3, <4>4, ArrivalReviews
    <3>2. CASE cmd[c].kind = "transition"
      <4> DEFINE list == ReviewsLeft(v, cmd[c].edge.from)
      <4>1. Arrives(v, cmd[c].edge.to, cmd[c].lock + 1, list) /\ document' = document
            /\ cmd[c].edge \in Edges /\ cmd[c].lock \in Nat
        BY <1>4, <2>3, <3>2, TransitionEffect
      <4>2. cmd[c].edge.to \in DOMAIN document.type /\ cmd[c].lock + 1 \in Nat
        BY <1>2, <4>1, DocumentFacts
      <4>3. /\ list \in Seq(Task) /\ Len(list) = Len(tasks[v])
            /\ \A k \in 1..Len(tasks[v]) : list[k] \in {tasks[v][k], Closed(tasks[v][k])}
        BY ReviewsLeftShape
      <4> HIDE DEF list
      <4>4. tasks'[v] = TasksAfter(cmd[c].edge.to, list)
        BY <4>1, <4>2, <4>3, ArrivesTypes
      <4>5. \A k \in 1..Len(list) : MayBecome(v, k, list[k])
        BY <4>3 DEF MayBecome, SameOrClosed
      <4> QED  BY <4>2, <4>3, <4>4, <4>5, ArrivalReviews
    <3>3. CASE cmd[c].kind = "review"
      <4> DEFINE n == cmd[c].stage
                 u == cmd[c].by
                 list == DecidedList(tasks[v], n, u, cmd[c].decision, cmd[c].status)
      <4>1. /\ cmd[c].lock \in Nat /\ document' = document
            /\ n \in 1..Len(tasks[v]) /\ tasks[v][n].status = "Pending"
            /\ u \in Users /\ cmd[c].decision \in {"Approve", "Reject"} /\ cmd[c].status \in TaskStatus
            /\ cmd[c].status = NextStatus(With(tasks[v][n], u, cmd[c].decision))
        BY <1>4, <2>3, <3>3, ReviewEffect
      <4>2. \/ tasks' = [tasks EXCEPT ![v] = list]
            \/ \E edge \in Edges : Arrives(v, edge.to, cmd[c].lock + 1, list)
        BY <1>4, <2>3, <3>3, ReviewEffect
      <4>3. /\ list \in Seq(Task) /\ Len(list) = Len(tasks[v])
            /\ list[n] = Decision(tasks[v][n], u, cmd[c].decision, cmd[c].status)
            /\ \A k \in 1..Len(tasks[v]) : k # n => list[k] = tasks[v][k]
        <5>1. /\ n \in 1..Len(tasks[v]) /\ u \in Users
              /\ cmd[c].decision \in {"Approve", "Reject"} /\ cmd[c].status \in TaskStatus
          BY <4>1
        <5>2. tasks[v] \in Seq(Task)
          BY <1>1
        <5> HIDE DEF n, u
        <5>3. list \in Seq(Task) /\ Len(list) = Len(tasks[v])
          BY <5>1, <5>2, DecidedListShape
        <5>4. list[n] = Decision(tasks[v][n], u, cmd[c].decision, cmd[c].status)
          BY <5>1, <5>2, DecidedListShape
        <5>5. \A k \in 1..Len(tasks[v]) : k # n => list[k] = tasks[v][k]
          BY <5>1, <5>2, DecidedListShape
        <5> QED  BY <5>3, <5>4, <5>5
      <4> HIDE DEF list
      <4>4. \A k \in 1..Len(list) : MayBecome(v, k, list[k])
        <5>1. JustDecided(v, n, list[n])
          BY <4>1, <4>3 DEF JustDecided
        <5>2. \A k \in 1..Len(list) : k # n => SameOrClosed(v, k, list[k])
          BY <4>3 DEF SameOrClosed
        <5> QED  BY <5>1, <5>2 DEF MayBecome
      <4>5. ASSUME tasks' = [tasks EXCEPT ![v] = list] PROVE MayBecome(v, i, tasks'[v][i])
        <5>1. tasks'[v] = list
          BY <1>2, <4>5
        <5>2. DOMAIN list = 1..Len(list)
          BY <4>3, LenProperties
        <5> QED  BY <4>4, <5>1, <5>2
      <4>6. ASSUME NEW edge \in Edges, Arrives(v, edge.to, cmd[c].lock + 1, list)
            PROVE  MayBecome(v, i, tasks'[v][i])
        <5>1. edge.to \in DOMAIN document.type /\ cmd[c].lock + 1 \in Nat
          BY <1>2, <4>1, DocumentFacts
        <5>2. tasks'[v] = TasksAfter(edge.to, list)
          BY <4>1, <4>3, <4>6, <5>1, ArrivesTypes
        <5> QED  BY <4>3, <4>4, <5>1, <5>2, ArrivalReviews
      <4> QED  BY <4>2, <4>5, <4>6
    <3>4. CASE cmd[c].kind = "reassignment"
      <4> DEFINE n == cmd[c].stage
                 list == [tasks[v] EXCEPT ![n] = Reassigned(@, cmd[c].assignment)]
      <4>1. /\ n \in 1..Len(tasks[v]) /\ tasks[v][n].status = "Pending" /\ cmd[c].assignment \in Assignments
            /\ tasks' = [tasks EXCEPT ![v] = list]
        BY <1>4, <2>3, <3>4, ReassignmentEffect
      <4>2. /\ list \in Seq(Task) /\ Len(list) = Len(tasks[v])
            /\ list[n] = Reassigned(tasks[v][n], cmd[c].assignment)
            /\ \A k \in 1..Len(tasks[v]) : k # n => list[k] = tasks[v][k]
        BY <1>1, <4>1, ReassignedShape
      <4> HIDE DEF list
      <4>3. tasks'[v] = list /\ i \in 1..Len(tasks[v])
        <5>1. tasks'[v] = list
          BY <1>2, <4>1
        <5> QED  BY <4>2, <5>1, LenProperties
      <4> QED  BY <4>1, <4>2, <4>3 DEF MayBecome, SameOrClosed, JustReassigned
    <3>5. CASE cmd[c].kind \in {"retry", "terminate"}
      BY <1>3, <1>4, <3>5, ExecutionEffect
    <3> QED  BY <2>1, <3>1, <3>2, <3>3, <3>4, <3>5, CommandFacts
  <2> QED  BY <2>2, <2>3
<1>5. ASSUME NEW w \in Versions, NewCandidate(w) PROVE MayBecome(v, i, tasks'[v][i])
  <2>1. CASE w # v
    BY <1>3, <1>5, <2>1, SupersededEffect
  <2>2. CASE w = v
    <3>1. /\ tasks'[v] \in Seq(Task) /\ Len(tasks'[v]) = Len(tasks[v])
          /\ \A k \in 1..Len(tasks[v]) : tasks'[v][k] = Closed(tasks[v][k])
      BY <1>5, <2>2, SupersededEffect
    <3>2. i \in 1..Len(tasks[v])
      BY <3>1, LenProperties
    <3> QED  BY <3>1, <3>2 DEF MayBecome, SameOrClosed
  <2> QED  BY <2>1, <2>2
<1>6. ASSUME NEW w \in Versions, DeploymentWorker(w) PROVE MayBecome(v, i, tasks'[v][i])
  BY <1>3, <1>6 DEF DeploymentWorker, Prepare, Block, MarkRunning, NodesEnd, Complete
<1>7. ASSUME NEW c \in Processes, Loads(c) \/ Conflict(c) PROVE MayBecome(v, i, tasks'[v][i])
  BY <1>3, <1>7, LoadedStand DEF Rows, Conflict
<1>8. CASE UNCHANGED vars
  BY <1>3, <1>8 DEF vars
<1> QED  BY <1>4, <1>5, <1>6, <1>7, <1>8, StepCases

(* The status of a review is what its decisions make it. *)
Decides(task) ==
  /\ task.status = "Approved" => ApprovalsSatisfied(task) /\ ~Rejected(task)
  /\ task.status = "Rejected" => Rejected(task)
  /\ task.status = "Pending" =>
       /\ ~Rejected(task)
       /\ task.type = "MinimumApprovals" => Cardinality(Approvers(task)) < task.required

(* Approvals and rejections do not depend on the status. *)
LEMMA StatusApart ==
  ASSUME NEW task \in Task, NEW status
  PROVE  LET other == [task EXCEPT !.status = status]
         IN  /\ ApprovalsSatisfied(other) <=> ApprovalsSatisfied(task)
             /\ Rejected(other) <=> Rejected(task)
             /\ Approvers(other) = Approvers(task)
             /\ other.type = task.type /\ other.required = task.required /\ other.status = status
<1> DEFINE other == [task EXCEPT !.status = status]
<1>1. /\ other.type = task.type /\ other.required = task.required /\ other.status = status
      /\ other.decided = task.decided /\ other.users = task.users /\ other.roles = task.roles
  BY DEF Task
<1> HIDE DEF other
<1>2. Approvers(other) = Approvers(task) /\ (Rejected(other) <=> Rejected(task)) /\ Eligible(other) = Eligible(task)
  BY <1>1 DEF Approvers, Rejected, Eligible
<1>3. ApprovalsSatisfied(other) <=> ApprovalsSatisfied(task)
  BY <1>1, <1>2 DEF ApprovalsSatisfied
<1> QED  BY <1>1, <1>2, <1>3 DEF other

(* A computed status says what the decisions say. *)
LEMMA ComputedDecides ==
  ASSUME NEW task \in Task, NEW u \in Users, NEW decision \in {"Approve", "Reject"}
  PROVE  Decides(Decision(task, u, decision, NextStatus(With(task, u, decision))))
<1> DEFINE with == With(task, u, decision)
           status == NextStatus(with)
           next == Decision(task, u, decision, status)
<1>1. status \in TaskStatus
  BY NextStatusShape
<1>2. with \in Task /\ next = [with EXCEPT !.status = status]
  BY <1>1, DecisionShape
<1>3. /\ status = "Rejected" => Rejected(with)
      /\ status = "Approved" => ApprovalsSatisfied(with) /\ ~Rejected(with)
      /\ status = "Pending" => ~ApprovalsSatisfied(with) /\ ~Rejected(with)
  BY DEF NextStatus
<1> HIDE DEF with, status
<1>4. /\ ApprovalsSatisfied(next) <=> ApprovalsSatisfied(with)
      /\ Rejected(next) <=> Rejected(with)
      /\ Approvers(next) = Approvers(with)
      /\ next.type = with.type /\ next.required = with.required /\ next.status = status
  BY <1>2, StatusApart
<1> HIDE DEF next
<1>5. ASSUME status = "Pending", next.type = "MinimumApprovals"
      PROVE  Cardinality(Approvers(next)) < next.required
  <2>1. with.required \in Nat /\ IsFiniteSet(Approvers(with))
    <3>1. Approvers(with) \subseteq Users /\ IsFiniteSet(Users)
      BY ReleaseWorkflowAssumption DEF Approvers
    <3>2. with.required \in Nat
      BY <1>2 DEF Task
    <3> QED  BY <3>1, <3>2, FS_Subset
  <2>2. Cardinality(Approvers(with)) \in Nat
    BY <2>1, FS_CardinalityType
  <2>3. with.type = "MinimumApprovals" /\ ~ApprovalsSatisfied(with)
    BY <1>3, <1>4, <1>5
  <2>4. ~(Cardinality(Approvers(with)) >= with.required)
    BY <2>3 DEF ApprovalsSatisfied
  <2> QED  BY <1>4, <2>1, <2>2, <2>4
<1>6. Decides(next)
  BY <1>3, <1>4, <1>5 DEF Decides
<1> QED  BY <1>6 DEF next, status, with

(* A review that is opened has no decision, and waits. *)
LEMMA OpenedDecides ==
  ASSUME TypeIInv, NEW state \in DOMAIN document.policy
  PROVE  Decides(NewTask(state))
<1>1. NewTask(state) \in Task /\ NewTask(state).status = "Pending" /\ NewTask(state).decided = NoDecisions
  BY NewTaskShape DEF TypeIInv
<1>2. Approvers(NewTask(state)) = {} /\ ~Rejected(NewTask(state))
  BY <1>1 DEF Approvers, Rejected, NoDecisions, None
<1>3. NewTask(state).required \in Nat \ {0} /\ Cardinality(Approvers(NewTask(state))) = 0
  BY <1>1, <1>2, FS_EmptySet DEF Task
<1> QED  BY <1>1, <1>2, <1>3 DEF Decides

(* Closing and reassigning a review leave its status right. *)
LEMMA OthersDecide ==
  ASSUME TypeIInv, NEW task \in Task, Decides(task)
  PROVE  /\ Decides(Closed(task))
         /\ \A assignment \in Assignments : task.status = "Pending" => Decides(Reassigned(task, assignment))
<1>1. Decides(Closed(task))
  <2>1. CASE task.status # "Pending"
    BY <2>1, ClosedShape
  <2>2. CASE task.status = "Pending"
    <3>1. Closed(task).status = "Closed"
      BY <2>2, ClosedShape DEF Task
    <3> QED  BY <3>1 DEF Decides
  <2> QED  BY <2>1, <2>2
<1>2. ASSUME NEW assignment \in Assignments, task.status = "Pending" PROVE Decides(Reassigned(task, assignment))
  <2> DEFINE next == Reassigned(task, assignment)
  <2>1. next.decided = task.decided /\ next.status = "Pending" /\ next.type = task.type
        /\ next.required = task.required
    BY DEF Reassigned, Task
  <2> HIDE DEF next
  <2>2. Approvers(next) = Approvers(task) /\ (Rejected(next) <=> Rejected(task))
    BY <2>1 DEF Approvers, Rejected
  <2>3. Decides(next)
    BY <1>2, <2>1, <2>2 DEF Decides
  <2> QED  BY <2>3 DEF next
<1> QED  BY <1>1, <1>2

(* Whatever is written, the status of every review fits its decisions. *)
LEMMA DecisionsStep ==
  ASSUME TypeIInv, CommandsIInv, DecisionsDecide, [Next]_vars
  PROVE  DecisionsDecide'
<1>1. ASSUME NEW v \in Versions, NEW i \in DOMAIN tasks'[v]
      PROVE  Decides(tasks'[v][i])
  <2>1. MayBecome(v, i, tasks'[v][i])
    BY <1>1, ReviewSteps
  <2>2. \A k \in 1..Len(tasks[v]) : tasks[v][k] \in Task /\ Decides(tasks[v][k])
    BY RowFacts DEF DecisionsDecide, Decides
  <2>3. CASE SameOrClosed(v, i, tasks'[v][i])
    BY <2>2, <2>3, OthersDecide DEF SameOrClosed
  <2>4. CASE JustDecided(v, i, tasks'[v][i])
    BY <2>2, <2>4, ComputedDecides DEF JustDecided
  <2>5. CASE JustReassigned(v, i, tasks'[v][i])
    BY <2>2, <2>5, OthersDecide DEF JustReassigned
  <2>6. CASE JustOpened(tasks'[v][i])
    <3>1. PICK state \in DOMAIN document.policy : tasks'[v][i] = NewTask(state)
      BY <2>6 DEF JustOpened
    <3> QED  BY <3>1, OpenedDecides
  <2> QED  BY <2>1, <2>3, <2>4, <2>5, <2>6 DEF MayBecome
<1> QED  BY <1>1 DEF DecisionsDecide, Decides

-----------------------------------------------------------------------------
(* The open review *)

(* A version without an open review is in order. *)
LEMMA NoneOpenIsFine ==
  ASSUME NEW v \in Versions, NoneOpen(v)'
  PROVE  (OpenOK(v) /\ FailedOK(v))'
BY DEF NoneOpen, OpenOK, FailedOK

(* A version that is left alone stays in order. *)
LEMMA UntouchedReviews ==
  ASSUME NEW v \in Versions, OpenOK(v), FailedOK(v), instance'[v] = instance[v], tasks'[v] = tasks[v],
         exec'[v].status \in {"Failed", "PartialFailed"} => exec[v].status \in {"Failed", "PartialFailed"}
  PROVE  (OpenOK(v) /\ FailedOK(v))'
BY DEF NoneOpen, OpenOK, FailedOK

(* An arrival with the old reviews closed opens at most the review of the  *)
(* state it arrives in.                                                    *)
LEMMA ArrivalOpens ==
  ASSUME TypeIInv, document' = document, NEW v \in Versions, NEW state \in DOMAIN document.type,
         NEW lock \in Nat, NEW list \in Seq(Task), Arrives(v, state, lock, list),
         \A i \in 1..Len(list) : list[i].status # "Pending",
         exec[v].status = None, exec' = exec
  PROVE  (OpenOK(v) /\ FailedOK(v))'
<1>1. document \in Documents
  BY DEF TypeIInv
<1>2. tasks'[v] = TasksAfter(state, list) /\ instance'[v] = Arrived(state, lock)
  BY ArrivesTypes
<1>3. /\ TasksAfter(state, list) \in Seq(Task)
      /\ \A k \in 1..Len(list) : TasksAfter(state, list)[k] = list[k]
      /\ IsReview(state) =>
           /\ Len(TasksAfter(state, list)) = Len(list) + 1
           /\ TasksAfter(state, list)[Len(list) + 1] = NewTask(state)
      /\ ~IsReview(state) => TasksAfter(state, list) = list
  BY <1>1, TasksAfterShape
<1>4. Len(list) \in Nat /\ DOMAIN list = 1..Len(list)
      /\ DOMAIN TasksAfter(state, list) = 1..Len(TasksAfter(state, list))
  BY <1>3, LenProperties
<1>5. FailedOK(v)'
  BY DEF FailedOK, None
<1>6. CASE ~IsReview(state)
  <2>1. NoneOpen(v)'
    BY <1>2, <1>3, <1>4, <1>6 DEF NoneOpen
  <2> QED  BY <2>1, NoneOpenIsFine
<1>7. CASE IsReview(state)
  <2>1. NewTask(state).state = state
    BY <1>1, <1>7, DocumentFacts, NewTaskShape
  <2>2. Arrived(state, lock).status = "Running" /\ Arrived(state, lock).state = state
    BY <1>7, ArrivedShape
  <2>3. DOMAIN tasks'[v] = 1..(Len(list) + 1) /\ Len(tasks'[v]) = Len(list) + 1
    BY <1>2, <1>3, <1>4, <1>7
  <2>4. ASSUME NEW i \in DOMAIN tasks'[v], tasks'[v][i].status = "Pending"
        PROVE  i = Len(list) + 1
    BY <1>2, <1>3, <1>4, <2>3, <2>4
  <2>5. tasks'[v][Len(list) + 1] = NewTask(state)
    BY <1>2, <1>3, <1>7
  <2> HIDE DEF TasksAfter
  <2>6. OpenOK(v)'
    BY <1>2, <2>1, <2>2, <2>3, <2>4, <2>5 DEF OpenOK
  <2> QED  BY <1>5, <2>6
<1> QED  BY <1>6, <1>7

(* A written command leaves no review open but the one of the state that   *)
(* the version is then in.                                                 *)
LEMMA ApplyReviews ==
  ASSUME TypeIInv, CommandsIInv, ExecIInv, ReviewIInv, ReviewsEndAsReviews,
         NEW c \in Processes, Apply(c)
  PROVE  ReviewIInv'
<1>0. cmd[c].kind # "idle" /\ cmd[c] \in Commands /\ cmd[c].v \in Versions
  <2>1. cmd[c] \in Commands /\ cmd[c] # Idle
    BY DEF Apply, TypeIInv
  <2> QED  BY <2>1, CommandFacts
<1>1. PICK v \in Versions : v = cmd[c].v /\ \A w \in Versions : w # v => Untouched(w)
  BY <1>0, OthersUntouched
<1>2. /\ ExecutionOK(v) /\ OpenOK(v) /\ FailedOK(v) /\ document \in Documents
      /\ tasks \in [Versions -> Seq(Task)] /\ instance \in [Versions -> Instance]
  BY <1>1 DEF ExecIInv, ReviewIInv, TypeIInv
<1>3. /\ tasks[v] \in Seq(Task) /\ DOMAIN tasks[v] = 1..Len(tasks[v]) /\ Len(tasks[v]) \in Nat
      /\ \A i \in 1..Len(tasks[v]) : tasks[v][i] \in Task
      /\ version[v].lock \in Nat /\ instance[v].lock \in Nat
  BY RowFacts DEF Instance
<1>4. SUFFICES (OpenOK(v) /\ FailedOK(v))'
  <2>1. \A w \in Versions : w # v => (OpenOK(w) /\ FailedOK(w))'
    BY <1>1, UntouchedReviews DEF Untouched, ReviewIInv
  <2> QED  BY <2>1 DEF ReviewIInv
<1>5. CASE cmd[c].kind = "start"
  <2>1. /\ Arrives(v, document.initial, 1, tasks[v]) /\ document' = document /\ exec' = exec
        /\ instance[v] = NoInstance
    BY <1>1, <1>5, StartEffect
  <2>2. exec[v].status = None /\ document.initial \in DOMAIN document.type
    BY <1>2, <2>1, DocumentFacts DEF ExecutionOK, NoInstance
  <2>3. \A i \in 1..Len(tasks[v]) : tasks[v][i].status # "Pending"
    BY <1>2, <1>3, <2>1 DEF OpenOK, NoInstance, None
  <2> QED  BY <1>3, <2>1, <2>2, <2>3, ArrivalOpens
<1>6. CASE cmd[c].kind = "transition"
  <2> DEFINE list == ReviewsLeft(v, cmd[c].edge.from)
  <2>1. /\ Arrives(v, cmd[c].edge.to, cmd[c].lock + 1, list) /\ document' = document /\ exec' = exec
        /\ cmd[c].lock \in Nat /\ cmd[c].lock = instance[v].lock /\ Accepts(v, cmd[c].lock)
        /\ cmd[c].edge \in Edges /\ instance[v].state = cmd[c].edge.from
    BY <1>1, <1>6, TransitionEffect
  <2>2. exec[v].status = None
    BY <1>2, <1>3, <2>1 DEF Accepts, VersionAccepts, ExecutionOK
  <2>3. cmd[c].edge.to \in DOMAIN document.type /\ cmd[c].lock + 1 \in Nat
    BY <1>2, <2>1, DocumentFacts
  <2>4. /\ list \in Seq(Task) /\ Len(list) = Len(tasks[v])
        /\ \A i \in 1..Len(tasks[v]) :
             list[i] = IF tasks[v][i].state = cmd[c].edge.from THEN Closed(tasks[v][i]) ELSE tasks[v][i]
    BY ReviewsLeftShape
  <2> HIDE DEF list
  <2>5. \A i \in 1..Len(list) : list[i].status # "Pending"
    BY <1>2, <1>3, <2>1, <2>4, ClosedShape DEF OpenOK
  <2> QED  BY <2>1, <2>2, <2>3, <2>4, <2>5, ArrivalOpens
<1>7. CASE cmd[c].kind = "review"
  <2> DEFINE n == cmd[c].stage
             list == DecidedList(tasks[v], n, cmd[c].by, cmd[c].decision, cmd[c].status)
  <2>1. /\ cmd[c].lock \in Nat /\ document' = document /\ exec' = exec
        /\ cmd[c].lock = instance[v].lock /\ Accepts(v, cmd[c].lock)
        /\ n \in 1..Len(tasks[v]) /\ n = Len(tasks[v]) /\ tasks[v][n].status = "Pending"
    BY <1>1, <1>7, ReviewEffect
  <2>2. /\ cmd[c].by \in Users /\ cmd[c].decision \in {"Approve", "Reject"} /\ cmd[c].status \in TaskStatus
    BY <1>1, <1>7, ReviewEffect
  <2>3. \/ instance' = [instance EXCEPT ![v].lock = cmd[c].lock + 1] /\ tasks' = [tasks EXCEPT ![v] = list]
        \/ cmd[c].status = "Approved" /\ \E edge \in Edges : Arrives(v, edge.to, cmd[c].lock + 1, list)
    BY <1>1, <1>7, ReviewEffect
  <2>4. exec[v].status = None
    BY <1>2, <1>3, <2>1 DEF Accepts, VersionAccepts, ExecutionOK
  <2>5. n \in 1..Len(tasks[v]) /\ tasks[v] \in Seq(Task)
    BY <1>3, <2>1
  <2>6. list \in Seq(Task) /\ Len(list) = Len(tasks[v])
    BY <2>2, <2>5, DecidedListShape
  <2>7. list[n] = Decision(tasks[v][n], cmd[c].by, cmd[c].decision, cmd[c].status)
    BY <2>2, <2>5, DecidedListShape
  <2>8. \A k \in 1..Len(tasks[v]) : k # n => list[k] = tasks[v][k]
    BY <2>2, <2>5, DecidedListShape
  <2>9. tasks[v][n] \in Task
    BY <1>3, <2>5
  <2>10. list[n].status = cmd[c].status /\ list[n].state = tasks[v][n].state
    BY <2>2, <2>7, <2>9, DecisionShape
  <2> HIDE DEF list, n
  <2>11. ASSUME NEW edge \in Edges, cmd[c].status = "Approved", Arrives(v, edge.to, cmd[c].lock + 1, list)
         PROVE  (OpenOK(v) /\ FailedOK(v))'
    <3>1. edge.to \in DOMAIN document.type /\ cmd[c].lock + 1 \in Nat
      BY <1>2, <2>1, DocumentFacts
    <3>2. \A i \in 1..Len(list) : list[i].status # "Pending"
      BY <1>2, <1>3, <2>1, <2>6, <2>8, <2>10, <2>11 DEF OpenOK
    <3> QED  BY <2>1, <2>4, <2>6, <2>11, <3>1, <3>2, ArrivalOpens
  <2>12. ASSUME instance' = [instance EXCEPT ![v].lock = cmd[c].lock + 1], tasks' = [tasks EXCEPT ![v] = list]
         PROVE  (OpenOK(v) /\ FailedOK(v))'
    <3>1. tasks'[v] = list /\ instance'[v].status = instance[v].status /\ instance'[v].state = instance[v].state
      BY <1>2, <2>12 DEF Instance
    <3>2. DOMAIN list = 1..Len(list)
      BY <2>6, LenProperties
    <3>3. OpenOK(v)'
      BY <1>2, <1>3, <2>1, <2>6, <2>8, <2>10, <3>1, <3>2 DEF OpenOK
    <3>4. FailedOK(v)'
      BY <2>1, <2>4 DEF FailedOK, None
    <3> QED  BY <3>3, <3>4
  <2> QED  BY <2>3, <2>11, <2>12
<1>8. CASE cmd[c].kind = "reassignment"
  <2> DEFINE n == cmd[c].stage
             list == [tasks[v] EXCEPT ![n] = Reassigned(@, cmd[c].assignment)]
  <2>1. /\ n \in 1..Len(tasks[v]) /\ n = Len(tasks[v]) /\ tasks[v][n].status = "Pending"
        /\ cmd[c].assignment \in Assignments /\ exec' = exec
        /\ cmd[c].lock = instance[v].lock /\ Accepts(v, cmd[c].lock)
        /\ instance' = [instance EXCEPT ![v].lock = cmd[c].lock + 1]
        /\ tasks' = [tasks EXCEPT ![v] = list]
    BY <1>1, <1>8, ReassignmentEffect
  <2>2. /\ list \in Seq(Task) /\ Len(list) = Len(tasks[v])
        /\ list[n] = Reassigned(tasks[v][n], cmd[c].assignment)
        /\ \A k \in 1..Len(tasks[v]) : k # n => list[k] = tasks[v][k]
    BY <1>3, <2>1, ReassignedShape
  <2>3. tasks[v][n] \in Task
    BY <1>3, <2>1
  <2>4. list[n].state = tasks[v][n].state
    BY <2>2, <2>3 DEF Reassigned, Task
  <2> HIDE DEF list, n
  <2>5. tasks'[v] = list /\ instance'[v].status = instance[v].status /\ instance'[v].state = instance[v].state
    BY <1>2, <2>1 DEF Instance
  <2>6. DOMAIN list = 1..Len(list)
    BY <2>2, LenProperties
  <2>7. OpenOK(v)'
    BY <1>2, <1>3, <2>1, <2>2, <2>4, <2>5, <2>6 DEF OpenOK
  <2>8. exec[v].status = None
    BY <1>2, <1>3, <2>1 DEF Accepts, VersionAccepts, ExecutionOK
  <2>9. FailedOK(v)'
    BY <2>1, <2>8 DEF FailedOK, None
  <2> QED  BY <2>7, <2>9
<1>9. CASE cmd[c].kind \in {"retry", "terminate"}
  <2>1. /\ tasks' = tasks /\ cmd[c].edge \in Edges /\ instance[v].state = cmd[c].edge.from
        /\ cmd[c].edge.trigger = "Manual" /\ cmd[c].edge.permission = cmd[c].kind
        /\ (cmd[c].kind = "retry" => version[v].status \in {"Failed", "PartialFailed"})
    BY <1>1, <1>9, ExecutionEffect
  <2>2. CASE cmd[c].kind = "retry"
    <3>1. NoneOpen(v)
      BY <1>2, <2>1, <2>2 DEF ExecutionOK, FailedOK
    <3>2. NoneOpen(v)'
      BY <2>1, <3>1 DEF NoneOpen
    <3> QED  BY <3>2, NoneOpenIsFine
  <2>3. CASE cmd[c].kind = "terminate"
    <3>1. instance[v].state \notin DOMAIN document.policy
      BY <1>2, <2>1, <2>3 DEF ReviewsEndAsReviews, Edges
    <3>2. \A i \in DOMAIN tasks[v] : tasks[v][i].state \in DOMAIN document.policy
      BY <1>3 DEF Task
    <3>3. NoneOpen(v)
      BY <1>2, <3>1, <3>2 DEF NoneOpen, OpenOK
    <3>4. NoneOpen(v)'
      BY <2>1, <3>3 DEF NoneOpen
    <3> QED  BY <3>4, NoneOpenIsFine
  <2> QED  BY <1>9, <2>2, <2>3
<1> QED  BY <1>0, <1>5, <1>6, <1>7, <1>8, <1>9, CommandFacts

(* So do the deployment worker and a new candidate. *)
LEMMA WorkerReviews ==
  ASSUME TypeIInv, CommandsIInv, ReviewIInv, ReviewsEndAsReviews,
         NEW v \in Versions, DeploymentWorker(v) \/ NewCandidate(v)
  PROVE  ReviewIInv'
<1>1. /\ exec \in [Versions -> Executions] /\ document \in Documents
      /\ \A w \in Versions : OpenOK(w) /\ FailedOK(w)
  BY DEF TypeIInv, ReviewIInv
<1>2. CASE Complete(v)
  <2>1. \A w \in Versions : w # v => (OpenOK(w) /\ FailedOK(w))'
    BY <1>1, <1>2, OthersUntouched, UntouchedReviews DEF DeploymentWorker, Untouched
  <2>2. NoneOpen(v)
    <3>1. \/ \E edge \in Edges : edge.from = instance[v].state /\ edge.trigger = "DeploymentResult"
          \/ instance[v].ended
      BY <1>2, CompleteEffect
    <3>2. ASSUME NEW edge \in Edges, edge.from = instance[v].state, edge.trigger = "DeploymentResult"
          PROVE  NoneOpen(v)
      <4>1. instance[v].state \notin DOMAIN document.policy
        BY <1>1, <3>2 DEF ReviewsEndAsReviews, Edges
      <4>2. \A i \in DOMAIN tasks[v] : tasks[v][i].state \in DOMAIN document.policy
        BY RowFacts DEF Task
      <4> QED  BY <1>1, <4>1, <4>2 DEF NoneOpen, OpenOK
    <3>3. ASSUME instance[v].ended PROVE NoneOpen(v)
      <4>1. instance[v].status # "Running"
        BY <3>3, RowFacts DEF InstanceIsWhole
      <4> QED  BY <1>1, <4>1 DEF NoneOpen, OpenOK
    <3> QED  BY <3>1, <3>2, <3>3
  <2>3. NoneOpen(v)'
    BY <1>2, <2>2 DEF NoneOpen, Complete
  <2> QED  BY <2>1, <2>3, NoneOpenIsFine DEF ReviewIInv
<1>3. CASE DeploymentWorker(v) /\ ~Complete(v)
  <2>1. UNCHANGED <<instance, tasks>>
    BY <1>3 DEF DeploymentWorker, Prepare, Block, MarkRunning, NodesEnd
  <2>2. \A w \in Versions : exec'[w].status \in {"Failed", "PartialFailed"} => exec[w].status \in {"Failed", "PartialFailed"}
    BY <1>1, <1>3 DEF DeploymentWorker, Prepare, Block, MarkRunning, NodesEnd, Executions
  <2>3. \A w \in Versions : (OpenOK(w) /\ FailedOK(w))'
    BY <1>1, <2>1, <2>2, UntouchedReviews
  <2> QED  BY <2>3 DEF ReviewIInv
<1>4. CASE NewCandidate(v)
  <2>1. exec' = exec
    BY <1>4 DEF NewCandidate
  <2>2. \A w \in Versions : w # v => (OpenOK(w) /\ FailedOK(w))'
    BY <1>1, <1>4, <2>1, SupersededEffect, UntouchedReviews
  <2>3. /\ tasks'[v] \in Seq(Task) /\ Len(tasks'[v]) = Len(tasks[v])
        /\ \A i \in 1..Len(tasks[v]) : tasks'[v][i] = Closed(tasks[v][i])
    BY <1>4, SupersededEffect
  <2>4. DOMAIN tasks'[v] = 1..Len(tasks[v])
    BY <2>3, LenProperties
  <2>5. NoneOpen(v)'
    BY <2>3, <2>4, RowFacts, ClosedShape DEF NoneOpen
  <2> QED  BY <2>2, <2>5, NoneOpenIsFine DEF ReviewIInv
<1> QED  BY <1>2, <1>3, <1>4

(* Every step keeps the open reviews in order. *)
LEMMA ReviewsStep ==
  ASSUME TypeIInv, CommandsIInv, ExecIInv, ReviewIInv, ReviewsEndAsReviews, [Next]_vars
  PROVE  ReviewIInv'
<1>1. ASSUME UNCHANGED Rows PROVE ReviewIInv'
  BY <1>1 DEF Rows, ReviewIInv, OpenOK, FailedOK, NoneOpen
<1>2. ASSUME NEW c \in Processes, Loads(c) \/ Conflict(c) PROVE UNCHANGED Rows
  BY <1>2, LoadedStand DEF Conflict, Rows
<1>3. UNCHANGED vars => UNCHANGED Rows
  BY DEF vars, Rows
<1> QED  BY <1>1, <1>2, <1>3, ApplyReviews, WorkerReviews, StepCases

-----------------------------------------------------------------------------
(* The invariants of the specification *)

WorkflowIInv == TypeIInv /\ CommandsIInv /\ ExecIInv

(* Init satisfies every invariant. *)
LEMMA InitWorkflow ==
  ASSUME Init
  PROVE  WorkflowIInv /\ DecisionsDecide /\ ReviewIInv
<1>1. /\ document \in Documents /\ intents = [v \in Versions |-> 0]
      /\ exec = [v \in Versions |-> [status |-> None, outcome |-> None, fence |-> 0]]
      /\ cmd = [c \in Processes |-> Idle]
  BY DEF Init
<1>2. intents \in [Versions -> Nat] /\ exec \in [Versions -> Executions] /\ cmd \in [Processes -> Commands]
      /\ \A v \in Versions : intents[v] = 0 /\ exec[v].status = None
  BY <1>1 DEF Executions, ExecStatus, Outcomes, Commands
<1>3. CommandsIInv
  BY <1>1 DEF CommandsIInv, Stands, Idle
<1>4. NoInstance \in Instance /\ InstanceIsWhole(NoInstance) /\ NoInstance.status = None /\ NoInstance.lock = 0
  BY DEF NoInstance, Instance, InstanceStatus, InstanceIsWhole, None
<1>5. CASE /\ version = [v \in Versions |-> Fresh(v)]
           /\ instance = [v \in Versions |-> NoInstance]
           /\ tasks = [v \in Versions |-> <<>>]
  <2>1. version \in [Versions -> [status : VersionStatus, lock : Nat]]
        /\ \A v \in Versions : version[v].status # None => version[v].lock > 0
    BY <1>5 DEF Fresh, VersionStatus
  <2>2. \A v \in Versions : tasks[v] = <<>> /\ instance[v] = NoInstance
    BY <1>5
  <2>3. tasks \in [Versions -> Seq(Task)] /\ instance \in [Versions -> Instance]
    BY <1>4, <1>5, EmptySeq
  <2>4. TypeIInv
    BY <1>1, <1>2, <1>4, <2>1, <2>2, <2>3 DEF TypeIInv
  <2>5. \A v \in Versions : version[v].lock \in Nat /\ version[v].status \in {None, "Candidate"}
    BY <1>5 DEF Fresh
  <2>6. ExecIInv
    BY <1>2, <1>4, <2>1, <2>2, <2>5 DEF ExecIInv, ExecutionOK, None
  <2>7. \A v \in Versions : DOMAIN tasks[v] = {}
    BY <2>2
  <2>8. DecisionsDecide /\ ReviewIInv
    BY <2>7 DEF DecisionsDecide, ReviewIInv, OpenOK, FailedOK, NoneOpen
  <2> QED  BY <1>3, <2>4, <2>6, <2>8 DEF WorkflowIInv
<1>6. ASSUME NEW state \in DOMAIN document.policy, NEW approvers \in SUBSET Users,
             LET task == [NewTask(state) EXCEPT !.decided =
                            [u \in Users |-> IF u \in approvers THEN "Approve" ELSE None]]
             IN  /\ NextStatus(task) = "Approved"
                 /\ version = [v \in Versions |-> [Fresh(v) EXCEPT !.lock = IF v = 1 THEN 2 ELSE 0]]
                 /\ instance = [v \in Versions |-> IF v = 1 THEN Arrived(state, 2) ELSE NoInstance]
                 /\ tasks = [v \in Versions |->
                               IF v = 1 THEN <<[task EXCEPT !.status = "Approved"]>> ELSE <<>>]
      PROVE  WorkflowIInv /\ DecisionsDecide /\ ReviewIInv
  <2> DEFINE decided == [u \in Users |-> IF u \in approvers THEN "Approve" ELSE None]
             task == [NewTask(state) EXCEPT !.decided = decided]
             first == [task EXCEPT !.status = "Approved"]
  <2>1. /\ NextStatus(task) = "Approved"
        /\ version = [v \in Versions |-> [Fresh(v) EXCEPT !.lock = IF v = 1 THEN 2 ELSE 0]]
        /\ instance = [v \in Versions |-> IF v = 1 THEN Arrived(state, 2) ELSE NoInstance]
        /\ tasks = [v \in Versions |-> IF v = 1 THEN <<first>> ELSE <<>>]
    BY <1>6
  <2>2. task \in Task
    <3>1. decided \in [Users -> {None, "Approve", "Reject"}]
      OBVIOUS
    <3> HIDE DEF decided
    <3>2. NewTask(state) \in Task
      BY <1>1, NewTaskShape
    <3> QED  BY <3>1, <3>2 DEF Task
  <2> HIDE DEF task
  <2>3. first \in Task /\ first.status = "Approved"
    BY <2>2 DEF Task, TaskStatus
  <2>4. Decides(first)
    <3>1. ApprovalsSatisfied(task) /\ ~Rejected(task)
      BY <2>1 DEF NextStatus
    <3>2. ApprovalsSatisfied(first) /\ ~Rejected(first)
      BY <2>2, <3>1, StatusApart
    <3> QED  BY <2>3, <3>2 DEF Decides
  <2> HIDE DEF first
  <2>5. state \in DOMAIN document.type /\ IsReview(state)
    BY <1>1, <1>6, DocumentFacts
  <2>6. /\ Arrived(state, 2) \in Instance /\ InstanceIsWhole(Arrived(state, 2))
        /\ Arrived(state, 2).status = "Running" /\ Arrived(state, 2).lock = 2
    BY <2>5, ArrivedShape
  <2>7. \A v \in Versions : /\ v = 1 => tasks[v] = <<first>> /\ instance[v] = Arrived(state, 2)
                            /\ v # 1 => tasks[v] = <<>> /\ instance[v] = NoInstance
    BY <2>1
  <2>8. version \in [Versions -> [status : VersionStatus, lock : Nat]]
        /\ \A v \in Versions : /\ v = 1 => version[v].status = "Candidate" /\ version[v].lock = 2
                               /\ v # 1 => version[v].status = None /\ version[v].lock = 0
    BY <2>1 DEF Fresh, VersionStatus
  <2>9. <<first>> \in Seq(Task) /\ <<>> \in Seq(Task) /\ DOMAIN <<first>> = {1} /\ <<first>>[1] = first
        /\ DOMAIN <<>> = {}
    BY <2>3
  <2>10. tasks \in [Versions -> Seq(Task)] /\ instance \in [Versions -> Instance]
    BY <1>4, <2>1, <2>6, <2>9
  <2>11. TypeIInv
    BY <1>1, <1>2, <1>4, <2>6, <2>7, <2>8, <2>10 DEF TypeIInv, None
  <2>12. ExecIInv
    BY <1>2, <1>4, <2>6, <2>7, <2>8 DEF ExecIInv, ExecutionOK, None
  <2>13. \A v \in Versions : \A i \in DOMAIN tasks[v] : tasks[v][i] = first
    BY <2>7, <2>9
  <2>14. DecisionsDecide
    BY <2>4, <2>13 DEF DecisionsDecide, Decides
  <2>15. ReviewIInv
    BY <2>3, <2>13 DEF ReviewIInv, OpenOK, FailedOK, NoneOpen
  <2> QED  BY <1>3, <2>11, <2>12, <2>14, <2>15 DEF WorkflowIInv
<1> QED  BY <1>5, <1>6 DEF Init

(* Every state has rows of the right shapes, and pending commands that     *)
(* still mean what they meant unless the lock they carry is old.           *)
LEMMA WorkflowInvariance == Spec => []WorkflowIInv
<1>1. Init => WorkflowIInv
  BY InitWorkflow
<1>2. WorkflowIInv /\ [Next]_vars => WorkflowIInv'
  BY TypeStep, CommandsStand, ExecutionsStep DEF WorkflowIInv
<1> QED  BY <1>1, <1>2, PTL DEF Spec

(* Every variable keeps its shape, and an instance has an end exactly when *)
(* it does not run: no write of any handler breaks the CHECK of its table. *)
THEOREM TypeCorrect == Spec => []TypeOK
<1>1. WorkflowIInv => TypeOK
  <2>1. SUFFICES ASSUME WorkflowIInv PROVE TypeOK
    OBVIOUS
  <2>2. TypeIInv
    BY <2>1 DEF WorkflowIInv
  <2>3. ASSUME NEW v \in Versions
        PROVE  /\ instance[v].status \in InstanceStatus /\ instance[v].lock \in Nat
               /\ instance[v] = NoInstance \/ instance[v].state \in DOMAIN document.type
               /\ instance[v].ended <=> instance[v].status \notin {None, "Running"}
               /\ exec[v].status \in ExecStatus
    BY <2>2, RowFacts DEF Instance, InstanceIsWhole, Executions
  <2>4. ASSUME NEW v \in Versions, NEW i \in DOMAIN tasks[v] PROVE TaskShape(tasks[v][i])
    BY <2>2, RowFacts DEF Task, TaskShape
  <2>5. document \in Documents /\ version \in [Versions -> [status : VersionStatus, lock : Nat]]
        /\ intents \in [Versions -> Nat]
    BY <2>2 DEF TypeIInv
  <2> QED  BY <2>3, <2>4, <2>5 DEF TypeOK
<1> QED  BY <1>1, WorkflowInvariance, PTL

(* The status of a review is what its decisions make it, whatever the      *)
(* order in which concurrent decisions and reassignments are written.      *)
THEOREM ReviewsAreDecidedByVotes == Spec => []DecisionsDecide
<1>1. Init => DecisionsDecide
  BY InitWorkflow
<1>2. WorkflowIInv /\ DecisionsDecide /\ [Next]_vars => DecisionsDecide'
  BY DecisionsStep DEF WorkflowIInv
<1> QED  BY <1>1, <1>2, WorkflowInvariance, PTL DEF Spec

(* A review that waits is the newest of its version and asks for the state *)
(* a running instance is in, in every graph in which neither a deployment  *)
(* result nor a termination leaves a review state: those two move an       *)
(* instance without closing its review.                                    *)
THEOREM OpenReviewsAreCurrent == ReviewsEndAsReviews => (Spec => []OpenReviewIsCurrent)
<1> SUFFICES ASSUME ReviewsEndAsReviews PROVE Spec => []OpenReviewIsCurrent
  OBVIOUS
<1>1. Init => ReviewIInv
  BY InitWorkflow
<1>2. WorkflowIInv /\ ReviewIInv /\ [Next]_vars => ReviewIInv'
  BY ReviewsStep DEF WorkflowIInv
<1>3. ReviewIInv => OpenReviewIsCurrent
  BY DEF ReviewIInv, OpenOK, OpenReviewIsCurrent
<1> QED  BY <1>1, <1>2, <1>3, WorkflowInvariance, PTL DEF Spec

-----------------------------------------------------------------------------
(* Deployment jobs *)

JobIsApproved(v) ==
  intents'[v] # intents[v] => HasReview(v) /\ tasks'[v][Len(tasks[v])].status = "Approved"

(* Where reviews guard deployments, a transition into a deployment is one  *)
(* that asks for an approval: what an operator may take by hand has        *)
(* conditions about the newest review only.                                *)
LEMMA GuardedEdges ==
  ASSUME ReviewsGuard, NEW command, command.kind = "transition", Proper(command),
         command.edge \in Edges, IsDeployment(command.edge.to)
  PROVE  AsksApproval(command.edge)
<1>1. /\ command.edge.trigger \in {"Manual", "ReviewSatisfied"}
      /\ \A condition \in command.edge.conditions : condition.fact = "review.status"
  BY DEF Proper
<1>2. CASE command.edge.trigger = "Manual"
  <2>1. PICK condition \in command.edge.conditions :
          \/ condition.fact = "deployment.status"
          \/ condition.fact = "review.status" /\ condition.values = {"Approved"}
    BY <1>2 DEF ReviewsGuard, Edges
  <2>2. condition.fact = "review.status" /\ condition.values = {"Approved"}
    BY <1>1, <2>1
  <2> QED  BY <2>2 DEF AsksApproval
<1> QED  BY <1>1, <1>2 DEF AsksApproval

(* An arrival inserts a job in a deployment state only, and leaves the     *)
(* reviews it is given.                                                    *)
LEMMA ArrivalJobs ==
  ASSUME TypeIInv, document' = document, NEW v \in Versions, NEW state \in DOMAIN document.type,
         NEW lock \in Nat, NEW list \in Seq(Task), Arrives(v, state, lock, list)
  PROVE  /\ ~IsDeployment(state) => intents'[v] = intents[v]
         /\ \A i \in 1..Len(list) : tasks'[v][i] = list[i]
<1>1. tasks'[v] = TasksAfter(state, list)
  BY ArrivesTypes
<1>2. document \in Documents /\ intents \in [Versions -> Nat]
  BY DEF TypeIInv
<1>3. \A i \in 1..Len(list) : TasksAfter(state, list)[i] = list[i]
  BY <1>2, TasksAfterShape
<1> QED  BY <1>1, <1>2, <1>3 DEF Arrives, RecordIntent

(* Where reviews guard deployments, a written command inserts a job only   *)
(* for a version whose newest review is approved.                          *)
LEMMA ApplyJobs ==
  ASSUME TypeIInv, CommandsIInv, ReviewsGuard, NEW c \in Processes, Apply(c)
  PROVE  \A v \in Versions : JobIsApproved(v)
<1>0. cmd[c].kind # "idle" /\ cmd[c] \in Commands /\ cmd[c].v \in Versions
  <2>1. cmd[c] \in Commands /\ cmd[c] # Idle
    BY DEF Apply, TypeIInv
  <2> QED  BY <2>1, CommandFacts
<1>1. PICK v \in Versions : v = cmd[c].v /\ \A w \in Versions : w # v => Untouched(w)
  BY <1>0, OthersUntouched
<1>2. SUFFICES JobIsApproved(v)
  BY <1>1 DEF JobIsApproved, Untouched
<1>3. /\ tasks[v] \in Seq(Task) /\ DOMAIN tasks[v] = 1..Len(tasks[v]) /\ Len(tasks[v]) \in Nat
      /\ \A i \in 1..Len(tasks[v]) : tasks[v][i] \in Task
      /\ instance[v].lock \in Nat /\ document \in Documents
  BY RowFacts DEF TypeIInv, Instance
<1>4. CASE cmd[c].kind = "start"
  <2>1. Arrives(v, document.initial, 1, tasks[v]) /\ document' = document
    BY <1>1, <1>4, StartEffect
  <2>2. document.initial \in DOMAIN document.type /\ ~IsDeployment(document.initial)
    BY <1>3, DocumentFacts DEF ReviewsGuard
  <2> QED  BY <1>3, <2>1, <2>2, ArrivalJobs DEF JobIsApproved
<1>5. CASE cmd[c].kind = "transition"
  <2> DEFINE list == ReviewsLeft(v, cmd[c].edge.from)
  <2>1. /\ Arrives(v, cmd[c].edge.to, cmd[c].lock + 1, list) /\ document' = document
        /\ cmd[c].lock \in Nat /\ cmd[c].edge \in Edges
        /\ Proper(cmd[c]) /\ (AsksApproval(cmd[c].edge) => Approval(v))
    BY <1>1, <1>5, TransitionEffect
  <2>2. cmd[c].edge.to \in DOMAIN document.type /\ cmd[c].lock + 1 \in Nat
    BY <1>3, <2>1, DocumentFacts
  <2>3. /\ list \in Seq(Task) /\ Len(list) = Len(tasks[v])
        /\ \A i \in 1..Len(tasks[v]) :
             list[i] = IF tasks[v][i].state = cmd[c].edge.from THEN Closed(tasks[v][i]) ELSE tasks[v][i]
    BY ReviewsLeftShape
  <2> HIDE DEF list
  <2>4. CASE ~IsDeployment(cmd[c].edge.to)
    BY <2>1, <2>2, <2>3, <2>4, ArrivalJobs DEF JobIsApproved
  <2>5. CASE IsDeployment(cmd[c].edge.to)
    <3>1. Approval(v)
      BY <1>5, <2>1, <2>5, GuardedEdges
    <3>2. HasReview(v) /\ Len(tasks[v]) \in 1..Len(tasks[v]) /\ tasks[v][Len(tasks[v])].status = "Approved"
      BY <1>3, <3>1, CurrentFacts DEF Approval
    <3>3. list[Len(tasks[v])].status = "Approved"
      BY <1>3, <2>3, <3>2, ClosedShape
    <3>4. tasks'[v][Len(tasks[v])] = list[Len(tasks[v])]
      BY <2>1, <2>2, <2>3, <3>2, ArrivalJobs
    <3> QED  BY <3>2, <3>3, <3>4 DEF JobIsApproved
  <2> QED  BY <2>4, <2>5
<1>6. CASE cmd[c].kind = "review"
  <2> DEFINE n == cmd[c].stage
             list == DecidedList(tasks[v], n, cmd[c].by, cmd[c].decision, cmd[c].status)
  <2>1. /\ n \in 1..Len(tasks[v]) /\ n = Len(tasks[v]) /\ document' = document /\ cmd[c].lock \in Nat
        /\ cmd[c].by \in Users /\ cmd[c].decision \in {"Approve", "Reject"} /\ cmd[c].status \in TaskStatus
    BY <1>1, <1>6, ReviewEffect
  <2>2. \/ intents' = intents
        \/ cmd[c].status = "Approved" /\ \E edge \in Edges : Arrives(v, edge.to, cmd[c].lock + 1, list)
    BY <1>1, <1>6, ReviewEffect
  <2>3. list \in Seq(Task) /\ Len(list) = Len(tasks[v])
        /\ list[n] = Decision(tasks[v][n], cmd[c].by, cmd[c].decision, cmd[c].status)
    BY <1>3, <2>1, DecidedListShape
  <2>4. list[n].status = cmd[c].status
    BY <1>3, <2>1, <2>3, DecisionShape
  <2> HIDE DEF list
  <2>5. CASE intents' = intents
    BY <2>5 DEF JobIsApproved
  <2>6. ASSUME cmd[c].status = "Approved", NEW edge \in Edges, Arrives(v, edge.to, cmd[c].lock + 1, list)
        PROVE  JobIsApproved(v)
    <3>1. edge.to \in DOMAIN document.type /\ cmd[c].lock + 1 \in Nat
      BY <1>3, <2>1, DocumentFacts
    <3>2. tasks'[v][n] = list[n]
      BY <2>1, <2>3, <2>6, <3>1, ArrivalJobs
    <3>3. HasReview(v)
      BY <1>3, <2>1, EmptySeq DEF HasReview
    <3> QED  BY <2>1, <2>4, <2>6, <3>2, <3>3 DEF JobIsApproved
  <2> QED  BY <2>2, <2>5, <2>6
<1>7. CASE cmd[c].kind \in {"reassignment", "retry", "terminate"}
  <2>1. intents' = intents
    BY <1>7, ReassignmentEffect, ExecutionEffect
  <2> QED  BY <2>1 DEF JobIsApproved
<1> QED  BY <1>0, <1>4, <1>5, <1>6, <1>7, CommandFacts

(* Where reviews guard deployments, every step that inserts a deployment   *)
(* job of a version does so while the newest review of the version is      *)
(* approved, whoever decided on the step and however long ago.             *)
THEOREM JobsFollowApproval == Spec => JobsAreApproved
<1>1. WorkflowIInv /\ [Next]_vars
        => [ReviewsGuard =>
              \A v \in Versions : intents'[v] # intents[v] =>
                HasReview(v) /\ tasks'[v][Len(tasks[v])].status = "Approved"]_vars
  <2>1. SUFFICES ASSUME WorkflowIInv, [Next]_vars, ReviewsGuard
                 PROVE  UNCHANGED vars \/ \A v \in Versions : JobIsApproved(v)
    BY DEF JobIsApproved
  <2>2. TypeIInv /\ CommandsIInv
    BY <2>1 DEF WorkflowIInv
  <2>3. ASSUME NEW c \in Processes, Loads(c) \/ Conflict(c)
        PROVE  \A v \in Versions : JobIsApproved(v)
    <3>1. intents' = intents
      BY <2>3 DEF Loads, LoadStart, LoadRecovery, LoadTransition, LoadDecision, LoadReassignment,
                  LoadExecutionCommand, Decide, Conflict
    <3> QED  BY <3>1 DEF JobIsApproved
  <2>4. ASSUME NEW v \in Versions, DeploymentWorker(v) \/ NewCandidate(v)
        PROVE  \A w \in Versions : JobIsApproved(w)
    <3>1. intents' = intents
      BY <2>4 DEF DeploymentWorker, Prepare, Block, MarkRunning, NodesEnd, Complete, NewCandidate
    <3> QED  BY <3>1 DEF JobIsApproved
  <2>5. ASSUME NEW c \in Processes, Apply(c)
        PROVE  \A v \in Versions : JobIsApproved(v)
    BY <2>1, <2>2, <2>5, ApplyJobs
  <2> QED  BY <2>1, <2>3, <2>4, <2>5, StepCases
<1> QED  BY <1>1, WorkflowInvariance, PTL DEF Spec, JobsAreApproved

-----------------------------------------------------------------------------
(* Superseded versions *)

LeftAlone(v) ==
  version[v].status = "Superseded" =>
    /\ version'[v].status \in {"Superseded", "Terminated"}
    /\ instance[v] # NoInstance => tasks'[v] = tasks[v] /\ intents'[v] = intents[v]
    /\ exec[v].status = None => exec'[v].status = None

(* A command about a superseded version is refused, except a start, which  *)
(* only a version without an instance takes, and a termination.            *)
LEMMA ApplyLeavesAlone ==
  ASSUME TypeIInv, CommandsIInv, ExecIInv, NEW c \in Processes, Apply(c)
  PROVE  \A v \in Versions : LeftAlone(v)
<1>0. cmd[c].kind # "idle" /\ cmd[c] \in Commands /\ cmd[c].v \in Versions
  <2>1. cmd[c] \in Commands /\ cmd[c] # Idle
    BY DEF Apply, TypeIInv
  <2> QED  BY <2>1, CommandFacts
<1>1. PICK v \in Versions : v = cmd[c].v /\ \A w \in Versions : w # v => Untouched(w)
  BY <1>0, OthersUntouched
<1>2. SUFFICES ASSUME version[v].status = "Superseded"
               PROVE  LeftAlone(v)
  BY <1>1 DEF LeftAlone, Untouched
<1>3. ExecutionOK(v) /\ version \in [Versions -> [status : VersionStatus, lock : Nat]]
      /\ exec \in [Versions -> Executions]
  BY DEF ExecIInv, TypeIInv
<1>4. CASE cmd[c].kind = "start"
  <2>1. instance[v] = NoInstance /\ UNCHANGED <<version, exec>>
    BY <1>1, <1>4, StartEffect
  <2> QED  BY <1>2, <2>1 DEF LeftAlone
<1>5. CASE cmd[c].kind \in {"transition", "review", "reassignment"}
  <2>1. Accepts(v, cmd[c].lock)
    BY <1>1, <1>5, TransitionEffect, ReviewEffect, ReassignmentEffect
  <2> QED  BY <1>2, <2>1 DEF Accepts, VersionAccepts
<1>6. CASE cmd[c].kind \in {"retry", "terminate"}
  <2>1. /\ \/ cmd[c].kind = "retry" /\ version[v].status \in {"Failed", "PartialFailed"}
           \/ cmd[c].kind # "retry" /\ exec[v].status \in {"Running", "PartialFailed"}
        /\ version' = [version EXCEPT ![v] =
                         [status |-> IF cmd[c].kind = "retry" THEN "Deploying" ELSE "Terminated",
                          lock |-> version[v].lock + 1]]
        /\ UNCHANGED <<tasks, intents>>
    BY <1>1, <1>6, ExecutionEffect
  <2>2. version'[v].status = "Terminated" /\ exec[v].status # None
    BY <1>2, <1>3, <2>1 DEF None
  <2> QED  BY <2>1, <2>2 DEF LeftAlone
<1> QED  BY <1>0, <1>4, <1>5, <1>6, CommandFacts

(* The deployment worker and a newer candidate leave a superseded version  *)
(* alone: it has no execution that runs.                                   *)
LEMMA WorkerLeavesAlone ==
  ASSUME TypeIInv, CommandsIInv, ExecIInv, NEW v \in Versions, DeploymentWorker(v) \/ NewCandidate(v)
  PROVE  \A w \in Versions : LeftAlone(w)
<1>1. TAKE w \in Versions
<1>2. SUFFICES ASSUME version[w].status = "Superseded"
               PROVE  LeftAlone(w)
  BY DEF LeftAlone
<1>3. exec[w].status \notin {"Preflight", "Running"} /\ instance[w].lock <= version[w].lock
      /\ version \in [Versions -> [status : VersionStatus, lock : Nat]]
      /\ exec \in [Versions -> Executions] /\ tasks \in [Versions -> Seq(Task)]
  BY <1>2 DEF ExecIInv, ExecutionOK, TypeIInv
<1>4. CASE DeploymentWorker(v)
  <2>1. CASE w # v
    BY <1>2, <1>4, <2>1, OthersUntouched DEF LeftAlone, Untouched
  <2>2. CASE w = v
    BY <1>2, <1>3, <1>4, <2>2 DEF DeploymentWorker, Prepare, Block, MarkRunning, NodesEnd, Complete
  <2> QED  BY <2>1, <2>2
<1>5. CASE NewCandidate(v)
  <2>1. w # v /\ w # v + 1
    BY <1>2, <1>5 DEF NewCandidate, None
  <2> QED  BY <1>2, <1>5, <2>1, OthersUntouched DEF LeftAlone, Untouched
<1> QED  BY <1>4, <1>5

(* A superseded version takes no decision, opens no review after its       *)
(* workflow has begun and never deploys, whatever was decided about it     *)
(* before: only a termination of its execution still reaches it.           *)
THEOREM SupersededTakesNothing == Spec => SupersededIsLeftAlone
<1>1. WorkflowIInv /\ [Next]_vars
        => [\A v \in Versions : version[v].status = "Superseded" =>
              /\ version'[v].status \in {"Superseded", "Terminated"}
              /\ instance[v] # NoInstance => tasks'[v] = tasks[v] /\ intents'[v] = intents[v]
              /\ exec[v].status = None => exec'[v].status = None]_vars
  <2>1. SUFFICES ASSUME WorkflowIInv, [Next]_vars
                 PROVE  UNCHANGED vars \/ \A v \in Versions : LeftAlone(v)
    BY DEF LeftAlone
  <2>2. TypeIInv /\ CommandsIInv /\ ExecIInv
    BY <2>1 DEF WorkflowIInv
  <2>3. ASSUME NEW c \in Processes, Loads(c) \/ Conflict(c)
        PROVE  \A v \in Versions : LeftAlone(v)
    <3>1. UNCHANGED <<version, tasks, intents, exec>>
      BY <2>3 DEF Loads, LoadStart, LoadRecovery, LoadTransition, LoadDecision, LoadReassignment,
                  LoadExecutionCommand, Decide, Conflict
    <3> QED  BY <3>1 DEF LeftAlone
  <2>4. ASSUME NEW v \in Versions, DeploymentWorker(v) \/ NewCandidate(v)
        PROVE  \A w \in Versions : LeftAlone(w)
    BY <2>2, <2>4, WorkerLeavesAlone
  <2>5. ASSUME NEW c \in Processes, Apply(c)
        PROVE  \A v \in Versions : LeftAlone(v)
    BY <2>2, <2>5, ApplyLeavesAlone
  <2> QED  BY <2>1, <2>3, <2>4, <2>5, StepCases
<1> QED  BY <1>1, WorkflowInvariance, PTL DEF Spec, SupersededIsLeftAlone

-----------------------------------------------------------------------------
(* Deployed versions *)

Settled(v) ==
  exec[v].status # None =>
    /\ intents'[v] = intents[v] /\ DOMAIN tasks'[v] = DOMAIN tasks[v]
    /\ \A i \in DOMAIN tasks[v] : tasks'[v][i] \in {tasks[v][i], Closed(tasks[v][i])}

(* Preparing an execution advances the lock of the version's row and not   *)
(* that of its instance, so that no transition, decision or reassignment   *)
(* is accepted afterwards.                                                 *)
LEMMA ApplySettles ==
  ASSUME TypeIInv, CommandsIInv, ExecIInv, NEW c \in Processes, Apply(c)
  PROVE  \A v \in Versions : Settled(v)
<1>0. cmd[c].kind # "idle" /\ cmd[c] \in Commands /\ cmd[c].v \in Versions
  <2>1. cmd[c] \in Commands /\ cmd[c] # Idle
    BY DEF Apply, TypeIInv
  <2> QED  BY <2>1, CommandFacts
<1>1. PICK v \in Versions : v = cmd[c].v /\ \A w \in Versions : w # v => Untouched(w)
  BY <1>0, OthersUntouched
<1>2. SUFFICES ASSUME exec[v].status # None
               PROVE  Settled(v)
  BY <1>1 DEF Settled, Untouched
<1>3. instance[v].lock < version[v].lock /\ instance[v].status # None
      /\ instance[v].lock \in Nat /\ version[v].lock \in Nat
  BY <1>2, RowFacts DEF ExecIInv, ExecutionOK, Instance
<1>4. CASE cmd[c].kind = "start"
  BY <1>1, <1>3, <1>4, StartEffect DEF NoInstance
<1>5. CASE cmd[c].kind \in {"transition", "review", "reassignment"}
  <2>1. Accepts(v, cmd[c].lock)
    BY <1>1, <1>5, TransitionEffect, ReviewEffect, ReassignmentEffect
  <2> QED  BY <1>3, <2>1 DEF Accepts, VersionAccepts, InstanceAccepts
<1>6. CASE cmd[c].kind \in {"retry", "terminate"}
  <2>1. UNCHANGED <<tasks, intents>>
    BY <1>6, ExecutionEffect
  <2> QED  BY <2>1 DEF Settled
<1> QED  BY <1>0, <1>4, <1>5, <1>6, CommandFacts

(* What a deployment is followed by is decided by its result, a retry or a *)
(* termination: from the preparation of its first execution on, a version  *)
(* takes no decision and no transition, its workflow inserts no other job, *)
(* and its open reviews are at most closed.                                *)
THEOREM DeployedIsSettled == Spec => [][\A v \in Versions : Settled(v)]_vars
<1>1. WorkflowIInv /\ [Next]_vars => [\A v \in Versions : Settled(v)]_vars
  <2>1. SUFFICES ASSUME WorkflowIInv, [Next]_vars
                 PROVE  UNCHANGED vars \/ \A v \in Versions : Settled(v)
    OBVIOUS
  <2>2. TypeIInv /\ CommandsIInv /\ ExecIInv
    BY <2>1 DEF WorkflowIInv
  <2>3. ASSUME UNCHANGED <<tasks, intents>>
        PROVE  \A v \in Versions : Settled(v)
    BY <2>3 DEF Settled
  <2>4. ASSUME NEW c \in Processes, Loads(c) \/ Conflict(c)
        PROVE  \A v \in Versions : Settled(v)
    <3>1. UNCHANGED <<tasks, intents>>
      BY <2>4 DEF Loads, LoadStart, LoadRecovery, LoadTransition, LoadDecision, LoadReassignment,
                  LoadExecutionCommand, Decide, Conflict
    <3> QED  BY <2>3, <3>1
  <2>5. ASSUME NEW v \in Versions, DeploymentWorker(v)
        PROVE  \A w \in Versions : Settled(w)
    <3>1. UNCHANGED <<tasks, intents>>
      BY <2>5 DEF DeploymentWorker, Prepare, Block, MarkRunning, NodesEnd, Complete
    <3> QED  BY <2>3, <3>1
  <2>6. ASSUME NEW v \in Versions, NewCandidate(v), NEW w \in Versions
        PROVE  Settled(w)
    <3>1. tasks \in [Versions -> Seq(Task)] /\ intents' = intents
          /\ tasks' = [tasks EXCEPT ![v] = [i \in DOMAIN tasks[v] |-> Closed(tasks[v][i])]]
      BY <2>2, <2>6 DEF NewCandidate, TypeIInv
    <3> QED  BY <3>1 DEF Settled
  <2>7. ASSUME NEW c \in Processes, Apply(c)
        PROVE  \A v \in Versions : Settled(v)
    BY <2>2, <2>7, ApplySettles
  <2> QED  BY <2>1, <2>3, <2>4, <2>5, <2>6, <2>7, StepCases DEF vars
<1> QED  BY <1>1, WorkflowInvariance, PTL DEF Spec

==============================================================================
