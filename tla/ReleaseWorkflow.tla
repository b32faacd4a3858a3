---------------------------- MODULE ReleaseWorkflow ----------------------------
(***************************************************************************)
(* The release workflow of a deployment request: the graph its versions    *)
(* are pinned to, the review tasks the graph opens, and the commands that  *)
(* move a version's workflow instance.  Operators decide on a snapshot     *)
(* (Load), then write what they decided in one transaction (Apply), and    *)
(* so does the candidate worker that starts instances and moves approved   *)
(* reviews on.  The deployment worker writes its results without a         *)
(* snapshot, and a newer candidate supersedes a version without one.       *)
(*                                                                         *)
(* A deployment execution is reduced to its status; DeploymentExecution    *)
(* has its inside.  Every command carries an idempotency key of its own.   *)
(***************************************************************************)
EXTENDS Integers, Sequences, FiniteSets

CONSTANTS
  LastVersion,  \* versions of one deployment request
  Users,        \* operators
  Creator,      \* the operator the versions were created by
  Roles,        \* roles a review may be assigned to
  Members,      \* Members[r]: the users that have role r
  Documents,    \* the workflow documents a request may be pinned to
  Assignments,  \* the assignments a reassignment may ask for
  Clients,      \* concurrent requests of operators
  Worker,       \* the candidate worker
  MaxLock       \* bound on the lock version of an instance

PolicyTypes == {"AnyApprover", "MinimumApprovals", "AllApprovers", "RoleMinimumOne", "SequentialStages"}

StateTypes == {"Start", "Review", "ManualAction", "Deployment", "Terminal"}

Triggers == {"Automatic", "Manual", "ReviewSatisfied", "DeploymentResult"}

ValidPolicy(policy) ==
  /\ policy.type \in PolicyTypes
  /\ policy.required \in Nat \ {0}
  /\ policy.self \in BOOLEAN
  /\ policy.users \subseteq Users /\ policy.roles \subseteq Roles
  /\ policy.users \cup policy.roles # {}
  /\ policy.type = "RoleMinimumOne" => policy.roles # {}

(* Exactly the review states have a policy. *)
ValidStates(value) ==
  /\ \A state \in DOMAIN value.type : value.type[state] \in StateTypes
  /\ DOMAIN value.policy = {state \in DOMAIN value.type : value.type[state] = "Review"}
  /\ \A state \in DOMAIN value.policy : ValidPolicy(value.policy[state])

(* A condition lists the values of a fact that satisfy it. *)
ValidEdge(value, edge) ==
  /\ {edge.from, edge.to} \subseteq DOMAIN value.type
  /\ edge.trigger \in Triggers
  /\ \A condition \in edge.conditions : condition.values # {}

ValidDocument(value) ==
  /\ ValidStates(value)
  /\ value.initial \in DOMAIN value.type
  /\ IsFiniteSet(value.edges) /\ \A edge \in value.edges : ValidEdge(value, edge)

ASSUME ReleaseWorkflowAssumption ==
  /\ \A value \in Documents : ValidDocument(value)
  /\ LastVersion \in Nat \ {0}
  /\ IsFiniteSet(Users) /\ Creator \in Users
  /\ Members \in [Roles -> SUBSET Users]
  /\ \A assignment \in Assignments :
       assignment.users \subseteq Users /\ assignment.roles \subseteq Roles
  /\ Worker \notin Clients
  /\ MaxLock \in Nat

VARIABLES
  document,  \* the workflow document of the request's versions
  version,   \* version[v]: status and lock version of a request version
  instance,  \* instance[v]: its workflow instance
  tasks,     \* tasks[v]: its review tasks; the index is the stage number
  intents,   \* intents[v]: deployment jobs its workflow has inserted
  exec,      \* exec[v]: its latest execution: status, the outcome of its nodes
             \* once they have ended, and a fence that every result and
             \* operator command advances
  cmd        \* cmd[c]: what a client or the worker has decided but not written

vars == <<document, version, instance, tasks, intents, exec, cmd>>

Versions == 1..LastVersion

Processes == Clients \cup {Worker}

None == "none"

VersionStatus == {None, "Candidate", "Deploying", "Succeeded", "Failed", "PartialFailed",
                  "Superseded", "Terminated"}

InstanceStatus == {None, "Running", "Completed", "Blocked", "Superseded"}

TaskStatus == {"Pending", "Approved", "Rejected", "Closed"}

ExecStatus == {None, "Preflight", "Running", "Blocked", "Succeeded", "Failed",
               "PartialFailed", "Terminated"}

NoInstance == [status |-> None, state |-> None, lock |-> 0, ended |-> FALSE]

Idle == [kind |-> "idle"]

-----------------------------------------------------------------------------
(* The graph *)

Holds(condition, facts) ==
  condition.fact \in DOMAIN facts /\ facts[condition.fact] \in condition.values

ConditionsMatch(edge, facts) == \A condition \in edge.conditions : Holds(condition, facts)

EdgesFrom(state, trigger, facts) ==
  {edge \in document.edges :
     edge.from = state /\ edge.trigger = trigger /\ ConditionsMatch(edge, facts)}

The(edges) == CHOOSE edge \in edges : TRUE

IsReview(state) == document.type[state] = "Review"

IsDeployment(state) == document.type[state] = "Deployment"

(* An instance that arrives in a state. *)
Arrived(state, lock) ==
  [status |-> IF document.type[state] = "Terminal" THEN "Completed" ELSE "Running",
   state |-> state, lock |-> lock, ended |-> document.type[state] = "Terminal"]

-----------------------------------------------------------------------------
(* Review tasks *)

NoDecisions == [u \in Users |-> None]

NewTask(state) ==
  LET policy == document.policy[state]
  IN  [state |-> state, status |-> "Pending", type |-> policy.type,
       required |-> policy.required, self |-> policy.self,
       users |-> policy.users, roles |-> policy.roles, decided |-> NoDecisions]

Eligible(task) == task.users \cup UNION {Members[r] : r \in task.roles}

Approvers(task) == {u \in Users : task.decided[u] = "Approve"}

Rejected(task) == \E u \in Users : task.decided[u] = "Reject"

ApprovalsSatisfied(task) ==
  CASE task.type = "AnyApprover" -> Approvers(task) # {}
    [] task.type \in {"MinimumApprovals", "SequentialStages"} ->
         Cardinality(Approvers(task)) >= task.required
    [] task.type = "AllApprovers" ->
         /\ Eligible(task) # {}
         /\ Cardinality(Approvers(task)) >= Cardinality(Eligible(task))
    [] task.type = "RoleMinimumOne" ->
         task.roles # {} /\ \A r \in task.roles : Members[r] \cap Approvers(task) # {}

NextStatus(task) ==
  IF Rejected(task) THEN "Rejected" ELSE IF ApprovalsSatisfied(task) THEN "Approved" ELSE "Pending"

MayDecide(task, u) ==
  /\ task.status = "Pending"
  /\ task.decided[u] = None
  /\ task.self \/ u # Creator
  /\ u \in Eligible(task)

Decided(task, u, decision) ==
  LET with == [task EXCEPT !.decided[u] = decision]
  IN  [with EXCEPT !.status = NextStatus(with)]

Reassigned(task, assignment) ==
  [task EXCEPT !.users = assignment.users, !.roles = assignment.roles, !.status = "Pending"]

HasReview(v) == tasks[v] # <<>>

CurrentReview(v) == tasks[v][Len(tasks[v])]

Closed(task) == IF task.status = "Pending" THEN [task EXCEPT !.status = "Closed"] ELSE task

(* Mutant of ReviewsLeft: the review of the state that is left stays open. *)
ReviewsLeftOpen(v, state) == tasks[v]

ReviewsLeft(v, state) ==
  [i \in DOMAIN tasks[v] |-> IF tasks[v][i].state = state THEN Closed(tasks[v][i]) ELSE tasks[v][i]]

-----------------------------------------------------------------------------

Fresh(v) == IF v = 1 THEN [status |-> "Candidate", lock |-> 1] ELSE [status |-> None, lock |-> 0]

(* Either nothing has started, or an older release left version 1 in a     *)
(* review state whose review is approved, without moving it on.            *)
Init ==
  /\ document \in Documents
  /\ intents = [v \in Versions |-> 0]
  /\ exec = [v \in Versions |-> [status |-> None, outcome |-> None, fence |-> 0]]
  /\ cmd = [c \in Processes |-> Idle]
  /\ \/ /\ version = [v \in Versions |-> Fresh(v)]
        /\ instance = [v \in Versions |-> NoInstance]
        /\ tasks = [v \in Versions |-> <<>>]
     \/ \E state \in DOMAIN document.policy, approvers \in SUBSET Users :
          LET task == [NewTask(state) EXCEPT !.decided =
                         [u \in Users |-> IF u \in approvers THEN "Approve" ELSE None]]
          IN  /\ approvers \subseteq Eligible(task) \ {Creator}
              /\ NextStatus(task) = "Approved"
              /\ version = [v \in Versions |-> [Fresh(v) EXCEPT !.lock = IF v = 1 THEN 2 ELSE 0]]
              /\ instance = [v \in Versions |-> IF v = 1 THEN Arrived(state, 2) ELSE NoInstance]
              /\ tasks = [v \in Versions |->
                            IF v = 1 THEN <<[task EXCEPT !.status = "Approved"]>> ELSE <<>>]

-----------------------------------------------------------------------------
(* Commands are decided on a snapshot *)

Decide(c, command) ==
  /\ cmd[c] = Idle
  /\ cmd' = [cmd EXCEPT ![c] = command]
  /\ UNCHANGED <<document, version, instance, tasks, intents, exec>>

LoadStart(v) ==
  /\ version[v].status \notin {None, "Succeeded", "Failed", "Superseded", "Terminated"}
  /\ instance[v] = NoInstance
  /\ Decide(Worker, [kind |-> "start", v |-> v])

TransitionFacts(v) ==
  IF HasReview(v) /\ CurrentReview(v).state = instance[v].state
  THEN [fact \in {"review.status"} |-> CurrentReview(v).status]
  ELSE [fact \in {} |-> None]

(* An operator may ask for a manual edge only. *)
LoadTransition(c, v) ==
  /\ instance[v].lock < MaxLock
  /\ instance[v].status = "Running"
  /\ \E edge \in EdgesFrom(instance[v].state, "Manual", TransitionFacts(v)) :
       Decide(c, [kind |-> "transition", v |-> v, lock |-> instance[v].lock, edge |-> edge])

ApprovedFacts == [fact \in {"review.status"} |-> "Approved"]

(* The edge that an approved review of the current state takes: none, or   *)
(* an only one; a graph with several refuses the last approval.            *)
ReviewEdges(v, task) ==
  IF task.status = "Approved" /\ task.state = instance[v].state
  THEN EdgesFrom(instance[v].state, "ReviewSatisfied", ApprovedFacts)
  ELSE {}

LoadDecision(c, v, u, decision) ==
  /\ instance[v].lock < MaxLock
  /\ HasReview(v)
  /\ MayDecide(CurrentReview(v), u)
  /\ LET task == Decided(CurrentReview(v), u, decision)
         edges == ReviewEdges(v, task)
     IN  /\ Cardinality(edges) <= 1
         /\ edges # {} => instance[v].status = "Running"
         /\ Decide(c, [kind |-> "review", v |-> v, lock |-> instance[v].lock,
                       stage |-> Len(tasks[v]), by |-> u, decision |-> decision,
                       status |-> task.status, edges |-> edges])

LoadReassignment(c, v, assignment) ==
  /\ instance[v].lock < MaxLock
  /\ HasReview(v)
  /\ CurrentReview(v).status = "Pending"
  /\ Decide(c, [kind |-> "reassignment", v |-> v, lock |-> instance[v].lock,
                stage |-> Len(tasks[v]), assignment |-> assignment])

(* Mutant of LoadRecovery: the worker looks for reviews that are open. *)
LoadRecoveryOfOpen(v) ==
  /\ HasReview(v)
  /\ instance[v].status = "Running"
  /\ CurrentReview(v).status = "Pending"
  /\ LET edges == ReviewEdges(v, CurrentReview(v))
     IN  /\ Cardinality(edges) = 1
         /\ Decide(Worker, [kind |-> "transition", v |-> v, lock |-> instance[v].lock,
                            edge |-> The(edges)])

LoadRecovery(v) ==
  /\ HasReview(v)
  /\ instance[v].status = "Running"
  /\ LET edges == ReviewEdges(v, CurrentReview(v))
     IN  /\ Cardinality(edges) = 1
         /\ Decide(Worker, [kind |-> "transition", v |-> v, lock |-> instance[v].lock,
                            edge |-> The(edges)])

(* Retry and termination of the latest execution take the only manual edge *)
(* that asks for their permission.                                         *)
LoadExecutionCommand(c, v, name) ==
  LET facts == [fact \in {"deployment.status"} |-> exec[v].status]
      edges == {edge \in EdgesFrom(instance[v].state, "Manual", facts) : edge.permission = name}
  IN  /\ \/ name = "retry" /\ exec[v].status \in {"Failed", "PartialFailed"}
         \/ name = "terminate" /\ exec[v].status \in {"Running", "PartialFailed"}
      /\ instance[v].status = "Running"
      /\ instance[v].lock < MaxLock
      /\ Cardinality(edges) = 1
      /\ Decide(c, [kind |-> name, v |-> v, lock |-> instance[v].lock,
                    edge |-> The(edges), fence |-> exec[v].fence])

-----------------------------------------------------------------------------
(* and written in one transaction. *)

VersionAccepts(v, lock) ==
  version[v].lock = lock /\ version[v].status \notin {"Superseded", "Terminated"}

InstanceAccepts(v, lock) == instance[v].lock = lock

(* Mutant of Accepts: the rows are matched by their keys. *)
AcceptsAnyLock(v, lock) == version[v].status \notin {"Superseded", "Terminated"}

Accepts(v, lock) == VersionAccepts(v, lock) /\ InstanceAccepts(v, lock)

(* Both rows of a version advance together under a user's command. *)
AdvanceVersion(v, lock) == version' = [version EXCEPT ![v].lock = lock + 1]

(* What the arrival in a state adds: a review task, or a deployment job. *)
OpenReview(v, state, taskList) ==
  tasks' = [tasks EXCEPT ![v] = IF IsReview(state) THEN Append(taskList, NewTask(state)) ELSE taskList]

RecordIntent(v, state) ==
  intents' = [intents EXCEPT ![v] = IF IsDeployment(state) THEN @ + 1 ELSE @]

Start(command) ==
  LET v == command.v
  IN  /\ instance[v] = NoInstance
      /\ instance' = [instance EXCEPT ![v] = Arrived(document.initial, 1)]
      /\ OpenReview(v, document.initial, tasks[v])
      /\ RecordIntent(v, document.initial)
      /\ UNCHANGED <<version, exec>>

ApplyTransition(command) ==
  LET v == command.v
  IN  /\ Accepts(v, command.lock)
      /\ AdvanceVersion(v, command.lock)
      /\ instance' = [instance EXCEPT ![v] = Arrived(command.edge.to, command.lock + 1)]
      /\ OpenReview(v, command.edge.to, ReviewsLeft(v, command.edge.from))
      /\ RecordIntent(v, command.edge.to)
      /\ UNCHANGED exec

ApplyReview(command) ==
  LET v == command.v
      updated == [tasks[v] EXCEPT ![command.stage].status = command.status,
                                  ![command.stage].decided[command.by] = command.decision]
  IN  /\ Accepts(v, command.lock)
      /\ tasks[v][command.stage].status = "Pending"
      /\ tasks[v][command.stage].decided[command.by] = None
      /\ AdvanceVersion(v, command.lock)
      /\ IF command.edges = {}
         THEN /\ instance' = [instance EXCEPT ![v].lock = command.lock + 1]
              /\ tasks' = [tasks EXCEPT ![v] = updated]
              /\ UNCHANGED intents
         ELSE LET to == The(command.edges).to
              IN  /\ instance' = [instance EXCEPT ![v] = Arrived(to, command.lock + 1)]
                  /\ OpenReview(v, to, updated)
                  /\ RecordIntent(v, to)
      /\ UNCHANGED exec

ApplyReassignment(command) ==
  LET v == command.v
  IN  /\ Accepts(v, command.lock)
      /\ tasks[v][command.stage].status = "Pending"
      /\ AdvanceVersion(v, command.lock)
      /\ instance' = [instance EXCEPT ![v].lock = command.lock + 1]
      /\ tasks' = [tasks EXCEPT ![v][command.stage] = Reassigned(@, command.assignment)]
      /\ UNCHANGED <<intents, exec>>

(* The new attempt has a job of its own, so the arrival inserts none, and  *)
(* it opens no review.                                                     *)
Retry(command) ==
  LET v == command.v
  IN  /\ exec[v].fence = command.fence
      /\ InstanceAccepts(v, command.lock)
      /\ version[v].status \in {"Failed", "PartialFailed"}
      /\ version' = [version EXCEPT ![v] = [status |-> "Deploying", lock |-> @.lock + 1]]
      /\ instance' = [instance EXCEPT ![v] = Arrived(command.edge.to, command.lock + 1)]
      /\ exec' = [exec EXCEPT ![v] = [status |-> "Preflight", outcome |-> None, fence |-> @.fence + 1]]
      /\ UNCHANGED <<tasks, intents>>

(* The version row is matched by its key alone. *)
Terminate(command) ==
  LET v == command.v
  IN  /\ exec[v].fence = command.fence
      /\ exec[v].status \in {"Running", "PartialFailed"}
      /\ InstanceAccepts(v, command.lock)
      /\ version' = [version EXCEPT ![v] = [status |-> "Terminated", lock |-> @.lock + 1]]
      /\ instance' = [instance EXCEPT ![v] = Arrived(command.edge.to, command.lock + 1)]
      /\ exec' = [exec EXCEPT ![v] = [status |-> "Terminated", outcome |-> None, fence |-> @.fence + 1]]
      /\ UNCHANGED <<tasks, intents>>

Write(command) ==
  \/ command.kind = "start" /\ Start(command)
  \/ command.kind = "transition" /\ ApplyTransition(command)
  \/ command.kind = "review" /\ ApplyReview(command)
  \/ command.kind = "reassignment" /\ ApplyReassignment(command)
  \/ command.kind = "retry" /\ Retry(command)
  \/ command.kind = "terminate" /\ Terminate(command)

(* A transaction that finds the rows changed is rolled back: a conflict. *)
Apply(c) ==
  /\ cmd[c] # Idle
  /\ cmd' = [cmd EXCEPT ![c] = Idle]
  /\ Write(cmd[c])
  /\ UNCHANGED document

Refused(command) == command # Idle /\ ~ENABLED Write(command)

Conflict(c) ==
  /\ Refused(cmd[c])
  /\ cmd' = [cmd EXCEPT ![c] = Idle]
  /\ UNCHANGED <<document, version, instance, tasks, intents, exec>>

-----------------------------------------------------------------------------
(* The deployment worker *)

(* The first delivery of a version's deployment job. *)
Prepare(v) ==
  /\ intents[v] > 0
  /\ exec[v].status = None
  /\ version[v].status \notin {"Superseded", "Terminated", "Succeeded", "Failed"}
  /\ version' = [version EXCEPT ![v] = [status |-> "Deploying", lock |-> @.lock + 1]]
  /\ exec' = [exec EXCEPT ![v].status = "Preflight"]
  /\ UNCHANGED <<document, instance, tasks, intents, cmd>>

(* Preflight finds other content than was reviewed. *)
Block(v) ==
  /\ exec[v].status = "Preflight"
  /\ version' = [version EXCEPT ![v] = [status |-> "Superseded", lock |-> @.lock + 1]]
  /\ exec' = [exec EXCEPT ![v].status = "Blocked"]
  /\ UNCHANGED <<document, instance, tasks, intents, cmd>>

MarkRunning(v) ==
  /\ exec[v].status = "Preflight"
  /\ exec' = [exec EXCEPT ![v].status = "Running"]
  /\ UNCHANGED <<document, version, instance, tasks, intents, cmd>>

NodesEnd(v, outcome) ==
  /\ exec[v].status = "Running" /\ exec[v].outcome = None
  /\ exec' = [exec EXCEPT ![v].outcome = outcome]
  /\ UNCHANGED <<document, version, instance, tasks, intents, cmd>>

ResultEdges(v) ==
  EdgesFrom(instance[v].state, "DeploymentResult",
            [fact \in {"deployment.status"} |-> exec[v].outcome])

(* The result has an edge of its own that leads to neither a review nor    *)
(* another deployment.                                                     *)
ResultAdvances(v) ==
  /\ instance[v].status = "Running"
  /\ Cardinality(ResultEdges(v)) = 1
  /\ ~IsReview(The(ResultEdges(v)).to) /\ ~IsDeployment(The(ResultEdges(v)).to)

(* A result without a way on blocks the instance, but leaves it without an *)
(* end: the table refuses that row unless the instance has ended before,   *)
(* and with it the whole result.                                           *)
Complete(v) ==
  LET lock == instance[v].lock + 1
  IN  /\ exec[v].status = "Running" /\ exec[v].outcome # None
      /\ \/ /\ ResultAdvances(v)
            /\ instance' = [instance EXCEPT ![v] = Arrived(The(ResultEdges(v)).to, lock)]
         \/ /\ ~ResultAdvances(v) /\ instance[v].ended
            /\ instance' = [instance EXCEPT ![v].status = "Blocked", ![v].lock = lock]
      /\ version' = [version EXCEPT ![v] = [status |-> exec[v].outcome, lock |-> @.lock + 1]]
      /\ exec' = [exec EXCEPT ![v] = [status |-> exec[v].outcome, outcome |-> None, fence |-> @.fence + 1]]
      /\ UNCHANGED <<document, tasks, intents, cmd>>

-----------------------------------------------------------------------------
(* A newer candidate supersedes the version and its workflow. *)

NewCandidate(v) ==
  /\ v + 1 \in Versions
  /\ version[v + 1].status = None
  /\ version[v].status \notin {None, "Succeeded", "Failed", "Superseded", "Terminated", "Deploying"}
  /\ version' = [version EXCEPT ![v].status = "Superseded",
                               ![v + 1] = [status |-> "Candidate", lock |-> 1]]
  /\ instance' = [instance EXCEPT ![v] =
                    IF @ = NoInstance THEN @ ELSE [@ EXCEPT !.status = "Superseded", !.ended = TRUE]]
  /\ tasks' = [tasks EXCEPT ![v] = [i \in DOMAIN @ |-> Closed(@[i])]]
  /\ UNCHANGED <<document, intents, exec, cmd>>

-----------------------------------------------------------------------------

Operator(c) ==
  \/ \E v \in Versions : LoadTransition(c, v)
  \/ \E v \in Versions, u \in Users, decision \in {"Approve", "Reject"} : LoadDecision(c, v, u, decision)
  \/ \E v \in Versions, assignment \in Assignments : LoadReassignment(c, v, assignment)
  \/ \E v \in Versions, name \in {"retry", "terminate"} : LoadExecutionCommand(c, v, name)
  \/ Apply(c)
  \/ Conflict(c)

CandidateWorker ==
  \/ \E v \in Versions : LoadStart(v)
  \/ \E v \in Versions : LoadRecovery(v)
  \/ Apply(Worker)
  \/ Conflict(Worker)

DeploymentWorker(v) ==
  \/ Prepare(v)
  \/ Block(v)
  \/ MarkRunning(v)
  \/ \E outcome \in {"Succeeded", "Failed", "PartialFailed"} : NodesEnd(v, outcome)
  \/ Complete(v)

Next ==
  \/ \E c \in Clients : Operator(c)
  \/ CandidateWorker
  \/ \E v \in Versions : DeploymentWorker(v)
  \/ \E v \in Versions : NewCandidate(v)

Spec == Init /\ [][Next]_vars

(* The workers poll; nobody makes an operator act. *)
FairSpec ==
  /\ Spec
  /\ WF_vars(CandidateWorker)
  /\ \A v \in Versions : WF_vars(DeploymentWorker(v))

-----------------------------------------------------------------------------
(* Properties *)

TaskShape(task) ==
  /\ task.state \in DOMAIN document.policy
  /\ task.status \in TaskStatus
  /\ task.users \subseteq Users /\ task.roles \subseteq Roles
  /\ task.decided \in [Users -> {None, "Approve", "Reject"}]

(* Every variable has its shape, and an instance runs exactly as long as   *)
(* it has no end: the CHECK of its table.                                  *)
TypeOK ==
  /\ document \in Documents
  /\ version \in [Versions -> [status : VersionStatus, lock : Nat]]
  /\ \A v \in Versions :
       /\ instance[v].status \in InstanceStatus /\ instance[v].lock \in Nat
       /\ instance[v] = NoInstance \/ instance[v].state \in DOMAIN document.type
       /\ instance[v].ended <=> instance[v].status \notin {None, "Running"}
       /\ \A i \in DOMAIN tasks[v] : TaskShape(tasks[v][i])
       /\ exec[v].status \in ExecStatus
  /\ intents \in [Versions -> Nat]

(* The status of a review is what its decisions make it, whatever the      *)
(* order in which concurrent decisions and reassignments were written: an  *)
(* approved review has the approvals its policy asks for and no rejection, *)
(* and none that a rejection or enough approvals decide is still pending.  *)
(* A reassignment may leave a review of all its approvers with enough.     *)
DecisionsDecide ==
  \A v \in Versions : \A i \in DOMAIN tasks[v] :
    LET task == tasks[v][i]
    IN  /\ task.status = "Approved" => ApprovalsSatisfied(task) /\ ~Rejected(task)
        /\ task.status = "Rejected" => Rejected(task)
        /\ task.status = "Pending" =>
             /\ ~Rejected(task)
             /\ task.type = "MinimumApprovals" => Cardinality(Approvers(task)) < task.required

(* A review that waits for a decision is the newest of its version and     *)
(* asks for the state a running instance is in; a version whose workflow   *)
(* has moved on or was superseded has none.                                *)
OpenReviewIsCurrent ==
  \A v \in Versions : \A i \in DOMAIN tasks[v] :
    tasks[v][i].status = "Pending" =>
      /\ i = Len(tasks[v])
      /\ instance[v].status = "Running"
      /\ instance[v].state = tasks[v][i].state

(* Reviews guard deployments when no workflow begins with one, and every   *)
(* manual way into a deployment asks for an approved review, or for the    *)
(* status of an execution before it, as a retry does.                      *)
ReviewsGuard ==
  /\ ~IsDeployment(document.initial)
  /\ \A edge \in document.edges :
       edge.trigger = "Manual" /\ IsDeployment(edge.to) =>
         \E condition \in edge.conditions :
           \/ condition.fact = "deployment.status"
           \/ condition.fact = "review.status" /\ condition.values = {"Approved"}

(* Where reviews guard deployments, a deployment job is inserted only      *)
(* while the newest review of the version is approved, by a decision of    *)
(* this step or an earlier one.                                            *)
JobsAreApproved ==
  [][ReviewsGuard =>
       \A v \in Versions : intents'[v] # intents[v] =>
         HasReview(v) /\ tasks'[v][Len(tasks[v])].status = "Approved"]_vars

(* A superseded version takes no decision, opens no review after its       *)
(* workflow has begun and never deploys: whatever operators and workers    *)
(* decided about it before is refused.  An operator's termination of its   *)
(* execution is the one thing that still reaches it.                       *)
SupersededIsLeftAlone ==
  [][\A v \in Versions : version[v].status = "Superseded" =>
       /\ version'[v].status \in {"Superseded", "Terminated"}
       /\ instance[v] # NoInstance => tasks'[v] = tasks[v] /\ intents'[v] = intents[v]
       /\ exec[v].status = None => exec'[v].status = None]_vars

ApprovedWaits(v) ==
  /\ instance[v].status = "Running"
  /\ HasReview(v)
  /\ Cardinality(ReviewEdges(v, CurrentReview(v))) = 1

(* An approved review does not hold its version in the reviewed state when *)
(* the graph has a way on, even one that was approved under an older       *)
(* release: some worker moves it on, unless something else ends it.        *)
ApprovedMovesOn == \A v \in Versions : ApprovedWaits(v) ~> ~ApprovedWaits(v)

(* docs: "Superseded --> [*]", the end of a version and of its workflow.    *)
SupersededIsFinal ==
  [][\A v \in Versions : version[v].status = "Superseded" => version'[v].status = "Superseded"]_vars

(* docs: a deployment result that cannot legally advance the graph produces *)
(* Blocked, and any other advances it: a result never waits for ever.       *)
ResultIsRecorded ==
  \A v \in Versions : exec[v].outcome # None ~> exec[v].outcome = None

(* docs: reviews and manual transitions can advance the graph while the    *)
(* instance remains Running.  At rest - not while it deploys - a version    *)
(* accepts the manual edges its instance offers.                            *)
RunningCanAdvance ==
  \A v \in Versions :
    /\ instance[v].status = "Running"
    /\ version[v].status \in {"Candidate", "Failed", "PartialFailed"}
    /\ EdgesFrom(instance[v].state, "Manual", TransitionFacts(v)) # {}
    => VersionAccepts(v, instance[v].lock)

==============================================================================
