-------------------------------- MODULE PlanRun --------------------------------
(***************************************************************************)
(* How a plan is carried out: one deployment execution, delivered to the   *)
(* executor as often as its job is retried, and its failed-only retries.   *)
(*                                                                         *)
(* A delivery works on the statuses it loaded, batch by batch: the ready   *)
(* nodes run in parallel and the next batch waits for all of them.  What a *)
(* node does is reduced to its saved statuses; DeploymentExecution has the *)
(* calls, the locks and the operators, and blocked and terminated          *)
(* executions.                                                             *)
(***************************************************************************)
EXTENDS PlanEngine

CONSTANTS
  Plans,        \* plan documents that an execution may have
  Limit,        \* max_parallel_deployments of the worker
  MaxBreaks,    \* bound on infrastructure errors and crashes
  MaxAttempts   \* bound on business attempts: the first and its retries

ASSUME PlanRunAssumption ==
  /\ \A plan \in Plans : plan \in Plan /\ ValidEdges(plan.edges) /\ ~Cyclic(plan.edges)
  /\ Limit \in Nat \ {0}
  /\ MaxBreaks \in Nat
  /\ MaxAttempts \in Nat \ {0}

VARIABLES
  plan,      \* the plan snapshot
  included,  \* nodes whose Application is part of the request
  node,      \* node[n]: saved status of the node
  status,    \* saved status of the execution
  attempt,   \* business attempt
  breaks,    \* infrastructure errors and crashes so far
  pc,        \* the delivery: idle, running the plan, completing
  runtime,   \* runtime[n]: the status of n in the loop of the delivery
  batch,     \* nodes the delivery executes now
  result,    \* result[n]: how the node of the batch ended
  unhealed   \* history: nodes that failed and have not succeeded since

durable == <<plan, included, status, attempt, unhealed>>
vars == <<durable, node, breaks, pc, runtime, batch, result>>

NodeStatuses == {"Excluded", "Waiting", "Syncing", "Succeeded", "Failed", "Skipped"}

Outcomes == {"Succeeded", "Failed", "PartialFailed"}

NoResult == [n \in Nodes |-> "none"]

AtRest == [n \in Nodes |-> "none"]

Init ==
  /\ plan \in Plans
  /\ included \in (SUBSET Nodes) \ {{}}
  /\ node = [n \in Nodes |-> IF n \in included THEN "Waiting" ELSE "Excluded"]
  /\ status = "Running"
  /\ attempt = 1
  /\ breaks = 0
  /\ pc = "idle"
  /\ runtime = AtRest
  /\ batch = {}
  /\ result = NoResult
  /\ unhealed = {}

-----------------------------------------------------------------------------
(* One delivery *)

(* Mutant of LoadedStatus: an operation under way is left to somebody else. *)
LoadedStatusTrustingSyncing(n) ==
  CASE node[n] = "Syncing" -> "Running"
    [] node[n] \in {"Succeeded", "Failed", "Skipped"} -> node[n]
    [] OTHER -> "Queued"

(* Mutant of LoadedStatus: the saved status is taken as it is. *)
LoadedStatusOfColumn(n) == node[n]

LoadedStatus(n) ==
  IF node[n] \in {"Succeeded", "Failed", "Skipped"} THEN node[n] ELSE "Queued"

StopDelivery ==
  /\ pc' = "idle"
  /\ runtime' = AtRest
  /\ batch' = {}
  /\ result' = NoResult

Deliver ==
  /\ pc = "idle"
  /\ status = "Running"
  /\ pc' = "running"
  /\ runtime' = [n \in Nodes |-> IF n \in included THEN LoadedStatus(n) ELSE "none"]
  /\ UNCHANGED <<durable, node, breaks, batch, result>>

HasQueuedNode == \E n \in included : runtime[n] = "Queued"

(* The executor passes no observation of nodes outside of the snapshot. *)
Ready == ReadyNodes(plan, included, runtime, {}, Limit)

BetweenBatches == pc = "running" /\ batch = {}

StartBatch ==
  /\ BetweenBatches
  /\ HasQueuedNode
  /\ Ready # {}
  /\ batch' = Ready
  /\ UNCHANGED <<durable, node, breaks, pc, runtime, result>>

(* "deployment plan has no executable node" is an infrastructure error. *)
NoExecutableNode ==
  /\ BetweenBatches
  /\ HasQueuedNode
  /\ Ready = {}
  /\ StopDelivery
  /\ UNCHANGED <<durable, node, breaks>>

AtWork(n) == n \in batch /\ result[n] = "none"

(* A node without an operation starts one, any other resumes its own. *)
SaveSyncing(n) ==
  /\ AtWork(n)
  /\ node[n] = "Waiting"
  /\ node' = [node EXCEPT ![n] = "Syncing"]
  /\ UNCHANGED <<durable, breaks, pc, runtime, batch, result>>

NodeSucceeds(n) ==
  /\ AtWork(n)
  /\ node[n] = "Syncing"
  /\ node' = [node EXCEPT ![n] = "Succeeded"]
  /\ result' = [result EXCEPT ![n] = "succeeded"]
  /\ unhealed' = unhealed \ {n}
  /\ UNCHANGED <<plan, included, status, attempt, breaks, pc, runtime, batch>>

NodeFails(n) ==
  /\ AtWork(n)
  /\ node[n] = "Syncing"
  /\ node' = [node EXCEPT ![n] = "Failed"]
  /\ result' = [result EXCEPT ![n] = "failed"]
  /\ unhealed' = unhealed \cup {n}
  /\ UNCHANGED <<plan, included, status, attempt, breaks, pc, runtime, batch>>

(* The status of the node cannot be saved. *)
NodeBreaks(n) ==
  /\ AtWork(n)
  /\ breaks < MaxBreaks
  /\ breaks' = breaks + 1
  /\ result' = [result EXCEPT ![n] = "broken"]
  /\ UNCHANGED <<durable, node, pc, runtime, batch>>

BatchEnded == batch # {} /\ \A n \in batch : result[n] # "none"

CollectedRuntime ==
  [n \in Nodes |-> IF n \in batch
                   THEN IF result[n] = "succeeded" THEN "Succeeded" ELSE "Failed"
                   ELSE runtime[n]]

BatchFailed == \E n \in batch : result[n] = "failed"

(* An infrastructure error outweighs failures of nodes: the job is retried. *)
CollectResults ==
  /\ BatchEnded
  /\ IF \E n \in batch : result[n] = "broken"
     THEN StopDelivery
     ELSE /\ pc' = IF BatchFailed THEN "completing" ELSE "running"
          /\ runtime' = CollectedRuntime
          /\ batch' = {}
          /\ result' = NoResult
  /\ UNCHANGED <<durable, node, breaks>>

FinishPlan ==
  /\ BetweenBatches
  /\ ~HasQueuedNode
  /\ pc' = "completing"
  /\ UNCHANGED <<durable, node, breaks, runtime, batch, result>>

FinalStatus(n) == IF node[n] = "Waiting" THEN "Skipped" ELSE node[n]

(* Mutant of AggregateStatus: what was skipped does not count as failed. *)
AggregateIgnoringSkipped(final) ==
  IF \A n \in included : final[n] \in {"Succeeded", "Skipped"} THEN "Succeeded"
  ELSE IF \A n \in included : final[n] # "Succeeded" THEN "Failed"
  ELSE "PartialFailed"

AggregateStatus(final) ==
  IF \A n \in included : final[n] = "Succeeded" THEN "Succeeded"
  ELSE IF \A n \in included : final[n] # "Succeeded" THEN "Failed"
  ELSE "PartialFailed"

(* A node still Syncing makes the aggregation fail, and the job is retried. *)
Complete ==
  LET final == [n \in Nodes |-> FinalStatus(n)] IN
  /\ pc = "completing"
  /\ IF \E n \in included : final[n] = "Syncing"
     THEN UNCHANGED <<node, status>>
     ELSE /\ node' = final
          /\ status' = AggregateStatus(final)
  /\ StopDelivery
  /\ UNCHANGED <<plan, included, attempt, breaks, unhealed>>

(* The process dies or loses its job. *)
Crash ==
  /\ pc # "idle"
  /\ breaks < MaxBreaks
  /\ breaks' = breaks + 1
  /\ StopDelivery
  /\ UNCHANGED <<durable, node>>

-----------------------------------------------------------------------------
(* The operator retries failed Applications in a new attempt. *)

RetriedStatus(n, selected) ==
  CASE node[n] \in {"Excluded", "Succeeded"} -> node[n]
    [] node[n] = "Failed" /\ n \in selected -> "Waiting"
    [] OTHER -> "Skipped"

Retry(selected) ==
  /\ status \in {"Failed", "PartialFailed"}
  /\ attempt < MaxAttempts
  /\ selected # {}
  /\ \A n \in selected : node[n] = "Failed"
  /\ node' = [n \in Nodes |-> RetriedStatus(n, selected)]
  /\ status' = "Running"
  /\ attempt' = attempt + 1
  /\ UNCHANGED <<plan, included, unhealed, breaks, pc, runtime, batch, result>>

-----------------------------------------------------------------------------

NodeStep(n) == SaveSyncing(n) \/ NodeSucceeds(n) \/ NodeFails(n)

Progress ==
  \/ Deliver \/ StartBatch \/ NoExecutableNode \/ CollectResults \/ FinishPlan \/ Complete
  \/ \E n \in Nodes : NodeStep(n)

Next ==
  \/ Progress
  \/ \E n \in Nodes : NodeBreaks(n)
  \/ Crash
  \/ \E selected \in SUBSET Nodes : Retry(selected)

Spec == Init /\ [][Next]_vars

(* The job is delivered until it succeeds, and every node ends. *)
FairSpec == Spec /\ WF_vars(Progress)

-----------------------------------------------------------------------------
(* Properties *)

(* Every variable keeps its shape; the nodes of the request stay the same.   *)
TypeOK ==
  /\ plan \in Plan
  /\ included \in SUBSET Nodes
  /\ node \in [Nodes -> NodeStatuses]
  /\ \A n \in Nodes : n \in included <=> node[n] # "Excluded"
  /\ status \in Outcomes \cup {"Running"}
  /\ attempt \in Nat /\ breaks \in Nat
  /\ pc \in {"idle", "running", "completing"}
  /\ runtime \in [Nodes -> {"none", "Queued", "Running", "Succeeded", "Failed", "Skipped"}]
  /\ batch \subseteq included
  /\ result \in [Nodes -> {"none", "succeeded", "failed", "broken"}]
  /\ unhealed \subseteq Nodes

Started(n) == node[n] \in {"Syncing", "Succeeded", "Failed"}

(* Whatever crashes, redeliveries and retries happen, an Application is      *)
(* touched only after all the Applications of the request it depends on have *)
(* been deployed.                                                            *)
DependenciesFirst ==
  \A e \in plan.edges :
    Started(e.to) /\ e.from \in included => node[e.from] = "Succeeded"

InFlight == {n \in Nodes : node[n] = "Syncing"}

(* Without infrastructure errors, the operations under way respect the limit *)
(* of the worker and that of the plan.                                       *)
InFlightWithinLimits ==
  breaks = 0 => /\ Cardinality(InFlight) <= Limit
                /\ plan.maxParallel # 0 => Cardinality(InFlight) <= plan.maxParallel

(* Without infrastructure errors, a failure stops the rollout: only the batch *)
(* it belongs to goes on.                                                     *)
FailureStopsRollout ==
  [][\A n \in Nodes :
       /\ breaks = 0
       /\ node[n] = "Waiting" /\ node'[n] = "Syncing"
       => \A m \in Nodes \ batch : node[m] # "Failed"]_vars

(* A deployed Application is never deployed again, by no delivery or retry.   *)
SuccessIsKept ==
  [][\A n \in Nodes : node[n] = "Succeeded" => node'[n] = "Succeeded"]_vars

(* The outcome tells what is deployed: everything, nothing or a part, and     *)
(* nothing is left under way when there is one.                               *)
OutcomeTellsWhatIsDeployed ==
  /\ status = "Succeeded" => \A n \in included : node[n] = "Succeeded"
  /\ status = "Failed" => \A n \in included : node[n] \in {"Failed", "Skipped"}
  /\ status = "PartialFailed" =>
       /\ \E n \in included : node[n] = "Succeeded"
       /\ \E n \in included : node[n] \in {"Failed", "Skipped"}
       /\ InFlight = {}

(* A node that no delivery will ever execute: an upstream has failed, or is    *)
(* outside of the request and should be healthy.                               *)
DeadEnd ==
  \E e \in plan.edges :
    /\ node[e.to] = "Waiting"
    /\ \/ e.from \in included /\ node[e.from] \in {"Failed", "Skipped"}
       \/ e.from \notin included /\ e.condition = "PrerequisiteHealthy"

(* In the end there is an outcome, or a node is waiting for an upstream that   *)
(* will never do.                                                              *)
EndsOrDeadEnd == <>[](status # "Running" \/ DeadEnd)

(* The code does not ensure the rest.                                          *)

(* A retried job ends in an outcome ("safe takeover followed by completion or  *)
(* an explicit Blocked or failed state").                                      *)
RunEnds == status = "Running" ~> status # "Running"

(* A node whose excluded upstreams are all healthy is executable, as the test  *)
(* of the plan engine expects.                                                 *)
HealthyPrerequisiteAdmits ==
  BetweenBatches /\ HasQueuedNode /\ ReadyNodes(plan, included, runtime, Nodes, Limit) # {}
    => Ready # {}

(* When retries have succeeded for all failed Applications, the execution has  *)
(* succeeded.                                                                  *)
RetryHeals == attempt > 1 /\ status \in Outcomes /\ unhealed = {} => status = "Succeeded"

==============================================================================
