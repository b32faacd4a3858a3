----------------------------- MODULE PlanRunProofs -----------------------------
(***************************************************************************)
(* For every plan: dependencies come first, successes are kept and the     *)
(* outcome is the truth, through every crash, redelivery and retry. When   *)
(* nothing breaks, limits are kept and a failure stops what comes after.   *)
(*                                                                         *)
(* The argument: a delivery believes only successes that were saved, so    *)
(* the nodes of its batch have saved successes for upstreams; and no step  *)
(* takes a saved success away.                                             *)
(***************************************************************************)
EXTENDS PlanRun, FiniteSetTheorems, TLAPS

(* The upstreams of n that are part of the request are deployed. *)
UpstreamsDeployed(n) ==
  \A e \in plan.edges : e.to = n /\ e.from \in included => node[e.from] = "Succeeded"

IInv ==
  /\ TypeOK
  /\ \A n \in Nodes : runtime[n] = "Succeeded" => node[n] = "Succeeded"
  /\ \A n \in Nodes : result[n] = "succeeded" => node[n] = "Succeeded"
  /\ \A n \in batch : UpstreamsDeployed(n)
  /\ \A n \in Nodes : Started(n) => UpstreamsDeployed(n)
  /\ status # "Running" => pc = "idle" /\ batch = {}
  /\ OutcomeTellsWhatIsDeployed

(* The edges of a plan join its nodes. *)
LEMMA PlanEdges ==
  ASSUME TypeOK
  PROVE  \A e \in plan.edges : e.from \in Nodes /\ e.to \in Nodes
  BY DEF TypeOK, Plan, Edge

(* An execution starts with nothing deployed. *)
LEMMA InitIInv == Init => IInv
  <1> SUFFICES ASSUME Init PROVE IInv
    OBVIOUS
  <1>1. TypeOK
    <2>1. plan \in Plan
      BY PlanRunAssumption DEF Init
    <2>2. node \in [Nodes -> NodeStatuses]
      BY DEF Init, NodeStatuses
    <2>3. \A n \in Nodes : n \in included <=> node[n] # "Excluded"
      BY DEF Init
    <2>4. attempt \in Nat /\ breaks \in Nat /\ included \in SUBSET Nodes
      BY DEF Init
    <2> QED
      BY <2>1, <2>2, <2>3, <2>4 DEF Init, TypeOK, AtRest, NoResult
  <1>2. \A n \in Nodes : node[n] \in {"Waiting", "Excluded"}
    BY DEF Init
  <1>3. \A n \in Nodes : runtime[n] = "none" /\ result[n] = "none"
    BY DEF Init, AtRest, NoResult
  <1>4. batch = {} /\ status = "Running"
    BY DEF Init
  <1>5. OutcomeTellsWhatIsDeployed
    BY <1>4 DEF OutcomeTellsWhatIsDeployed
  <1> QED
    BY <1>1, <1>2, <1>3, <1>4, <1>5 DEF IInv, Started

(* A delivery starts from what is saved. *)
LEMMA DeliverIInv == ASSUME IInv, Deliver PROVE IInv'
  <1> USE DEF Deliver, durable
  <1>1. \A n \in included : LoadedStatus(n) \in {"Queued", "Succeeded", "Failed", "Skipped"}
    BY DEF LoadedStatus
  <1>2. \A n \in Nodes : runtime'[n] = "Succeeded" => node'[n] = "Succeeded"
    BY DEF LoadedStatus
  <1>3. TypeOK'
    BY <1>1 DEF IInv, TypeOK
  <1>4. OutcomeTellsWhatIsDeployed'
    BY DEF IInv, OutcomeTellsWhatIsDeployed
  <1>5. \A n \in Nodes : UpstreamsDeployed(n)' = UpstreamsDeployed(n) /\ Started(n)' = Started(n)
    BY DEF UpstreamsDeployed, Started
  <1>6. batch' = batch /\ batch \subseteq Nodes
    BY DEF IInv, TypeOK
  <1> QED
    BY <1>2, <1>3, <1>4, <1>5, <1>6 DEF IInv

(* The nodes of a batch have deployed upstreams. *)
LEMMA StartBatchIInv == ASSUME IInv, StartBatch PROVE IInv'
  <1> USE DEF StartBatch, durable, BetweenBatches
  <1>1. Ready \subseteq included
    BY DEF Ready, ReadyNodes
  <1>2. TypeOK'
    BY <1>1 DEF IInv, TypeOK
  <1>3. ASSUME NEW n \in Ready PROVE UpstreamsDeployed(n)
    <2>1. NodeReady(plan, n, included, runtime, {})
      BY <1>3 DEF Ready, ReadyNodes
    <2>2. ASSUME NEW e \in plan.edges, e.to = n, e.from \in included
          PROVE  node[e.from] = "Succeeded"
      <3>1. runtime[e.from] = "Succeeded"
        BY <2>1, <2>2 DEF NodeReady, EdgeSatisfied
      <3>2. e.from \in Nodes
        BY <2>2, PlanEdges DEF IInv
      <3> QED
        BY <3>1, <3>2 DEF IInv
    <2> QED
      BY <2>2 DEF UpstreamsDeployed
  <1>4. \A n \in Nodes : UpstreamsDeployed(n)' = UpstreamsDeployed(n) /\ Started(n)' = Started(n)
    BY DEF UpstreamsDeployed, Started
  <1>5. Ready \subseteq Nodes
    BY <1>1 DEF IInv, TypeOK
  <1>6. OutcomeTellsWhatIsDeployed'
    BY DEF IInv, OutcomeTellsWhatIsDeployed, InFlight
  <1> QED
    BY <1>2, <1>3, <1>4, <1>5, <1>6 DEF IInv

(* A delivery that stops leaves the saved statuses alone. *)
LEMMA StopIInv ==
  ASSUME IInv, StopDelivery, UNCHANGED <<durable, node>>, breaks' \in Nat
  PROVE  IInv'
  <1> USE DEF StopDelivery, durable
  <1>1. TypeOK'
    BY DEF IInv, TypeOK, AtRest, NoResult
  <1>2. \A n \in Nodes : runtime'[n] = "none" /\ result'[n] = "none"
    BY DEF AtRest, NoResult
  <1>3. \A n \in Nodes : UpstreamsDeployed(n)' = UpstreamsDeployed(n) /\ Started(n)' = Started(n)
    BY DEF UpstreamsDeployed, Started
  <1>4. OutcomeTellsWhatIsDeployed'
    BY DEF IInv, OutcomeTellsWhatIsDeployed, InFlight
  <1> QED
    BY <1>1, <1>2, <1>3, <1>4 DEF IInv

(* A node of the batch moves on while its execution is running. *)
LEMMA NodeMoves ==
  ASSUME IInv, NEW n \in batch, NEW s \in {"Syncing", "Succeeded", "Failed"},
         NEW r \in {"none", "succeeded", "failed"}, r = "succeeded" => s = "Succeeded",
         node[n] # "Succeeded",
         node' = [node EXCEPT ![n] = s], result' = [result EXCEPT ![n] = r],
         unhealed' \subseteq Nodes,
         UNCHANGED <<plan, included, status, attempt, breaks, pc, runtime, batch>>
  PROVE  IInv'
  <1>1. n \in Nodes /\ n \in included /\ status = "Running"
    BY DEF IInv, TypeOK
  <1>2. TypeOK'
    BY <1>1 DEF IInv, TypeOK, NodeStatuses
  <1>3. \A m \in Nodes : node[m] = "Succeeded" => node'[m] = "Succeeded"
    BY <1>1 DEF IInv, TypeOK
  <1>4. \A m \in Nodes : UpstreamsDeployed(m) => UpstreamsDeployed(m)'
    <2>1. \A e \in plan.edges : e.from \in Nodes
      BY PlanEdges DEF IInv
    <2> QED
      BY <1>3, <2>1 DEF UpstreamsDeployed
  <1>5. \A m \in Nodes : Started(m)' => Started(m) \/ m = n
    BY <1>1 DEF Started, IInv, TypeOK
  <1>6. \A m \in Nodes : Started(m)' => UpstreamsDeployed(m)'
    BY <1>4, <1>5, <1>1 DEF IInv
  <1>7. \A m \in batch' : UpstreamsDeployed(m)'
    BY <1>4 DEF IInv, TypeOK
  <1>8. \A m \in Nodes : result'[m] = "succeeded" => node'[m] = "Succeeded"
    BY <1>1, <1>3 DEF IInv, TypeOK
  <1>9. OutcomeTellsWhatIsDeployed'
    BY <1>1 DEF OutcomeTellsWhatIsDeployed
  <1>10. \A m \in Nodes : runtime'[m] = "Succeeded" => node'[m] = "Succeeded"
    BY <1>3 DEF IInv
  <1> QED
    BY <1>1, <1>2, <1>6, <1>7, <1>8, <1>9, <1>10 DEF IInv

(* Saving a status of a node. *)
LEMMA NodeStepIInv == ASSUME IInv, NEW n \in Nodes, NodeStep(n) PROVE IInv'
  <1>0. n \in batch /\ result[n] = "none" /\ unhealed \subseteq Nodes
        /\ result \in [Nodes -> {"none", "succeeded", "failed", "broken"}]
    BY DEF NodeStep, SaveSyncing, NodeSucceeds, NodeFails, AtWork, IInv, TypeOK
  <1>1. CASE SaveSyncing(n)
    <2>1. result' = [result EXCEPT ![n] = "none"]
      BY <1>0, <1>1 DEF SaveSyncing
    <2> QED
      BY <1>0, <1>1, <2>1, NodeMoves DEF SaveSyncing, durable
  <1>2. CASE NodeSucceeds(n)
    BY <1>0, <1>2, NodeMoves DEF NodeSucceeds
  <1>3. CASE NodeFails(n)
    BY <1>0, <1>3, NodeMoves DEF NodeFails
  <1> QED
    BY <1>1, <1>2, <1>3 DEF NodeStep

(* An error of the database changes no saved status. *)
LEMMA NodeBreaksIInv == ASSUME IInv, NEW n \in Nodes, NodeBreaks(n) PROVE IInv'
  <1> USE DEF NodeBreaks, durable
  <1>1. TypeOK'
    BY PlanRunAssumption DEF IInv, TypeOK
  <1>2. \A m \in Nodes : result'[m] = "succeeded" => node'[m] = "Succeeded"
    BY DEF IInv, TypeOK
  <1>3. \A m \in Nodes : UpstreamsDeployed(m)' = UpstreamsDeployed(m) /\ Started(m)' = Started(m)
    BY DEF UpstreamsDeployed, Started
  <1>4. OutcomeTellsWhatIsDeployed'
    BY DEF IInv, OutcomeTellsWhatIsDeployed, InFlight
  <1>5. batch' \subseteq Nodes
    BY DEF IInv, TypeOK
  <1> QED
    BY <1>1, <1>2, <1>3, <1>4, <1>5 DEF IInv

(* Collected successes are saved ones. *)
LEMMA CollectIInv == ASSUME IInv, CollectResults PROVE IInv'
  <1>1. CASE \E n \in batch : result[n] = "broken"
    <2>1. StopDelivery /\ UNCHANGED <<durable, node, breaks>>
      BY <1>1 DEF CollectResults
    <2>2. breaks' \in Nat
      BY <2>1 DEF IInv, TypeOK
    <2> QED
      BY <2>1, <2>2, StopIInv
  <1>2. CASE ~\E n \in batch : result[n] = "broken"
    <2> DEFINE cr == CollectedRuntime
    <2>1. /\ pc' \in {"completing", "running"} /\ runtime' = cr
          /\ batch' = {} /\ result' = NoResult /\ UNCHANGED <<durable, node, breaks>>
      BY <1>2 DEF CollectResults
    <2>2. cr \in [Nodes -> {"none", "Queued", "Running", "Succeeded", "Failed", "Skipped"}]
      BY DEF CollectedRuntime, IInv, TypeOK
    <2>3. \A n \in Nodes : cr[n] = "Succeeded" => node[n] = "Succeeded"
      BY DEF CollectedRuntime, IInv
    <2> HIDE DEF cr
    <2>4. TypeOK'
      BY <2>1, <2>2 DEF IInv, TypeOK, NoResult, durable
    <2>5. status = "Running"
      BY DEF CollectResults, BatchEnded, IInv
    <2>6. \A m \in Nodes : UpstreamsDeployed(m)' = UpstreamsDeployed(m) /\ Started(m)' = Started(m)
      BY <2>1 DEF UpstreamsDeployed, Started, durable
    <2>7. OutcomeTellsWhatIsDeployed'
      BY <2>1, <2>5 DEF OutcomeTellsWhatIsDeployed, durable
    <2>8. \A n \in Nodes : result'[n] = "none"
      BY <2>1 DEF NoResult
    <2> QED
      BY <2>1, <2>3, <2>4, <2>5, <2>6, <2>7, <2>8 DEF IInv, durable
  <1> QED
    BY <1>1, <1>2

(* Finishing the plan changes the program counter alone. *)
LEMMA FinishIInv == ASSUME IInv, FinishPlan PROVE IInv'
  <1> USE DEF FinishPlan, durable, BetweenBatches
  <1>1. TypeOK'
    BY DEF IInv, TypeOK
  <1>2. \A m \in Nodes : UpstreamsDeployed(m)' = UpstreamsDeployed(m) /\ Started(m)' = Started(m)
    BY DEF UpstreamsDeployed, Started
  <1>3. OutcomeTellsWhatIsDeployed'
    BY DEF IInv, OutcomeTellsWhatIsDeployed, InFlight
  <1> QED
    BY <1>1, <1>2, <1>3 DEF IInv

(* The outcome is computed from the final statuses, all of them at rest. *)
LEMMA CompleteIInv == ASSUME IInv, Complete PROVE IInv'
  <1> DEFINE final == [n \in Nodes |-> FinalStatus(n)]
  <1>1. CASE \E n \in included : final[n] = "Syncing"
    <2>1. StopDelivery /\ UNCHANGED <<durable, node>> /\ breaks' \in Nat
      BY <1>1 DEF Complete, durable, IInv, TypeOK
    <2> QED
      BY <2>1, StopIInv
  <1>2. CASE ~\E n \in included : final[n] = "Syncing"
    <2>1. /\ node' = final /\ status' = AggregateStatus(final) /\ StopDelivery
          /\ UNCHANGED <<plan, included, attempt, breaks, unhealed>>
      BY <1>2 DEF Complete
    <2>2. \A n \in Nodes : /\ final[n] \in NodeStatuses
                           /\ n \in included <=> final[n] # "Excluded"
                           /\ node[n] = "Succeeded" <=> final[n] = "Succeeded"
                           /\ final[n] \in {"Syncing", "Succeeded", "Failed"} => final[n] = node[n]
                           /\ n \in included => final[n] \in {"Succeeded", "Failed", "Skipped"}
      BY <1>2 DEF FinalStatus, IInv, TypeOK, NodeStatuses
    <2>3. AggregateStatus(final) \in Outcomes
      BY DEF AggregateStatus, Outcomes
    <2>4. final \in [Nodes -> NodeStatuses]
      BY <2>2
    <2>5. included \subseteq Nodes
      BY DEF IInv, TypeOK
    <2>6. /\ AggregateStatus(final) = "Succeeded" => \A n \in included : final[n] = "Succeeded"
          /\ AggregateStatus(final) = "Failed" => \A n \in included : final[n] # "Succeeded"
          /\ AggregateStatus(final) = "PartialFailed" =>
               /\ \E n \in included : final[n] = "Succeeded"
               /\ \E n \in included : final[n] # "Succeeded"
      BY DEF AggregateStatus
    <2> HIDE DEF final
    <2>7. TypeOK'
      BY <2>1, <2>2, <2>3, <2>4 DEF IInv, TypeOK, StopDelivery, AtRest, NoResult
    <2>8. InFlight' = {}
      BY <2>1, <2>2, <2>5 DEF InFlight
    <2>9. OutcomeTellsWhatIsDeployed'
      BY <2>1, <2>2, <2>5, <2>6, <2>8 DEF OutcomeTellsWhatIsDeployed
    <2>10. \A e \in plan.edges : e.from \in Nodes
      BY PlanEdges DEF IInv
    <2>11. \A n \in Nodes : Started(n)' => UpstreamsDeployed(n)'
      <3> SUFFICES ASSUME NEW n \in Nodes, Started(n)' PROVE UpstreamsDeployed(n)'
        OBVIOUS
      <3>1. Started(n)
        BY <2>1, <2>2 DEF Started
      <3>2. UpstreamsDeployed(n)
        BY <3>1 DEF IInv
      <3> QED
        BY <3>2, <2>1, <2>2, <2>10 DEF UpstreamsDeployed
    <2>12. \A n \in Nodes : runtime'[n] = "none" /\ result'[n] = "none"
      BY <2>1 DEF StopDelivery, AtRest, NoResult
    <2> QED
      BY <2>1, <2>7, <2>9, <2>11, <2>12 DEF IInv, StopDelivery
  <1> QED
    BY <1>1, <1>2

(* A retry keeps what is deployed and starts nothing. *)
LEMMA RetryIInv == ASSUME IInv, NEW selected \in SUBSET Nodes, Retry(selected) PROVE IInv'
  <1> DEFINE again == [n \in Nodes |-> RetriedStatus(n, selected)]
  <1>1. /\ node' = again /\ status' = "Running" /\ attempt' \in Nat
        /\ UNCHANGED <<plan, included, unhealed, breaks, pc, runtime, batch, result>>
        /\ pc = "idle" /\ batch = {}
    BY DEF Retry, IInv, TypeOK
  <1>2. \A n \in Nodes : /\ again[n] \in {"Excluded", "Waiting", "Succeeded", "Skipped"}
                         /\ n \in included <=> again[n] # "Excluded"
                         /\ node[n] = "Succeeded" <=> again[n] = "Succeeded"
    BY DEF RetriedStatus, IInv, TypeOK
  <1>3. again \in [Nodes -> NodeStatuses]
    BY <1>2 DEF NodeStatuses
  <1> HIDE DEF again
  <1>4. TypeOK'
    BY <1>1, <1>2, <1>3 DEF IInv, TypeOK
  <1>5. \A e \in plan.edges : e.from \in Nodes
    BY PlanEdges DEF IInv
  <1>6. \A n \in Nodes : Started(n)' => UpstreamsDeployed(n)'
    <2> SUFFICES ASSUME NEW n \in Nodes, Started(n)' PROVE UpstreamsDeployed(n)'
      OBVIOUS
    <2>1. Started(n)
      BY <1>1, <1>2 DEF Started
    <2>2. UpstreamsDeployed(n)
      BY <2>1 DEF IInv
    <2> QED
      BY <2>2, <1>1, <1>2, <1>5 DEF UpstreamsDeployed
  <1>7. OutcomeTellsWhatIsDeployed'
    BY <1>1 DEF OutcomeTellsWhatIsDeployed
  <1>8. \A n \in Nodes : /\ runtime'[n] = "Succeeded" => node'[n] = "Succeeded"
                         /\ result'[n] = "succeeded" => node'[n] = "Succeeded"
    BY <1>1, <1>2 DEF IInv
  <1> QED
    BY <1>1, <1>4, <1>6, <1>7, <1>8 DEF IInv

(* Every step keeps the invariant. *)
LEMMA StepIInv == IInv /\ [Next]_vars => IInv'
  <1> SUFFICES ASSUME IInv, [Next]_vars PROVE IInv'
    OBVIOUS
  <1>1. CASE NoExecutableNode
    BY <1>1, StopIInv DEF NoExecutableNode, IInv, TypeOK
  <1>2. CASE Crash
    <2>1. breaks' \in Nat
      BY <1>2 DEF Crash, IInv, TypeOK
    <2> QED
      BY <1>2, <2>1, StopIInv DEF Crash
  <1>3. CASE UNCHANGED vars
    <2> USE <1>3 DEF vars, durable
    <2>1. TypeOK'
      BY DEF IInv, TypeOK
    <2>2. \A m \in Nodes : UpstreamsDeployed(m)' = UpstreamsDeployed(m) /\ Started(m)' = Started(m)
      BY DEF UpstreamsDeployed, Started
    <2>3. OutcomeTellsWhatIsDeployed'
      BY DEF IInv, OutcomeTellsWhatIsDeployed, InFlight
    <2>4. batch \subseteq Nodes
      BY DEF IInv, TypeOK
    <2> QED
      BY <2>1, <2>2, <2>3, <2>4 DEF IInv
  <1> QED
    BY <1>1, <1>2, <1>3, DeliverIInv, StartBatchIInv, CollectIInv, FinishIInv, CompleteIInv,
       NodeStepIInv, NodeBreaksIInv, RetryIInv
    DEF Next, Progress

(* The invariant holds throughout. *)
THEOREM Invariance == Spec => []IInv
  BY InitIInv, StepIInv, PTL DEF Spec

(* Every variable keeps its shape. *)
THEOREM TypeCorrect == Spec => []TypeOK
  <1>1. IInv => TypeOK
    BY DEF IInv
  <1> QED
    BY <1>1, Invariance, PTL

(* An Application is touched only after all it depends on are deployed. *)
THEOREM DependenciesComeFirst == Spec => []DependenciesFirst
  <1>1. IInv => DependenciesFirst
    BY PlanEdges DEF IInv, DependenciesFirst, UpstreamsDeployed
  <1> QED
    BY <1>1, Invariance, PTL

(* The outcome of an execution tells what is deployed. *)
THEOREM OutcomeIsTrue == Spec => []OutcomeTellsWhatIsDeployed
  <1>1. IInv => OutcomeTellsWhatIsDeployed
    BY DEF IInv
  <1> QED
    BY <1>1, Invariance, PTL

(* What a step may not do to a deployed node. *)
Kept == \A n \in Nodes : node[n] = "Succeeded" => node'[n] = "Succeeded"

(* No step changes the status of a deployed node. *)
LEMMA StepKeepsSuccess == IInv /\ [Next]_vars => [Kept]_vars
  <1> SUFFICES ASSUME IInv, Next PROVE Kept
    BY DEF Kept, vars
  <1>0. node \in [Nodes -> NodeStatuses]
    BY DEF IInv, TypeOK
  <1>1. CASE \E n \in Nodes : NodeStep(n)
    BY <1>0, <1>1 DEF NodeStep, SaveSyncing, NodeSucceeds, NodeFails, Kept
  <1>2. CASE Complete
    BY <1>0, <1>2 DEF Complete, FinalStatus, Kept
  <1>3. CASE \E selected \in SUBSET Nodes : Retry(selected)
    BY <1>0, <1>3 DEF Retry, RetriedStatus, Kept
  <1>4. CASE UNCHANGED node
    BY <1>4 DEF Kept
  <1> QED
    BY <1>1, <1>2, <1>3, <1>4 DEF Next, Progress, Deliver, StartBatch, NoExecutableNode,
       CollectResults, FinishPlan, NodeBreaks, Crash

(* A deployed Application is never deployed again, by no delivery or retry. *)
THEOREM SuccessesAreKept == Spec => SuccessIsKept
  BY StepKeepsSuccess, Invariance, PTL DEF Spec, SuccessIsKept, Kept

-----------------------------------------------------------------------------
(* The limits of a batch *)

(* How many of S come before n in the order of the plan. *)
Rank(p, S, n) == Cardinality({m \in S : Before(p, m, n)})

(* Of two nodes one comes before the other, and has fewer before it. *)
LEMMA RanksDiffer ==
  ASSUME NEW p \in Plan, NEW S \in SUBSET Nodes, NEW m \in S, NEW n \in S, m # n
  PROVE  Rank(p, S, m) # Rank(p, S, n)
  <1>1. \A x \in Nodes : x \in Nat /\ p.order[x] \in Nat
    BY NodesAssumption DEF Plan
  <1>2. Before(p, m, n) \/ Before(p, n, m)
    BY <1>1 DEF Before
  <1>3. ASSUME NEW a \in S, NEW b \in S, Before(p, a, b)
        PROVE  Rank(p, S, a) # Rank(p, S, b)
    <2> DEFINE A == {x \in S : Before(p, x, a)}
               B == {x \in S : Before(p, x, b)}
    <2>1. IsFiniteSet(B)
      BY NodesAssumption, FS_Subset
    <2>2. A \subseteq B /\ a \in B /\ a \notin A
      BY <1>1, <1>3 DEF Before
    <2>3. A \in SUBSET B /\ A # B
      BY <2>2
    <2> HIDE DEF A, B
    <2>4. Cardinality(A) # Cardinality(B)
      BY <2>1, <2>3, FS_Subset
    <2> QED
      BY <2>4 DEF A, B, Rank
  <1> QED
    BY <1>2, <1>3

(* As many nodes as there are free slots are taken, at most. *)
LEMMA FirstAreFew ==
  ASSUME NEW p \in Plan, NEW S \in SUBSET Nodes, NEW k \in Nat
  PROVE  Cardinality({n \in S : Rank(p, S, n) < k}) <= k
  <1> DEFINE F == {n \in S : Rank(p, S, n) < k}
             rank == [n \in F |-> Rank(p, S, n)]
  <1>1. IsFiniteSet(F) /\ Cardinality(F) \in Nat
    BY NodesAssumption, FS_Subset, FS_CardinalityType
  <1>2. IsFiniteSet(0 .. k - 1) /\ Cardinality(0 .. k - 1) = k
    BY FS_Interval
  <1>3. \A n \in F : Rank(p, S, n) \in 0 .. k - 1
    <2> TAKE n \in F
    <2>1. IsFiniteSet({m \in S : Before(p, m, n)})
      BY NodesAssumption, FS_Subset
    <2>2. Rank(p, S, n) \in Nat
      BY <2>1, FS_CardinalityType DEF Rank
    <2> QED
      BY <2>2
  <1>4. rank \in [F -> 0 .. k - 1]
    BY <1>3
  <1>5. \A m, n \in F : m # n => rank[m] # rank[n]
    BY RanksDiffer
  <1> HIDE DEF F, rank
  <1>6. ~(Cardinality(0 .. k - 1) < Cardinality(F))
    BY <1>1, <1>2, <1>4, <1>5, FS_PigeonHole
  <1> QED
    BY <1>1, <1>2, <1>6 DEF F

(* No more nodes are ready than the worker and the plan allow. *)
LEMMA ReadyWithinLimit ==
  ASSUME IInv
  PROVE  IsFiniteSet(Ready) /\ Cardinality(Ready) <= ParallelLimit(plan, Limit)
  <1> DEFINE ready == {n \in included : NodeReady(plan, n, included, runtime, {})}
             running == {n \in included : runtime[n] = "Running"}
             slots == AvailableSlots(plan, included, runtime, Limit)
  <1>1. plan \in Plan /\ included \in SUBSET Nodes /\ Limit \in Nat \ {0} /\ plan.maxParallel \in Nat
    BY PlanRunAssumption DEF IInv, TypeOK, Plan
  <1>2. ParallelLimit(plan, Limit) \in Nat \ {0}
    BY <1>1 DEF ParallelLimit
  <1>3. Cardinality(running) \in Nat
    BY <1>1, NodesAssumption, FS_Subset, FS_CardinalityType
  <1>4. slots \in Nat /\ slots <= ParallelLimit(plan, Limit)
    BY <1>2, <1>3 DEF AvailableSlots
  <1>5. ready \in SUBSET Nodes
    BY <1>1
  <1>6. Ready = {n \in ready : Rank(plan, ready, n) < slots}
    BY DEF Ready, ReadyNodes, Rank
  <1> HIDE DEF ready, slots
  <1>7. Cardinality({n \in ready : Rank(plan, ready, n) < slots}) <= slots
    BY <1>1, <1>4, <1>5, FirstAreFew
  <1>8. IsFiniteSet(Ready) /\ Cardinality(Ready) \in Nat
    BY <1>5, <1>6, NodesAssumption, FS_Subset, FS_CardinalityType
  <1> QED
    BY <1>2, <1>4, <1>6, <1>7, <1>8

-----------------------------------------------------------------------------
(* Without infrastructure errors *)

(* Whatever is under way or has failed is of the batch that goes on. *)
CalmIInv ==
  breaks = 0 =>
    /\ \A n \in Nodes : result[n] # "broken"
    /\ \A n \in Nodes : node[n] = "Syncing" => n \in batch /\ result[n] = "none"
    /\ \A n \in Nodes : node[n] = "Failed" /\ status = "Running" /\ pc # "completing" =>
                          n \in batch /\ result[n] = "failed"
    /\ Cardinality(batch) <= ParallelLimit(plan, Limit)
    /\ pc # "running" => batch = {}

(* The empty batch is within every limit. *)
LEMMA NoBatch ==
  ASSUME TypeOK
  PROVE  Cardinality({}) <= ParallelLimit(plan, Limit)
  <1>1. plan.maxParallel \in Nat /\ Limit \in Nat
    BY PlanRunAssumption DEF TypeOK, Plan
  <1> QED
    BY <1>1, FS_EmptySet DEF ParallelLimit

(* Every step keeps what is under way in the batch. *)
LEMMA StepCalm == IInv /\ CalmIInv /\ [Next]_vars => CalmIInv'
  <1> SUFFICES ASSUME IInv, CalmIInv, [Next]_vars, breaks' = 0 PROVE CalmIInv'
    BY DEF CalmIInv
  <1>0. /\ breaks \in Nat /\ TypeOK /\ included \subseteq Nodes /\ batch \subseteq Nodes
        /\ node \in [Nodes -> NodeStatuses] /\ plan \in Plan
        /\ result \in [Nodes -> {"none", "succeeded", "failed", "broken"}]
        /\ pc \in {"idle", "running", "completing"}
    BY DEF IInv, TypeOK
  <1>00. Cardinality({}) <= ParallelLimit(plan, Limit)
    BY <1>0, NoBatch
  <1>1. CASE Deliver
    BY <1>1 DEF Deliver, CalmIInv, durable
  <1>2. CASE StartBatch
    <2>1. batch = {} /\ batch' = Ready /\ UNCHANGED <<durable, node, breaks, pc, runtime, result>> /\ pc = "running"
      BY <1>2 DEF StartBatch, BetweenBatches
    <2>2. Cardinality(batch') <= ParallelLimit(plan, Limit)
      BY <2>1, ReadyWithinLimit
    <2>3. (Cardinality(batch) <= ParallelLimit(plan, Limit))'
      BY <2>1, <2>2 DEF ParallelLimit, durable
    <2>4. breaks = 0 /\ (\A n \in Nodes : result[n] # "broken" /\ node[n] # "Syncing")
          /\ (status = "Running" => \A n \in Nodes : node[n] # "Failed")
      BY <2>1 DEF CalmIInv
    <2> QED
      BY <2>1, <2>3, <2>4 DEF CalmIInv, durable
  <1>3. CASE NoExecutableNode
    BY <1>00, <1>3 DEF NoExecutableNode, BetweenBatches, StopDelivery, CalmIInv, durable, NoResult, ParallelLimit
  <1>4. CASE CollectResults
    <2>1. breaks = 0 /\ ~\E n \in batch : result[n] = "broken"
      BY <1>0, <1>4 DEF CollectResults, CalmIInv
    <2>2. /\ pc' = IF BatchFailed THEN "completing" ELSE "running"
          /\ batch' = {} /\ result' = NoResult /\ UNCHANGED <<durable, node, breaks>>
      BY <1>4, <2>1 DEF CollectResults
    <2>3. \A n \in Nodes : node[n] # "Syncing"
      BY <1>4, <2>1 DEF CollectResults, BatchEnded, CalmIInv
    <2>4. status = "Running" /\ pc # "idle" /\ pc # "completing"
      BY <1>0, <1>4, <2>1 DEF CollectResults, BatchEnded, CalmIInv, IInv
    <2>5. ~BatchFailed => \A n \in Nodes : node[n] # "Failed"
      BY <2>1, <2>4 DEF CalmIInv, BatchFailed
    <2> QED
      BY <1>00, <2>2, <2>3, <2>5 DEF CalmIInv, durable, NoResult, ParallelLimit
  <1>5. CASE FinishPlan
    BY <1>5 DEF FinishPlan, CalmIInv, BetweenBatches, durable
  <1>6. CASE Complete
    <2> DEFINE final == [n \in Nodes |-> FinalStatus(n)]
    <2>1. breaks = 0 /\ \A n \in Nodes : node[n] # "Syncing"
      BY <1>6 DEF Complete, CalmIInv
    <2>2. \A n \in Nodes : final[n] # "Syncing"
      BY <2>1 DEF FinalStatus
    <2>3. node' = final /\ status' = AggregateStatus(final) /\ StopDelivery /\ UNCHANGED <<plan, breaks>>
      BY <1>0, <1>6, <2>2 DEF Complete
    <2>4. status' # "Running"
      BY <2>3 DEF AggregateStatus
    <2> HIDE DEF final
    <2> QED
      BY <1>00, <2>2, <2>3, <2>4 DEF CalmIInv, StopDelivery, NoResult, ParallelLimit
  <1>7. ASSUME NEW n \in Nodes, NodeStep(n) PROVE CalmIInv'
    <2>1. n \in batch /\ result[n] = "none" /\ UNCHANGED <<plan, status, breaks, pc, batch>>
      BY <1>7 DEF NodeStep, SaveSyncing, NodeSucceeds, NodeFails, AtWork, durable
    <2>2. \A m \in Nodes \ {n} : node'[m] = node[m] /\ result'[m] = result[m]
      BY <1>0, <1>7 DEF NodeStep, SaveSyncing, NodeSucceeds, NodeFails
    <2>3. \/ node'[n] = "Syncing" /\ result'[n] = "none"
          \/ node'[n] = "Succeeded" /\ result'[n] = "succeeded"
          \/ node'[n] = "Failed" /\ result'[n] = "failed"
      BY <1>0, <1>7, <2>1 DEF NodeStep, SaveSyncing, NodeSucceeds, NodeFails
    <2> QED
      BY <2>1, <2>2, <2>3 DEF CalmIInv, ParallelLimit
  <1>8. ASSUME NEW n \in Nodes, NodeBreaks(n) PROVE CalmIInv'
    BY <1>0, <1>8 DEF NodeBreaks
  <1>9. CASE Crash
    BY <1>0, <1>9 DEF Crash
  <1>10. ASSUME NEW selected \in SUBSET Nodes, Retry(selected) PROVE CalmIInv'
    <2>1. /\ \A n \in Nodes : node'[n] = RetriedStatus(n, selected)
          /\ UNCHANGED <<plan, breaks, pc, batch, result>> /\ batch = {} /\ pc = "idle" /\ breaks = 0
      BY <1>10 DEF Retry, IInv
    <2>2. \A n \in Nodes : node'[n] \notin {"Syncing", "Failed"}
      BY <2>1 DEF RetriedStatus
    <2> QED
      BY <1>00, <2>1, <2>2 DEF CalmIInv, ParallelLimit
  <1>11. CASE UNCHANGED vars
    BY <1>11 DEF vars, durable, CalmIInv, ParallelLimit
  <1> QED
    BY <1>1, <1>2, <1>3, <1>4, <1>5, <1>6, <1>7, <1>8, <1>9, <1>10, <1>11 DEF Next, Progress

(* It holds throughout. *)
LEMMA CalmInvariance == Spec => [](IInv /\ CalmIInv)
  <1>1. Init => CalmIInv
    <2> SUFFICES ASSUME Init PROVE CalmIInv
      OBVIOUS
    <2>1. Cardinality({}) <= ParallelLimit(plan, Limit)
      BY InitIInv, NoBatch DEF IInv
    <2>2. \A n \in Nodes : node[n] \notin {"Syncing", "Failed"} /\ result[n] = "none"
      BY DEF Init, NoResult
    <2> QED
      BY <2>1, <2>2 DEF Init, CalmIInv
  <1> QED
    BY <1>1, InitIInv, StepIInv, StepCalm, PTL DEF Spec

(* InFlightWithinLimits: without infrastructure errors, the operations     *)
(* under way respect the limit of the worker and that of the plan          *)
(* (availableSlots, executeReady).                                         *)
THEOREM LimitsAreKept == Spec => []InFlightWithinLimits
  <1>1. IInv /\ CalmIInv => InFlightWithinLimits
    <2> SUFFICES ASSUME IInv, CalmIInv, breaks = 0
                 PROVE  /\ Cardinality(InFlight) <= Limit
                        /\ plan.maxParallel # 0 => Cardinality(InFlight) <= plan.maxParallel
      BY DEF InFlightWithinLimits
    <2>1. batch \in SUBSET Nodes /\ plan.maxParallel \in Nat /\ Limit \in Nat
      BY PlanRunAssumption DEF IInv, TypeOK, Plan
    <2>2. IsFiniteSet(batch)
      BY <2>1, NodesAssumption, FS_Subset
    <2>3. InFlight \in SUBSET batch
      BY DEF CalmIInv, InFlight
    <2>4. IsFiniteSet(InFlight) /\ Cardinality(InFlight) <= Cardinality(batch)
      BY <2>2, <2>3, FS_Subset
    <2>5. Cardinality(InFlight) \in Nat /\ Cardinality(batch) \in Nat
      BY <2>2, <2>4, FS_CardinalityType
    <2>6. Cardinality(batch) <= ParallelLimit(plan, Limit)
      BY DEF CalmIInv
    <2>7. /\ ParallelLimit(plan, Limit) \in Nat /\ ParallelLimit(plan, Limit) <= Limit
          /\ plan.maxParallel # 0 => ParallelLimit(plan, Limit) <= plan.maxParallel
      BY <2>1, PlanRunAssumption DEF ParallelLimit
    <2> QED
      BY <2>1, <2>4, <2>5, <2>6, <2>7
  <1> QED
    BY <1>1, CalmInvariance, PTL

(* What a failure permits to start. *)
Stopped ==
  \A n \in Nodes :
    /\ breaks = 0
    /\ node[n] = "Waiting" /\ node'[n] = "Syncing"
    => \A m \in Nodes \ batch : node[m] # "Failed"

(* A node starts in a batch, while its execution goes on. *)
LEMMA StepStops == IInv /\ CalmIInv /\ [Next]_vars => [Stopped]_vars
  <1> SUFFICES ASSUME IInv, CalmIInv, Next, NEW n \in Nodes,
                      breaks = 0, node[n] = "Waiting", node'[n] = "Syncing"
               PROVE  \A m \in Nodes \ batch : node[m] # "Failed"
    BY DEF Stopped, vars
  <1>0. node \in [Nodes -> NodeStatuses]
    BY DEF IInv, TypeOK
  <1>1. ASSUME NEW m \in Nodes, NodeStep(m) PROVE batch # {} /\ status = "Running" /\ pc # "completing"
    BY <1>1 DEF NodeStep, SaveSyncing, NodeSucceeds, NodeFails, AtWork, IInv, CalmIInv
  <1>2. ~Complete
    BY <1>0 DEF Complete, FinalStatus
  <1>3. \A selected \in SUBSET Nodes : ~Retry(selected)
    BY <1>0 DEF Retry, RetriedStatus
  <1>4. node' # node
    OBVIOUS
  <1>5. \E m \in Nodes : NodeStep(m)
    BY <1>2, <1>3, <1>4 DEF Next, Progress, Deliver, StartBatch, NoExecutableNode,
       CollectResults, FinishPlan, NodeBreaks, Crash
  <1> QED
    BY <1>1, <1>5 DEF CalmIInv

(* FailureStopsRollout: without infrastructure errors, nothing starts      *)
(* after a failure but in the batch it belongs to (collectNodeResults).    *)
THEOREM FailuresStopTheRollout == Spec => FailureStopsRollout
  BY StepStops, CalmInvariance, PTL DEF Spec, FailureStopsRollout, Stopped

==============================================================================
