------------------------------ MODULE PlanEngine ------------------------------
(***************************************************************************)
(* The deployment plan: a graph of nodes, one per Application, and the     *)
(* rules that say which nodes may be executed now.  A node is its key, a   *)
(* number; a plan is a record of the nodes' order, the edges and the       *)
(* plan's own parallel limit (0 when it has none).                         *)
(***************************************************************************)
EXTENDS Integers, FiniteSets

CONSTANT Nodes   \* keys of the plan's nodes

ASSUME NodesAssumption == Nodes \subseteq Nat /\ IsFiniteSet(Nodes)

EdgeConditions == {"UpstreamSucceeded", "PrerequisiteHealthy"}

Edge == [from: Nodes, to: Nodes, condition: EdgeConditions]

(* No edge joins a node to itself, and none is there twice. *)
ValidEdges(edges) ==
  /\ edges \subseteq Edge
  /\ \A e \in edges : e.from # e.to
  /\ \A e, f \in edges : e.from = f.from /\ e.to = f.to => e = f

Plan == [order: [Nodes -> Nat], edges: SUBSET Edge, maxParallel: Nat]

Before(plan, m, n) ==
  \/ plan.order[m] < plan.order[n]
  \/ plan.order[m] = plan.order[n] /\ m < n

(* Mutant of EdgeSatisfied: an upstream that has ended is enough. *)
EdgeSatisfiedByEnd(e, included, status, healthy) ==
  IF e.from \in included THEN status[e.from] # "Queued"
  ELSE e.condition = "UpstreamSucceeded" \/ e.from \in healthy

(* An upstream outside of the snapshot counts only for a condition on its   *)
(* health; `healthy' are those observed to satisfy their success condition. *)
EdgeSatisfied(e, included, status, healthy) ==
  IF e.from \in included THEN status[e.from] = "Succeeded"
  ELSE e.condition = "UpstreamSucceeded" \/ e.from \in healthy

NodeReady(plan, n, included, status, healthy) ==
  /\ status[n] = "Queued"
  /\ \A e \in plan.edges : e.to = n => EdgeSatisfied(e, included, status, healthy)

ParallelLimit(plan, limit) ==
  IF plan.maxParallel # 0 /\ (limit = 0 \/ plan.maxParallel < limit)
  THEN plan.maxParallel ELSE limit

AvailableSlots(plan, included, status, limit) ==
  LET max == ParallelLimit(plan, limit)
      running == Cardinality({n \in included : status[n] = "Running"})
  IN IF max = 0 THEN Cardinality(Nodes) ELSE IF running < max THEN max - running ELSE 0

(* The first ready nodes, in the order of the plan, that fit into the slots. *)
ReadyNodes(plan, included, status, healthy, limit) ==
  LET ready == {n \in included : NodeReady(plan, n, included, status, healthy)}
  IN {n \in ready : Cardinality({m \in ready : Before(plan, m, n)})
                      < AvailableSlots(plan, included, status, limit)}

(* Reference: a cycle is a set of nodes that all wait for one another. *)
Cyclic(edges) ==
  \E S \in SUBSET Nodes :
    /\ S # {}
    /\ \A n \in S : \E e \in edges : e.to = n /\ e.from \in S

==============================================================================
