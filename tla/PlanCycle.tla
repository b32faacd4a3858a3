------------------------------- MODULE PlanCycle -------------------------------
(***************************************************************************)
(* How a published plan is checked for cycles: nodes without incoming edge *)
(* are queued, and visiting a node takes its edges away from the nodes     *)
(* they lead to.  The plan is rejected unless every node is visited.  The  *)
(* queue starts in the order of a Go map, so any queued node may be next.  *)
(***************************************************************************)
EXTENDS PlanEngine

CONSTANT Graphs   \* sets of edges a plan may have

ASSUME GraphsAssumption == \A g \in Graphs : ValidEdges(g) /\ IsFiniteSet(g)

VARIABLES
  edges,     \* the edges of the plan
  indegree,  \* indegree[n]: edges into n that are still there
  queue,     \* nodes found without an edge and not yet visited
  visited    \* nodes visited; the code counts them

vars == <<edges, indegree, queue, visited>>

Into(n) == {e \in edges : e.to = n}

Init ==
  /\ edges \in Graphs
  /\ indegree = [n \in Nodes |-> Cardinality(Into(n))]
  /\ queue = {n \in Nodes : indegree[n] = 0}
  /\ visited = {}

Successors(n) == {m \in Nodes : \E e \in edges : e.from = n /\ e.to = m}

(* Mutant of Released: a node is queued as soon as one of its edges is gone. *)
ReleasedEarly(n) == {m \in Successors(n) : indegree[m] >= 1}

(* The nodes whose last edge comes from n. *)
Released(n) == {m \in Successors(n) : indegree[m] = 1}

Visit(n) ==
  /\ n \in queue
  /\ visited' = visited \cup {n}
  /\ indegree' = [m \in Nodes |-> IF m \in Successors(n) THEN indegree[m] - 1 ELSE indegree[m]]
  /\ queue' = (queue \ {n}) \cup Released(n)
  /\ UNCHANGED edges

Next == \E n \in Nodes : Visit(n)

Spec == Init /\ [][Next]_vars /\ WF_vars(Next)

(* hasPlanCycle returns when the queue is empty. *)
Accepted == queue = {} /\ visited = Nodes

Rejected == queue = {} /\ visited # Nodes

-----------------------------------------------------------------------------
(* Properties *)

(* Every variable keeps its shape: no edge is counted down twice.            *)
TypeOK ==
  /\ edges \subseteq Edge
  /\ indegree \in [Nodes -> Nat]
  /\ queue \subseteq Nodes
  /\ visited \subseteq Nodes

(* No node enters the queue a second time: the number of visits that the     *)
(* code compares with the number of nodes is the number of nodes visited.    *)
VisitedOnce == queue \cap visited = {}

(* A plan is rejected when, and only when, its edges have a cycle.           *)
VerdictIsRight ==
  /\ Accepted => ~Cyclic(edges)
  /\ Rejected => Cyclic(edges)

==============================================================================
