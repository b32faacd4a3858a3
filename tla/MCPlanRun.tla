------------------------------- MODULE MCPlanRun -------------------------------
EXTENDS PlanRun

Pairs == {p \in Nodes \X Nodes : p[1] # p[2]}

(* Every acyclic set of edges with the given conditions. *)
EdgeSets(conditions) ==
  {E \in UNION {{{[from |-> p[1], to |-> p[2], condition |-> c[p]] : p \in P} :
                   c \in [P -> conditions]} : P \in SUBSET Pairs} : ~Cyclic(E)}

PlansWith(conditions, limits) ==
  {[order |-> [n \in Nodes |-> 0], edges |-> E, maxParallel |-> m] :
     E \in EdgeSets(conditions), m \in limits}

(* Nodes are symmetric but for the order of the plan, which falls back on the *)
(* keys: all graphs with one order are all graphs with every order.           *)
AllPlans == PlansWith({"UpstreamSucceeded", "PrerequisiteHealthy"}, {0, 1, 3})

==============================================================================
