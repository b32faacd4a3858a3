------------------------------ MODULE MCConsole ------------------------------
EXTENDS Console

(* Every graph of the nodes; the check does not look at the condition of an edge. *)
EveryGraph ==
  {{[from |-> p[1], to |-> p[2], condition |-> "UpstreamSucceeded"] : p \in P} :
     P \in SUBSET {p \in Nodes \X Nodes : p[1] # p[2]}}

Spans == {s \in [from : 0 .. 5, to : 1 .. 6] : s.from < s.to}

(* Weeks of three minutes with windows in one or two, up to two blackouts, *)
(* jobs that may start at once or are scheduled for later.                 *)
EveryQuestion ==
  [windows : {{0}, {1}, {2}, {0, 1}},
   blackouts : {{}} \cup {{s, t} : s, t \in Spans},
   now : 0 .. 3,
   scheduled : {0, 2, 6}]

(* Events for all and for those with the right; one that is for nobody. *)
TheKinds ==
  {[e \in Events |-> IF e = 1 THEN first ELSE "scoped"] : first \in {"broadcast", "silent"}}

(* Streams or marks at a time, beside failures and changes. *)
TheWorkloads == {{"stream", "disable"}, {"mark", "change"}, {"fail", "change"}}

NoReferences == [r \in Resources |-> {}]

NoSelectors == [r \in Resources |-> NoLabels]

References == [named : BOOLEAN, matches : {{}, {1}, {2}, {1, 2}, {2, 3}, {1, 2, 3}}]

(* A project with an environment and an Application in it. *)
TheScopes == {<<>>, <<"p">>, <<"p", "e">>, <<"p", "e", "a">>}

TheEventScopes == TheScopes \cup {Unresolved}

(* Everything, a project, or an environment and again an Application in it. *)
TheGrantSets == {{<<>>}, {<<"p">>}, {<<"p", "e">>, <<"p", "e", "a">>}}

(* What all resources say of their parents, never themselves, or the first of its targets. *)
TheTrees ==
  {[nodes |-> nodes, parents |-> parents, refs |-> NoReferences, selects |-> NoSelectors] :
     nodes \in SUBSET Resources,
     parents \in {f \in [Resources -> SUBSET Resources] : \A r \in Resources : r \notin f[r]}}
  \cup
  {[nodes |-> nodes, parents |-> NoReferences, refs |-> [NoReferences EXCEPT ![1] = {a, b}],
    selects |-> [NoSelectors EXCEPT ![1] = labels]] :
     nodes \in SUBSET Resources, a, b \in References, labels \in {NoLabels, {}, {2}, {1, 2}, {2, 3}}}
=============================================================================
