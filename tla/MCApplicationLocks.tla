-------------------------- MODULE MCApplicationLocks --------------------------
(* ApplicationLocks on executions whose Applications overlap. *)
EXTENDS ApplicationLocks, TLC

CONSTANTS a1, a2, e1, e2, e3

(* e3 is the retry of e1; e2 competes with both for one Application. *)
Overlapping == e1 :> {a1, a2} @@ e2 :> {a2} @@ e3 :> {a1, a2}

RunnerSymmetry == Permutations(Runners)

==============================================================================
