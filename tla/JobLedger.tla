------------------------------ MODULE JobLedger ------------------------------
(***************************************************************************)
(* What the deployment job queue promises, without clocks, leases or rows: *)
(* a ledger of jobs and of the grants under which workers may resolve them.*)
(* A grant can be superseded at any moment by a newer one; only the worker *)
(* that holds the newest grant of a held job decides what becomes of it.   *)
(* JobQueue implements this module.                                        *)
(***************************************************************************)
EXTENDS Integers

CONSTANTS Jobs, Workers, MaxAttempts

VARIABLES
  entry,    \* entry[j]: phase of job j, number of its newest grant, attempts spent
  holding   \* holding[w]: the grant worker w believes it holds, or NoGrant

NoGrant == [job |-> "none", grant |-> 0]

Init ==
  /\ entry = [j \in Jobs |-> [phase |-> "absent", grant |-> 0, tries |-> 0]]
  /\ holding = [w \in Workers |-> NoGrant]

Current(w, j) ==
  /\ entry[j].phase = "held"
  /\ holding[w] = [job |-> j, grant |-> entry[j].grant]

Accept(j) ==
  /\ entry[j].phase = "absent"
  /\ entry' = [entry EXCEPT ![j].phase = "ready"]
  /\ UNCHANGED holding

(***************************************************************************)
(* A new grant is issued while attempts are left; held jobs without any    *)
(* attempt left may be written off in the same step.                       *)
(***************************************************************************)
Issue(w, j, dead) ==
  /\ holding[w] = NoGrant
  /\ entry[j].phase \in {"ready", "held"}
  /\ entry[j].tries < MaxAttempts
  /\ \A k \in dead : entry[k].phase = "held" /\ entry[k].tries >= MaxAttempts
  /\ entry' = [k \in Jobs |->
       IF k = j
       THEN [phase |-> "held", grant |-> entry[j].grant + 1, tries |-> entry[j].tries + 1]
       ELSE IF k \in dead THEN [entry[k] EXCEPT !.phase = "failed"]
       ELSE entry[k]]
  /\ holding' = [holding EXCEPT ![w] = [job |-> j, grant |-> entry[j].grant + 1]]

Resolve(w, j, outcome) ==
  /\ Current(w, j)
  /\ entry' = [entry EXCEPT ![j] = outcome]
  /\ holding' = [holding EXCEPT ![w] = NoGrant]

Return(w, j) ==
  Resolve(w, j, [phase |-> "ready", grant |-> entry[j].grant, tries |-> entry[j].tries - 1])

Finish(w, j) ==
  Resolve(w, j, [entry[j] EXCEPT !.phase = "succeeded"])

GiveUp(w, j) ==
  Resolve(w, j, [entry[j] EXCEPT
    !.phase = IF entry[j].tries >= MaxAttempts THEN "failed" ELSE "ready"])

Forget(w) ==
  /\ holding[w] # NoGrant
  /\ holding' = [holding EXCEPT ![w] = NoGrant]
  /\ UNCHANGED entry

Next ==
  \/ \E j \in Jobs : Accept(j)
  \/ \E w \in Workers :
       \/ Forget(w)
       \/ \E j \in Jobs :
            \/ \E dead \in SUBSET Jobs : Issue(w, j, dead)
            \/ Return(w, j) \/ Finish(w, j) \/ GiveUp(w, j)

Spec == Init /\ [][Next]_<<entry, holding>>

==============================================================================
