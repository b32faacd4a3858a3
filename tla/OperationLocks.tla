---------------------------- MODULE OperationLocks ----------------------------
(***************************************************************************)
(* What the table of Application operation locks promises, without clocks: *)
(* an execution takes the locks of all its Applications or none of them,   *)
(* and a lock changes hands only when it was given back, when it lapsed,   *)
(* or when an operator retries or unlocks.  A lock may lapse at any time,  *)
(* because its holder may be too slow to renew it.                         *)
(* ApplicationLocks implements this module.                                *)
(***************************************************************************)
EXTENDS Naturals

CONSTANTS
  Apps, Executions,
  Owners,   \* owner tokens, one per acquisition
  Targets   \* Targets[e]: the Applications that execution e deploys

VARIABLES
  lock,     \* lock[a]: execution and owner token that hold Application a
  lapsed    \* the held Applications anyone may take over

Free == [exec |-> "none", owner |-> 0]

Init ==
  /\ lock = [a \in Apps |-> Free]
  /\ lapsed = {}

HeldBy(e) == {a \in Apps : lock[a].exec = e}

OwnsAll(e, o) == \A a \in Targets[e] : lock[a] = [exec |-> e, owner |-> o]

Give(A, holder) == lock' = [a \in Apps |-> IF a \in A THEN holder ELSE lock[a]]

(* A statement that gives or renews locks may be so late that they lapsed again. *)
Refresh(A) == \E late \in {{}, A} : lapsed' = (lapsed \ A) \cup late

Takeable(e) ==
  \A a \in Targets[e] : lock[a] = Free \/ lock[a].exec = e \/ a \in lapsed

Take(e, o) ==
  /\ Takeable(e)
  /\ Give(Targets[e], [exec |-> e, owner |-> o])
  /\ Refresh(Targets[e])

Renew(e, o) ==
  /\ OwnsAll(e, o)
  /\ Refresh(Targets[e])
  /\ UNCHANGED lock

Drop(e, o) ==
  /\ OwnsAll(e, o)
  /\ Give(Targets[e], Free)
  /\ lapsed' = lapsed \ Targets[e]

HandOff(e, f, o) ==
  /\ Give(HeldBy(e), [exec |-> f, owner |-> o])
  /\ Refresh(HeldBy(e))

Unlock(e) ==
  /\ \A a \in Targets[e] : lock[a].exec = e
  /\ Give(Targets[e], Free)
  /\ lapsed' = lapsed \ Targets[e]

Lapse ==
  /\ lapsed' \in SUBSET {a \in Apps : lock[a] # Free}
  /\ lapsed \subseteq lapsed'
  /\ UNCHANGED lock

Next ==
  \/ \E e \in Executions :
       \/ Unlock(e)
       \/ \E o \in Owners :
            \/ Take(e, o) \/ Renew(e, o) \/ Drop(e, o)
            \/ \E f \in Executions : HandOff(e, f, o)
  \/ Lapse

Spec == Init /\ [][Next]_<<lock, lapsed>>

==============================================================================
