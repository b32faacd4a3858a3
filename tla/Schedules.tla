------------------------------- MODULE Schedules -------------------------------
(***************************************************************************)
(* The deployment schedule of an environment.  Its policy is replaced by   *)
(* requests that carry a key: a request that is sent again, because its    *)
(* answer was lost, is answered from the record of the first.  A job asks  *)
(* the policy for the first time at which it may start.                    *)
(*                                                                         *)
(* Time is in thirds of a minute, from a minute's start; a week has        *)
(* WeekMinutes of them.  A window is a minute of the week; windows that    *)
(* span several are sets of these.  Time zones are left out: the policy's  *)
(* wall clock runs with the time.                                          *)
(***************************************************************************)
EXTENDS Integers, Sequences, FiniteSets

CONSTANTS
  Planners,     \* administrators and their requests
  Keys,         \* idempotency keys
  Documents,
  MaxPolicies,  \* bounds the versions of the policy
  WeekMinutes,
  SearchLimit,  \* how far the search looks ahead
  Questions     \* policies and times a job may ask with: [windows, blackouts, now, scheduled]

ASSUME SchedulesAssumption ==
  /\ MaxPolicies \in Nat /\ WeekMinutes \in Nat \ {0} /\ SearchLimit \in Nat
  /\ \A q \in Questions :
       /\ q.windows \in SUBSET (0 .. WeekMinutes - 1)
       /\ \A b \in q.blackouts : b.from \in Nat /\ b.to \in Nat /\ b.from < b.to
       /\ q.now \in Nat /\ q.scheduled \in Nat

VARIABLES
  policies,  \* policies[v]: the document of version v; the last one is the policy
  recorded,  \* recorded[p][k]: the request of p that was carried out with the key k
  asking,    \* asking[p]: requests of p on their way, each until it is answered
  told,      \* requests whose sender was told that it was carried out, with the answer
  question,  \* what a job asks
  cursor,    \* the time the search looks at
  verdict    \* "searching", "found" or "unavailable"

scheduleVars == <<policies, recorded, asking, told, question, cursor, verdict>>
putVars == <<policies, recorded, asking, told>>
searchVars == <<question, cursor, verdict>>

Minute(t) == t \div 3

AtMinute(t) == t % 3 = 0

BlackoutsAt(t) == {b \in question.blackouts : b.from <= t /\ t < b.to}

InWindow(t) == Minute(t) % WeekMinutes \in question.windows

Allows(t) == InWindow(t) /\ BlackoutsAt(t) = {}

Candidate == IF question.scheduled > question.now THEN question.scheduled ELSE question.now

CeilToMinute(t) == IF AtMinute(t) THEN t ELSE 3 * (Minute(t) + 1)

(* Mutant of NextMinute: a minute on, from wherever the cursor is. *)
AMinuteLater(t) == t + 3

NextMinute(t) == IF AtMinute(t) THEN t + 3 ELSE CeilToMinute(t)

SchedulesInit ==
  /\ policies = <<>>
  /\ recorded = [p \in Planners |-> [k \in Keys |-> {}]]
  /\ asking = [p \in Planners |-> {}]
  /\ told = {}
  /\ question \in Questions
  /\ cursor = IF Allows(Candidate) THEN Candidate ELSE CeilToMinute(Candidate)
  /\ verdict = IF Allows(Candidate) THEN "found" ELSE "searching"

-----------------------------------------------------------------------------
(* Replacing the policy *)

(* The page of p has shown some version, 0 when there was no policy. *)
Ask(p) ==
  /\ asking[p] = {}
  /\ \E k \in Keys, v \in 0 .. Len(policies), d \in Documents :
       /\ v < MaxPolicies
       /\ asking' = [asking EXCEPT ![p] = {[key |-> k, expected |-> v, document |-> d]}]
  /\ UNCHANGED <<policies, recorded, told, searchVars>>

(* Mutant of SameCommand: the key alone identifies a request. *)
SameKey(q, r) == q.key = r.key

(* The key and the fingerprint of the expected version and the document. *)
SameCommand(q, r) == q = r

(* The answer arrives, or it is lost and the request will be sent again. *)
Answer(p, q, document) ==
  \/ told' = told \cup {[request |-> q, answer |-> document]} /\ asking' = [asking EXCEPT ![p] = {}]
  \/ UNCHANGED <<told, asking>>

Refuse(p) == asking' = [asking EXCEPT ![p] = {}] /\ UNCHANGED told

(* One transaction: the key is reserved and the policy is inserted or      *)
(* updated, or a request with the same key was carried out before.         *)
Put(p) ==
  \E q \in asking[p] :
    /\ recorded[p][q.key] = {}
    /\ IF q.expected = Len(policies)
         THEN /\ policies' = Append(policies, q.document)
              /\ recorded' = [recorded EXCEPT ![p][q.key] = {q}]
              /\ Answer(p, q, q.document)
         ELSE Refuse(p) /\ UNCHANGED <<policies, recorded>>
    /\ UNCHANGED searchVars

Replay(p) ==
  \E q \in asking[p] : \E r \in recorded[p][q.key] :
    /\ IF SameCommand(q, r) THEN Answer(p, q, r.document) ELSE Refuse(p)
    /\ UNCHANGED <<policies, recorded, searchVars>>

GiveUp(p) ==
  /\ asking[p] # {}
  /\ Refuse(p)
  /\ UNCHANGED <<policies, recorded, searchVars>>

-----------------------------------------------------------------------------
(* The search for the first time to start *)

Limit == Candidate + SearchLimit

LeaveBlackout ==
  /\ verdict = "searching" /\ cursor <= Limit
  /\ \E b \in BlackoutsAt(cursor) : cursor' = b.to
  /\ UNCHANGED <<putVars, question, verdict>>

LookAtMinute ==
  /\ verdict = "searching" /\ cursor <= Limit /\ BlackoutsAt(cursor) = {}
  /\ IF InWindow(cursor)
       THEN verdict' = "found" /\ UNCHANGED cursor
       ELSE cursor' = NextMinute(cursor) /\ UNCHANGED verdict
  /\ UNCHANGED <<putVars, question>>

ReachLimit ==
  /\ verdict = "searching" /\ cursor > Limit
  /\ verdict' = "unavailable"
  /\ UNCHANGED <<putVars, question, cursor>>

SchedulesNext ==
  \/ \E p \in Planners : Ask(p) \/ Put(p) \/ Replay(p) \/ GiveUp(p)
  \/ LeaveBlackout \/ LookAtMinute \/ ReachLimit

-----------------------------------------------------------------------------
(* Properties *)

(* Whoever is told that a policy was stored finds it stored, as asked, as  *)
(* the next version after the one seen: whatever others stored meanwhile,  *)
(* however often the request was sent and whatever its key was used for.   *)
AcceptedWasStored ==
  \A t \in told :
    /\ t.request.expected + 1 \in DOMAIN policies
    /\ policies[t.request.expected + 1] = t.request.document
    /\ t.answer = t.request.document

(* The search returns a time at which the job may start, and passes none   *)
(* from the first full minute on, though blackouts end within minutes.     *)
FirstAllowedMinute ==
  verdict # "searching" =>
    /\ verdict = "found" => Allows(cursor) /\ cursor >= Candidate
    /\ \A t \in CeilToMinute(Candidate) .. (IF verdict = "found" THEN cursor - 1 ELSE Limit) : ~Allows(t)

(* It passes none at all.  It does not hold: a blackout that ends within   *)
(* the minute in which the search begins leaves the rest of that minute.   *)
FirstAllowedInstant ==
  verdict = "found" => \A t \in Candidate .. cursor - 1 : ~Allows(t)

=============================================================================
