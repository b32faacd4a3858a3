----------------------------- MODULE Notifications -----------------------------
(***************************************************************************)
(* Notifications: an event that a transaction of the business left in the  *)
(* outbox is projected by the worker into one inbox row for each user who  *)
(* may see it at that time.  Users mark what they read, and hear of new    *)
(* rows on a stream that resumes, after a lost connection, from the last   *)
(* event they got.  Rows expire.  The pages of an inbox are in Listings.   *)
(*                                                                         *)
(* Of an event only the time it occurred matters, which the transaction    *)
(* takes before it commits: events may be committed out of their order.    *)
(* Rows of one inbox that occurred at one time are ordered by an id which  *)
(* is drawn at random; the model orders them by the event, and lets the    *)
(* projection take them in any order.                                      *)
(***************************************************************************)
EXTENDS Integers, FiniteSets, Sequences, SequencesExt

CONSTANTS
  Users,
  Events,     \* numbers; bounds the events of a behaviour
  Kinds,      \* what may become of the events: functions from Events to "scoped", "broadcast" or "silent"
  AnswerRows, \* rows in one answer of the stream
  Retention,  \* how long a row is kept
  MaxTime,    \* bounds the clock
  Workloads   \* what a behaviour may do besides the projection

ASSUME NotificationsAssumption ==
  /\ Events \subseteq Nat /\ IsFiniteSet(Events)
  /\ Kinds \subseteq [Events -> {"scoped", "broadcast", "silent"}]
  /\ AnswerRows \in Nat \ {0} /\ Retention \in Nat \ {0} /\ MaxTime \in Nat

VARIABLES
  clock,
  outbox,     \* outbox[e]: "none", "open" in its transaction, "waiting" or "published"
  occurred,   \* occurred[e]: the time of the event
  kind,       \* kind[e]: whom it is for; a silent event notifies nobody
  active,     \* users who are not disabled
  rights,     \* rights[u]: the permissions that u has in the scope of the events
  worker,     \* "up" or "down"
  inbox,      \* inbox[u]: the events of u's rows
  read,       \* read[u]: those with a receipt
  streaming,  \* users with an open stream
  got,        \* got[u]: what the page of u got from its streams
  mark,       \* mark[u]: what a request of u to mark rows is doing
  workload

Inboxes == <<inbox, read>>
Readers == <<streaming, got, mark>>
People == <<active, rights>>
Outbox == <<outbox, occurred>>
Offered == <<kind, workload>>
notificationVars == <<clock, Outbox, People, worker, Inboxes, Readers, Offered>>

May(thing) == thing \in workload

NoMark == [step |-> "none", rows |-> {}]

NotificationsInit ==
  /\ clock = 1
  /\ outbox = [e \in Events |-> "none"]
  /\ occurred = [e \in Events |-> 0]
  /\ kind \in Kinds
  /\ active = Users
  /\ rights \in [Users -> {{}, {"view", "mark"}}]
  /\ worker = "up"
  /\ inbox = [u \in Users |-> {}]
  /\ read = [u \in Users |-> {}]
  /\ streaming = {}
  /\ got = [u \in Users |-> <<>>]
  /\ mark = [u \in Users |-> NoMark]
  /\ workload \in Workloads

Earlier(d, e) == occurred[d] < occurred[e] \/ (occurred[d] = occurred[e] /\ d < e)

(* Neither the projection nor a query sees what has expired. *)
Live(e) == clock < occurred[e] + Retention

LiveRows(u) == {e \in inbox[u] : Live(e)}

(* The rows of S in their order, which is the one sequence here. *)
Ascending(S) == {s \in SetToSeqs(S) : \A i, j \in DOMAIN s : i < j => Earlier(s[i], s[j])}

FirstOf(s) == SubSeq(s, 1, IF Len(s) < AnswerRows THEN Len(s) ELSE AnswerRows)

LatestOf(s) == SubSeq(s, IF Len(s) < AnswerRows THEN 1 ELSE Len(s) - AnswerRows + 1, Len(s))

-----------------------------------------------------------------------------
(* Surroundings *)

Tick ==
  /\ clock < MaxTime /\ clock' = clock + 1
  /\ UNCHANGED <<Outbox, People, worker, Inboxes, Readers, Offered>>

(* A transaction takes the time of its event, and ends later. *)
Occur(e) ==
  /\ outbox[e] = "none"
  /\ outbox' = [outbox EXCEPT ![e] = "open"]
  /\ occurred' = [occurred EXCEPT ![e] = clock]
  /\ UNCHANGED <<clock, People, worker, Inboxes, Readers, Offered>>

Commit(e) ==
  /\ outbox[e] = "open"
  /\ outbox' = [outbox EXCEPT ![e] = "waiting"]
  /\ UNCHANGED <<clock, occurred, People, worker, Inboxes, Readers, Offered>>

Change(u) ==
  /\ May("change")
  /\ \E r \in {{}, {"view"}, {"view", "mark"}} \ {rights[u]} : rights' = [rights EXCEPT ![u] = r]
  /\ UNCHANGED <<clock, Outbox, active, worker, Inboxes, Readers, Offered>>

Disable(u) ==
  /\ May("disable") /\ u \in active
  /\ active' = active \ {u}
  /\ UNCHANGED <<clock, Outbox, rights, worker, Inboxes, Readers, Offered>>

-----------------------------------------------------------------------------
(* Projection *)

Waiting == {e \in Events : outbox[e] = "waiting"}

Claimable == {e \in Waiting : \A d \in Waiting : occurred[e] <= occurred[d]}

(* Who is notified: judged when the event is projected, not when it occurred. *)
Recipients(e) ==
  CASE kind[e] = "broadcast" -> active
    [] kind[e] = "scoped" -> {u \in active : "view" \in rights[u]}
    [] OTHER -> {}

(* One transaction: the rows, and that the event is done. *)
ProjectNext(e) ==
  /\ worker = "up" /\ e \in Claimable
  /\ inbox' = [u \in Users |-> IF Live(e) /\ u \in Recipients(e) THEN inbox[u] \cup {e} ELSE inbox[u]]
  /\ outbox' = [outbox EXCEPT ![e] = "published"]
  /\ UNCHANGED <<clock, occurred, People, worker, read, Readers, Offered>>

(* Mutant of ProjectionFails: an event that fails is put aside for good. *)
ProjectionFailsForGood(e) ==
  /\ May("fail") /\ worker = "up" /\ e \in Claimable
  /\ outbox' = [outbox EXCEPT ![e] = "published"]
  /\ worker' = "down"
  /\ UNCHANGED <<clock, occurred, People, Inboxes, Readers, Offered>>

(* The transaction is undone, the failure is counted, and the worker ends. *)
ProjectionFails(e) ==
  /\ May("fail") /\ worker = "up" /\ e \in Claimable
  /\ worker' = "down"
  /\ UNCHANGED <<clock, Outbox, People, Inboxes, Readers, Offered>>

Restart ==
  /\ worker = "down"
  /\ worker' = "up"
  /\ UNCHANGED <<clock, Outbox, People, Inboxes, Readers, Offered>>

DeleteExpired ==
  /\ worker = "up"
  /\ \E u \in Users : inbox[u] # LiveRows(u)
  /\ inbox' = [u \in Users |-> LiveRows(u)]
  /\ read' = [u \in Users |-> {e \in read[u] : Live(e)}]
  /\ UNCHANGED <<clock, Outbox, People, worker, Readers, Offered>>

-----------------------------------------------------------------------------
(* The stream *)

(* A page opens its stream, or opens it again and says what it got last. *)
Connect(u) ==
  /\ May("stream") /\ u \in active \ streaming
  /\ streaming' = streaming \cup {u}
  /\ UNCHANGED <<clock, Outbox, People, worker, Inboxes, got, mark, Offered>>

(* Mutant of EventsAfter: the anchor has to be there unexpired, and a      *)
(* stream without anchor is sent the latest rows.                          *)
EventsAfterLive(u) ==
  IF got[u] = <<>> \/ Last(got[u]) \notin LiveRows(u) THEN {LatestOf(s) : s \in Ascending(LiveRows(u))}
  ELSE {FirstOf(s) : s \in Ascending({e \in LiveRows(u) : ~Earlier(e, Last(got[u]))})}

EventsAfter(u) ==
  IF got[u] = <<>> \/ Last(got[u]) \notin inbox[u] THEN {LatestOf(s) : s \in Ascending(LiveRows(u))}
  ELSE {FirstOf(s) : s \in Ascending({e \in LiveRows(u) : Earlier(Last(got[u]), e)})}

(* The answer of one poll, or the part of it that still came through.  *)
(* A stream asks no more whether its user was disabled.                *)
Poll(u) ==
  /\ u \in streaming
  /\ \E events \in EventsAfter(u) \ {<<>>} : \E n \in 0 .. Len(events) :
       /\ got' = [got EXCEPT ![u] = @ \o SubSeq(events, 1, n)]
       /\ streaming' = IF n < Len(events) THEN streaming \ {u} ELSE streaming
  /\ UNCHANGED <<clock, Outbox, People, worker, Inboxes, mark, Offered>>

-----------------------------------------------------------------------------
(* The inbox *)

(* The rows of a request to mark one or all of them. *)
LoadMarked(u) ==
  /\ May("mark") /\ u \in active /\ mark[u].step = "none"
  /\ \E rows \in {{e} : e \in LiveRows(u)} \cup {LiveRows(u) \ read[u]} :
       /\ rows # {}
       /\ mark' = [mark EXCEPT ![u] = [step |-> "checking", rows |-> rows]]
  /\ UNCHANGED <<clock, Outbox, People, worker, Inboxes, streaming, got, Offered>>

CheckMarked(u) ==
  /\ mark[u].step = "checking"
  /\ mark' = [mark EXCEPT ![u] = IF "mark" \in rights[u] THEN [@ EXCEPT !.step = "writing"] ELSE NoMark]
  /\ UNCHANGED <<clock, Outbox, People, worker, Inboxes, streaming, got, Offered>>

(* Only rows that are still there get a receipt. *)
MarkRead(u) ==
  /\ mark[u].step = "writing"
  /\ read' = [read EXCEPT ![u] = @ \cup (mark[u].rows \cap LiveRows(u))]
  /\ mark' = [mark EXCEPT ![u] = NoMark]
  /\ UNCHANGED <<clock, Outbox, People, worker, inbox, streaming, got, Offered>>

-----------------------------------------------------------------------------

NotificationsNext ==
  \/ Tick \/ Restart \/ DeleteExpired
  \/ \E e \in Events : Occur(e) \/ Commit(e) \/ ProjectNext(e) \/ ProjectionFails(e)
  \/ \E u \in Users :
       \/ Change(u) \/ Disable(u) \/ Connect(u) \/ Poll(u)
       \/ LoadMarked(u) \/ CheckMarked(u) \/ MarkRead(u)

Project == \E e \in Events : ProjectNext(e)

(* The worker polls for ever and is started again; the database does not *)
(* fail every time.                                                      *)
ProjectionIsFair == WF_notificationVars(Restart) /\ SF_notificationVars(Project)

-----------------------------------------------------------------------------
(* Properties *)

(* Whoever may see an event from its commit on is notified of it, unless   *)
(* it expires first: however often the projection fails.                   *)
EventsReachTheirRecipients ==
  \A e \in Events, u \in Users :
    (outbox[e] = "waiting") ~> (e \in inbox[u] \/ u \notin Recipients(e) \/ ~Live(e))

(* A page hears of an event at most once, though connections are lost in   *)
(* the middle of an answer and the row it resumes from has expired.        *)
HeardOnce == \A u \in Users : \A i, j \in DOMAIN got[u] : got[u][i] = got[u][j] => i = j

(* A stream that was resumed has missed nothing.  It does not hold: an     *)
(* event committed after a later one was streamed has an earlier place.    *)
StreamMissesNothing ==
  \A u \in Users : \A e \in inbox[u] :
    got[u] # <<>> /\ Earlier(e, Last(got[u])) /\ Earlier(got[u][1], e) => e \in Range(got[u])

=============================================================================
