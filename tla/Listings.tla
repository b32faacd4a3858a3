------------------------------ MODULE Listings ------------------------------
(***************************************************************************)
(* The lists that a reader pages through: requests, the history of         *)
(* deployments, audit events, an inbox, what there is of access, and the   *)
(* candidates of a group.  A page is a query of its own: between two of    *)
(* them rows appear, at any place since a transaction takes its time       *)
(* before it ends, rows move or leave, and the reader may change filters.  *)
(*                                                                         *)
(* Rows are ordered by their place (a time or a name) and their id, the    *)
(* first row being the one with the greatest; candidates and access are    *)
(* read the other way round, which is the same.  A filter is the set of    *)
(* groups of rows that it lets through; the range of an audit query is     *)
(* part of its filter.                                                     *)
(***************************************************************************)
EXTENDS Integers, FiniteSets, Sequences, SequencesExt

CONSTANTS
  Rows,      \* ids
  Groups,
  Filters,   \* what a reader may filter by
  PageRows,  \* rows on a page
  MaxPlace   \* bounds the places

ASSUME ListingsAssumption ==
  /\ Rows \subseteq Nat /\ IsFiniteSet(Rows)
  /\ Filters \subseteq SUBSET Groups
  /\ PageRows \in Nat \ {0} /\ MaxPlace \in Nat

VARIABLES
  list,    \* the list that the reader is at
  place,   \* place[r]: 0 for a row that never was
  group,   \* group[r]: which filters let it through
  listed,  \* the rows that are in the list now
  reader

listingVars == <<list, place, group, listed, reader>>

Lists == {"requests", "history", "audit", "notifications", "access", "candidates"}

(* A cursor that names no row asks for the first page. *)
Start == [place |-> 0, row |-> 0]

(* steady: the rows that have been in the list, as they are, all the while. *)
Idle == [step |-> "idle", filter |-> {}, cursor |-> Start, context |-> {}, shown |-> <<>>, steady |-> {}, switched |-> FALSE]

ListingsInit ==
  /\ list \in Lists
  /\ place = [r \in Rows |-> 0]
  /\ group \in [Rows -> Groups]
  /\ listed = {}
  /\ reader = Idle

-----------------------------------------------------------------------------
(* Rows *)

Appear(r) ==
  /\ place[r] = 0
  /\ \E p \in 1 .. MaxPlace : place' = [place EXCEPT ![r] = p]
  /\ listed' = listed \cup {r}
  /\ UNCHANGED <<list, group, reader>>

Disturbed(r) == [reader EXCEPT !.steady = @ \ {r}]

(* Whatever changes a request brings it to the front, perhaps with another status. *)
TouchRequest(r) ==
  /\ list = "requests" /\ r \in listed
  /\ \E p \in place[r] + 1 .. MaxPlace, g \in Groups :
       place' = [place EXCEPT ![r] = p] /\ group' = [group EXCEPT ![r] = g]
  /\ reader' = Disturbed(r)
  /\ UNCHANGED <<list, listed>>

(* A notification expires, a user is disabled or joins the group. *)
Leave(r) ==
  /\ list \in {"notifications", "access", "candidates"} /\ r \in listed
  /\ listed' = listed \ {r}
  /\ reader' = Disturbed(r)
  /\ UNCHANGED <<list, place, group>>

(* A user is taken out of the group; a membership is given again. *)
ComeBack(r) ==
  /\ list \in {"access", "candidates"} /\ place[r] # 0 /\ r \notin listed
  /\ listed' = listed \cup {r}
  /\ UNCHANGED <<list, place, group, reader>>

-----------------------------------------------------------------------------
(* Pages *)

Key(r) == [place |-> place[r], row |-> r]

Ahead(a, b) == a.place > b.place \/ (a.place = b.place /\ a.row > b.row)

AheadRow(r, s) == Ahead(Key(r), Key(s))

Matching(filter) == {r \in listed : group[r] \in filter}

(* The rows of S in their order, which is the one sequence here. *)
InOrder(S) == {s \in SetToSeqs(S) : \A i, j \in DOMAIN s : i < j => AheadRow(s[i], s[j])}

OpenList(filter) ==
  /\ reader.step = "idle"
  /\ reader' = [Idle EXCEPT !.step = "paging", !.filter = filter, !.steady = Matching(filter)]
  /\ UNCHANGED <<list, place, group, listed>>

(* The reader keeps the cursor and asks with another filter. *)
SwitchFilter(filter) ==
  /\ reader.step = "paging" /\ reader.cursor # Start /\ ~reader.switched
  /\ filter # reader.filter
  /\ reader' = [reader EXCEPT !.filter = filter, !.shown = <<>>, !.steady = Matching(filter), !.switched = TRUE]
  /\ UNCHANGED <<list, place, group, listed>>

(* The rows strictly behind the cursor, whether or not its row is still there. *)
Following ==
  InOrder({r \in Matching(reader.filter) : reader.cursor = Start \/ Ahead(reader.cursor, Key(r))})

(* The rows behind the one that the cursor names. *)
FollowingRow ==
  LET rows == InOrder(Matching(reader.filter))
  IN IF reader.cursor = Start THEN rows
     ELSE {SubSeq(s, 1 + CHOOSE i \in DOMAIN s : s[i] = reader.cursor.row, Len(s)) : s \in rows}

(* Mutant of NextCursor: the cursor is the row that told of another page. *)
NextCursorExtra(rows) == Key(rows[PageRows + 1])

NextCursor(rows) == Key(rows[PageRows])

(* One row more than a page was read: it tells of another page. *)
AnswerPage(following) ==
  \E rows \in following :
    LET more == Len(rows) > PageRows
    IN /\ reader' = [reader EXCEPT
             !.shown = @ \o SubSeq(rows, 1, IF more THEN PageRows ELSE Len(rows)),
             !.cursor = IF more THEN NextCursor(rows) ELSE @,
             !.context = reader.filter,
             !.step = IF more THEN "paging" ELSE "done"]
       /\ UNCHANGED <<list, place, group, listed>>

RefusePage == reader' = [reader EXCEPT !.step = "refused"] /\ UNCHANGED <<list, place, group, listed>>

PageAsked(what) == list = what /\ reader.step = "paging"

FirstPage == reader.cursor = Start

(* A cursor of these lists holds what it was drawn with. *)
RequestContextHolds == FirstPage \/ reader.context = reader.filter

AuditContextHolds == FirstPage \/ reader.context = reader.filter

CandidateContextHolds == FirstPage \/ reader.context = reader.filter

PageOfRequests == PageAsked("requests") /\ IF RequestContextHolds THEN AnswerPage(Following) ELSE RefusePage

PageOfAudit == PageAsked("audit") /\ IF AuditContextHolds THEN AnswerPage(Following) ELSE RefusePage

PageOfCandidates == PageAsked("candidates") /\ IF CandidateContextHolds THEN AnswerPage(Following) ELSE RefusePage

PageOfHistory == PageAsked("history") /\ AnswerPage(Following)

PageOfNotifications == PageAsked("notifications") /\ AnswerPage(Following)

(* Every list of access is a part of one snapshot, searched for the row of the cursor. *)
PageOfAccess ==
  /\ PageAsked("access")
  /\ IF FirstPage \/ reader.cursor.row \in Matching(reader.filter) THEN AnswerPage(FollowingRow) ELSE RefusePage

-----------------------------------------------------------------------------

ListingsNext ==
  \/ \E r \in Rows : Appear(r) \/ TouchRequest(r) \/ Leave(r) \/ ComeBack(r)
  \/ \E f \in Filters : OpenList(f) \/ SwitchFilter(f)
  \/ PageOfRequests \/ PageOfAudit \/ PageOfCandidates
  \/ PageOfHistory \/ PageOfNotifications \/ PageOfAccess

-----------------------------------------------------------------------------
(* Properties *)

Contextual == {"requests", "audit", "candidates"}

(* A reader who came to the end has seen each row that was in the list,    *)
(* as it is, all the while, and none twice, whatever came, moved and left  *)
(* between the pages: also one who changed filters on the way, where the   *)
(* cursor knows its filter.                                                *)
PagesShowAll ==
  reader.step = "done" /\ (reader.switched => list \in Contextual) =>
    reader.steady \subseteq Range(reader.shown) /\ IsInjective(reader.shown)

=============================================================================
