----------------------------- MODULE AuditTrail -----------------------------
(***************************************************************************)
(* Who sees which audit events.  A reader asks for the events below a      *)
(* scope, for one event, or for the scopes there are to ask for.  Each     *)
(* decision is made on the rules that the process has loaded, once their   *)
(* revision is found to be the latest (AuthorizeFresh); denials below a    *)
(* root and the roots to offer are read from the tables.  In between an    *)
(* administrator may change the rules, and others may load them.           *)
(*                                                                         *)
(* A scope is the path that leads to it; the platform's is <<>>.  Events   *)
(* without a trustworthy scope are seen from the platform only.            *)
(***************************************************************************)
EXTENDS Integers, FiniteSets, Sequences, SequencesExt

CONSTANTS
  Scopes,         \* all paths, the platform's included
  EventScopes,    \* the scopes of events, or Unresolved: one event each
  Unresolved,
  GrantSets,      \* what the reader may be granted at first
  MaxChanges      \* bounds what the administrator does

ASSUME AuditTrailAssumption ==
  /\ \A s \in Scopes : s \in Seq(Range(s))
  /\ <<>> \in Scopes /\ Unresolved \notin Scopes
  /\ EventScopes \subseteq Scopes \cup {Unresolved}
  /\ GrantSets \subseteq SUBSET Scopes /\ MaxChanges \in Nat

VARIABLES
  granted,   \* scopes of the bindings that let the reader view events
  denied,    \* scopes of the denials
  changes,   \* how often the administrator changed them: their revision
  cache,     \* the rules of the process, the revision it takes them for and that they are of
  loader,    \* who has the cache locked to load rules
  request    \* what the reader asked for and how far it is

tables == <<granted, denied, changes>>

policy == <<cache, loader>>

auditVars == <<tables, policy, request>>

(* fresh: what is known of the revision of the cache, for the next decision. *)
(* History: since, when the request began; held and stood, the grants there  *)
(* were at some time since and the denials there were all the time; torn,    *)
(* whether it was let in by rules older than the revision they passed for.   *)
NoRequest == [step |-> "none", kind |-> "list", root |-> <<>>, event |-> Unresolved, fresh |-> "unknown",
              hidden |-> {}, shown |-> {}, since |-> 0, held |-> {}, stood |-> {}, torn |-> FALSE]

AuditTrailInit ==
  /\ granted \in GrantSets
  /\ denied = {}
  /\ changes = 0
  /\ cache = [granted |-> granted, denied |-> denied, revision |-> 0, asOf |-> 0]
  /\ loader = "nobody"
  /\ request = NoRequest

(* A scope covers itself and what is below it; the platform is beside all others. *)
Covers(scope, other) == IF scope = <<>> THEN other = <<>> ELSE IsPrefix(scope, other)

Covered(rules, scope) == \E r \in rules : Covers(r, scope)

-----------------------------------------------------------------------------
(* The administrator *)

ChangeGrants ==
  /\ changes < MaxChanges /\ changes' = changes + 1
  /\ \E s \in Scopes : granted' = IF s \in granted THEN granted \ {s} ELSE granted \cup {s}
  /\ request' = [request EXCEPT !.held = @ \cup granted']
  /\ UNCHANGED <<denied, policy>>

ChangeDenials ==
  /\ changes < MaxChanges /\ changes' = changes + 1
  /\ \E s \in Scopes \ {<<>>} : denied' = IF s \in denied THEN denied \ {s} ELSE denied \cup {s}
  /\ request' = [request EXCEPT !.stood = @ \cap denied']
  /\ UNCHANGED <<granted, policy>>

-----------------------------------------------------------------------------
(* The policy of the process *)

Torn == cache.asOf < cache.revision

(* A request is about to decide. *)
Decides == request.step \in {"locating", "authorizing", "rooting"} \/ (request.step = "filtering" /\ request.hidden # {})

(* Mutant of AskRevision: rules that are one revision behind pass. *)
AskRevisionLoosely ==
  /\ Decides /\ request.fresh = "unknown" /\ loader = "nobody"
  /\ request' = [request EXCEPT !.fresh = IF changes <= cache.revision + 1 THEN "yes" ELSE "no"]
  /\ UNCHANGED <<tables, policy>>

AskRevision ==
  /\ Decides /\ request.fresh = "unknown" /\ loader = "nobody"
  /\ request' = [request EXCEPT !.fresh = IF changes <= cache.revision THEN "yes" ELSE "no"]
  /\ UNCHANGED <<tables, policy>>

(* The rules are loaded first, under the lock of the cache... *)
LoadRules(who) ==
  /\ loader = "nobody" /\ loader' = who
  /\ cache' = [cache EXCEPT !.granted = granted, !.denied = denied, !.asOf = changes]
  /\ UNCHANGED tables

(* ... and then their revision is read. *)
StampRevision(who) ==
  /\ loader = who /\ loader' = "nobody"
  /\ cache' = [cache EXCEPT !.revision = changes]
  /\ UNCHANGED tables

Reload == request.fresh = "no" /\ LoadRules("reader") /\ UNCHANGED request

Reloaded == StampRevision("reader") /\ request' = [request EXCEPT !.fresh = "yes"]

(* The listener, or another request that found the cache stale some time ago; *)
(* it may fail after the rules are loaded.                                    *)
OthersReload == LoadRules("others") /\ UNCHANGED request

OthersReloaded == StampRevision("others") /\ UNCHANGED request

OthersFail == loader = "others" /\ loader' = "nobody" /\ UNCHANGED <<tables, cache, request>>

(* The decision on the rules of the process: a denial wins. *)
Allowed(scope) == Covered(cache.granted, scope) /\ ~Covered(cache.denied, scope)

MayDecide(step) == request.step = step /\ request.fresh = "yes" /\ loader = "nobody"

(* The request goes on, and the next decision asks for the revision again. *)
LetIn == [request EXCEPT !.fresh = "unknown", !.torn = @ \/ Torn]

NotLetIn == [request EXCEPT !.fresh = "unknown"]

-----------------------------------------------------------------------------
(* A request *)

BeginRequest(kind, step, root, event) ==
  /\ request.step = "none"
  /\ request' = [NoRequest EXCEPT !.kind = kind, !.step = step, !.root = root, !.event = event,
                                  !.since = changes, !.held = granted, !.stood = denied]
  /\ UNCHANGED <<tables, policy>>

(* Forbidden, or masked as not found. *)
TurnDown == request' = NoRequest /\ UNCHANGED <<tables, policy>>

AskForList(root) == BeginRequest("list", "authorizing", root, Unresolved)

(* The scope of the event is read before anything is authorized. *)
LocateEvent(event) == BeginRequest("detail", "locating", <<>>, event)

AskForRoots == BeginRequest("roots", "rooting", <<>>, Unresolved)

(* Whoever may see the platform's events sees the event from there. *)
ChooseTarget ==
  /\ request.kind = "detail" /\ MayDecide("locating")
  /\ IF ~Allowed(<<>>) /\ request.event \in {Unresolved, <<>>} THEN TurnDown
     ELSE /\ request' = IF Allowed(<<>>) THEN [LetIn EXCEPT !.step = "resolving"]
                        ELSE [NotLetIn EXCEPT !.step = "authorizing", !.root = request.event]
          /\ UNCHANGED <<tables, policy>>

AuthorizeRoot ==
  /\ MayDecide("authorizing")
  /\ IF Allowed(request.root)
     THEN request' = [LetIn EXCEPT !.step = "resolving"] /\ UNCHANGED <<tables, policy>>
     ELSE TurnDown

(* Mutant of BelowRoot: only what is denied at the root itself. *)
AtRoot(root) == denied \cap {root}

BelowRoot(root) == {d \in denied : Covers(root, d)}

(* The denials below the root, read again; those above it were part of the decision. *)
ResolveDenials ==
  /\ request.step = "resolving"
  /\ request' = [request EXCEPT !.step = "reading",
                   !.hidden = IF request.root = <<>> THEN {} ELSE BelowRoot(request.root)]
  /\ UNCHANGED <<tables, policy>>

(* What the query for a root and its denials lets through. *)
Visible(root, hidden) ==
  IF root = <<>> THEN EventScopes
  ELSE {e \in EventScopes \ {Unresolved} : Covers(root, e) /\ ~Covered(hidden, e)}

Disclose(events) ==
  /\ request' = [request EXCEPT !.step = "answered", !.shown = events]
  /\ UNCHANGED <<tables, policy>>

(* A page of events, or the values to filter by: of the same rows. *)
ListEvents == request.kind = "list" /\ request.step = "reading" /\ Disclose(Visible(request.root, request.hidden))

GetEvent ==
  /\ request.kind = "detail" /\ request.step = "reading"
  /\ IF request.event \in Visible(request.root, request.hidden) THEN Disclose({request.event}) ELSE TurnDown

(* The roots to ask for: the platform alone... *)
OfferPlatform ==
  /\ request.kind = "roots" /\ MayDecide("rooting")
  /\ request' = IF Allowed(<<>>) THEN [LetIn EXCEPT !.step = "answered", !.shown = {<<>>}]
                ELSE [NotLetIn EXCEPT !.step = "listing"]
  /\ UNCHANGED <<tables, policy>>

(* ... or the scopes of the reader's bindings... *)
ListRoots ==
  /\ request.step = "listing"
  /\ request' = [request EXCEPT !.step = "filtering", !.hidden = granted \ {<<>>}]
  /\ UNCHANGED <<tables, policy>>

(* ... each of which is authorized in turn. *)
OfferRoot ==
  /\ request.hidden # {} /\ MayDecide("filtering")
  /\ \E s \in request.hidden :
       request' = IF Allowed(s) THEN [LetIn EXCEPT !.hidden = @ \ {s}, !.shown = @ \cup {s}]
                  ELSE [NotLetIn EXCEPT !.hidden = @ \ {s}]
  /\ UNCHANGED <<tables, policy>>

OfferRoots == request.step = "filtering" /\ request.hidden = {} /\ Disclose(request.shown)

(* The database does not answer. *)
RequestFails ==
  /\ request.step \notin {"none", "answered"}
  /\ request' = NoRequest
  /\ loader' = IF loader = "reader" THEN "nobody" ELSE loader
  /\ UNCHANGED <<tables, cache>>

FinishRequest == request.step = "answered" /\ TurnDown

AuditTrailNext ==
  \/ ChangeGrants \/ ChangeDenials
  \/ \E s \in Scopes : AskForList(s)
  \/ \E e \in EventScopes : LocateEvent(e)
  \/ AskForRoots \/ ChooseTarget \/ AuthorizeRoot \/ ResolveDenials
  \/ ListEvents \/ GetEvent \/ OfferPlatform \/ ListRoots \/ OfferRoot \/ OfferRoots
  \/ FinishRequest \/ RequestFails
  \/ AskRevision \/ Reload \/ Reloaded \/ OthersReload \/ OthersReloaded \/ OthersFail

-----------------------------------------------------------------------------
(* Properties *)

(* The denials that stood all the while and that the request has to heed: *)
(* old rules may let in against those at its root or above.               *)
Standing == IF request.torn THEN {d \in request.stood : Covers(request.root, d)} ELSE request.stood

(* What is disclosed, an event or a root, was under a grant of the reader  *)
(* at some time since the request began, and under no denial that stood    *)
(* all the while: whatever the administrator changes between the           *)
(* statements, and however old the rules of the process were.  Only the    *)
(* platform's readers are beyond denials.  A request that was let in by    *)
(* rules which a commit outdated while they were loaded (Torn) is held to  *)
(* the denials below its root alone.                                       *)
DisclosedWasAllowed ==
  request.step = "answered" =>
    \A s \in request.shown :
      \/ request.root = <<>> /\ request.kind # "roots" /\ (request.torn \/ <<>> \in request.held)
      \/ /\ s # Unresolved /\ ~Covered(Standing, s)
         /\ request.torn \/ Covered(request.held, s)

=============================================================================
