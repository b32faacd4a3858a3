------------------------------- MODULE Candidates -------------------------------
(***************************************************************************)
(* How deployment candidates become versions of deployment requests.  The  *)
(* candidate worker compares the managed Applications of an environment    *)
(* with their targets, one after the other, and records each new           *)
(* difference in the open request of the environment's binding, whose      *)
(* newest version it supersedes by one that carries the Applications of    *)
(* the old one.  Operators supersede a version to edit its metadata.       *)
(*                                                                         *)
(* Reads of Argo CD take a step each: the manifests at the resolved        *)
(* revision, then the difference to the live objects.  A transaction is    *)
(* one step; it gives up, and its Application waits for the next pass,     *)
(* when the row it supersedes has changed.  Deployments are reduced to     *)
(* what they do to a version and to the live content.                      *)
(***************************************************************************)
EXTENDS Integers, Sequences, Functions

CONSTANTS
  LastApplication, \* the Applications of the environment, in the order of their ids
  Contents,        \* target contents: rendered manifests with their image digests
  Initial,         \* the content that is live, and the target, at first
  Bindings,        \* pairs of a workflow version and a plan version
  Planned,         \* Planned[b]: the Applications the plan of a binding has nodes for
  Editors,         \* pages of operators that edit the metadata of a request
  LastVersion,     \* bound on the versions of all requests
  MaxChanges       \* bound on the changes made outside and on the failures

Applications == 1..LastApplication

ASSUME CandidatesAssumption ==
  /\ LastApplication \in Nat
  /\ Initial \in Contents
  /\ Planned \in [Bindings -> SUBSET Applications]
  /\ Bindings # {}
  /\ LastVersion \in Nat /\ MaxChanges \in Nat

VARIABLES
  target,   \* target[a]: the content the Application is to have
  live,     \* live[a]: the content it has
  managed,  \* the Applications that pass the gates: onboarded, labelled, no automated sync
  binding,  \* the active binding of the environment
  seen,     \* the observations, in the order they were recorded
  versions, \* the versions of all requests, in the order they were created
  pass,     \* what the worker's pass has read but not written
  edit,     \* edit[e]: the version an editor's page shows, with its lock
  changes   \* changes and failures so far

vars == <<target, live, managed, binding, seen, versions, pass, edit, changes>>

(* The observation's fingerprint hashes the manifests and images, and the  *)
(* difference of live and predicted objects, whichever source they are of. *)
Observations ==
  [application : Applications, binding : Bindings, manifests : Contents,
   diff : [to : Contents, from : Contents]]

Status == {"Candidate", "Deploying", "Succeeded", "Failed", "PartialFailed", "Superseded", "Terminated"}

(* An open version may be superseded; a request has at most one. *)
Open == {"Candidate", "PartialFailed"}

Indices == DOMAIN versions

SameRequest(i, j) == versions[i].request = versions[j].request

Idle == [stage |-> "idle"]

NoPage == [version |-> 0, lock |-> 0]

Init ==
  /\ target = [a \in Applications |-> Initial]
  /\ live = [a \in Applications |-> Initial]
  /\ managed = Applications
  /\ binding \in Bindings
  /\ seen = <<>>
  /\ versions = <<>>
  /\ pass = Idle
  /\ edit = [e \in Editors |-> NoPage]
  /\ changes = 0

-----------------------------------------------------------------------------
(* Changes outside *)

Change == changes < MaxChanges /\ changes' = changes + 1

(* A commit to the GitOps repository, or one that is reverted. *)
Push(a, content) ==
  /\ Change
  /\ content # target[a]
  /\ target' = [target EXCEPT ![a] = content]
  /\ UNCHANGED <<live, managed, binding, seen, versions, pass, edit>>

(* A sync that was started in Argo CD. *)
SyncByHand(a) ==
  /\ Change
  /\ live[a] # target[a]
  /\ live' = [live EXCEPT ![a] = target[a]]
  /\ UNCHANGED <<target, managed, binding, seen, versions, pass, edit>>

(* The configuration of an Application drifts, or it is onboarded again. *)
Gate(a) ==
  /\ Change
  /\ managed' = IF a \in managed THEN managed \ {a} ELSE managed \cup {a}
  /\ UNCHANGED <<target, live, binding, seen, versions, pass, edit>>

Rebind(b) ==
  /\ Change
  /\ b # binding
  /\ binding' = b
  /\ UNCHANGED <<target, live, managed, seen, versions, pass, edit>>

-----------------------------------------------------------------------------
(* The worker's pass *)

Begin ==
  /\ pass = Idle
  /\ pass' = [stage |-> "next", todo |-> managed, binding |-> binding]
  /\ UNCHANGED <<target, live, managed, binding, seen, versions, edit, changes>>

Left(a) == [stage |-> "next", todo |-> pass.todo \ {a}, binding |-> pass.binding]

Current(a) == a \in pass.todo /\ \A other \in pass.todo : a <= other

(* The Application is read, and its manifests at the revision it resolved. *)
ReadTarget(a) ==
  /\ pass.stage = "next" /\ Current(a)
  /\ pass' = IF a \in managed /\ live[a] # target[a]
               THEN [stage |-> "diff", todo |-> pass.todo, binding |-> pass.binding,
                     manifests |-> target[a]]
               ELSE Left(a)
  /\ UNCHANGED <<target, live, managed, binding, seen, versions, edit, changes>>

ReadDiff(a) ==
  /\ pass.stage = "diff" /\ Current(a)
  /\ pass' = IF live[a] # target[a]
               THEN [stage |-> "persist", todo |-> pass.todo, binding |-> pass.binding,
                     observation |-> [application |-> a, binding |-> pass.binding,
                                      manifests |-> pass.manifests,
                                      diff |-> [to |-> target[a], from |-> live[a]]]]
               ELSE Left(a)
  /\ UNCHANGED <<target, live, managed, binding, seen, versions, edit, changes>>

(* Argo CD or the registry cannot be read, or the transaction gives up: the *)
(* pass goes on with the next Application.                                  *)
Skip(a) ==
  /\ Change
  /\ pass.stage \in {"next", "diff", "persist"} /\ Current(a)
  /\ pass' = Left(a)
  /\ UNCHANGED <<target, live, managed, binding, seen, versions, edit>>

Finish ==
  /\ pass.stage = "next" /\ pass.todo = {}
  /\ pass' = Idle
  /\ UNCHANGED <<target, live, managed, binding, seen, versions, edit, changes>>

(* The worker restarts, and its pass is lost. *)
Restart ==
  /\ Change
  /\ pass # Idle
  /\ pass' = Idle
  /\ UNCHANGED <<target, live, managed, binding, seen, versions, edit>>

(* The open versions of a binding's requests. *)
Matching(b) == {i \in Indices : versions[i].binding = b /\ versions[i].status \in Open}

NewVersion(request, number, b, content) ==
  [request |-> request, number |-> number, binding |-> b, content |-> content,
   status |-> "Candidate", execution |-> "none", lock |-> 1]

(* Version i with another status; only an execution counts its lock up. *)
Changed(i, status, execution, lock) ==
  [versions EXCEPT ![i] =
     [request |-> versions[i].request, number |-> versions[i].number, binding |-> versions[i].binding,
      content |-> versions[i].content, status |-> status, execution |-> execution, lock |-> lock]]

(* Mutant of Carried: a version carries what it observes and no more. *)
CarriedAlone(i, content) == content

(* The content of a version that takes the place of version i. *)
Carried(i, content) ==
  [a \in DOMAIN content \cup DOMAIN versions[i].content |->
     IF a \in DOMAIN content THEN content[a] ELSE versions[i].content[a]]

(* The version i is superseded by a new one. *)
Superseded(i, new) ==
  Append(Changed(i, "Superseded", versions[i].execution, versions[i].lock), new)

(* A number no request has. *)
NextRequest == Len(versions) + 1

(* Mutant of Known: the fingerprint leaves the binding out. *)
KnownWhateverBinding(observation) ==
  \E b \in Bindings : [observation EXCEPT !.binding = b] \in Range(seen)

Known(observation) == observation \in Range(seen)

(* The transaction.  The newest open version of the binding is superseded. *)
Persist ==
  LET observation == pass.observation
      a == observation.application
      b == observation.binding
      content == [x \in {a} |-> Len(seen) + 1]
  IN  /\ pass.stage = "persist"
      /\ IF Known(observation) \/ a \notin Planned[b]
         THEN UNCHANGED <<seen, versions>>
         ELSE /\ Len(versions) < LastVersion
              /\ seen' = Append(seen, observation)
              /\ IF Matching(b) = {}
                 THEN versions' = Append(versions, NewVersion(NextRequest, 1, b, content))
                 ELSE \E i \in Matching(b) :
                        /\ \A j \in Matching(b) : j <= i
                        /\ versions' = Superseded(i, NewVersion(versions[i].request, versions[i].number + 1,
                                                               b, Carried(i, content)))
      /\ pass' = Left(a)
      /\ UNCHANGED <<target, live, managed, binding, edit, changes>>

-----------------------------------------------------------------------------
(* Metadata edits *)

Newest(i) == \A j \in Indices : SameRequest(i, j) => versions[j].number <= versions[i].number

(* An operator opens the page of a request. *)
OpenPage(e, i) ==
  /\ edit[e] = NoPage
  /\ Newest(i) /\ versions[i].status \in Open
  /\ edit' = [edit EXCEPT ![e] = [version |-> i, lock |-> versions[i].lock]]
  /\ UNCHANGED <<target, live, managed, binding, seen, versions, pass, changes>>

(* Mutant of StillShown: the page's version may be superseded meanwhile. *)
StillShownAnyStatus(page) == versions[page.version].lock = page.lock

(* The version of the page is the request's newest, untouched and open. *)
StillShown(page) ==
  /\ Newest(page.version)
  /\ versions[page.version].lock = page.lock
  /\ versions[page.version].status \in Open

Save(e) ==
  LET page == edit[e]
      i == page.version
  IN  /\ page # NoPage
      /\ StillShown(page)
      /\ Len(versions) < LastVersion
      /\ versions' = Superseded(i, NewVersion(versions[i].request, versions[i].number + 1,
                                              versions[i].binding, versions[i].content))
      /\ edit' = [edit EXCEPT ![e] = NoPage]
      /\ UNCHANGED <<target, live, managed, binding, seen, pass, changes>>

(* A stale page is refused, and closed. *)
Refuse(e) ==
  /\ edit[e] # NoPage
  /\ ~StillShown(edit[e])
  /\ edit' = [edit EXCEPT ![e] = NoPage]
  /\ UNCHANGED <<target, live, managed, binding, seen, versions, pass, changes>>

-----------------------------------------------------------------------------
(* Deployments *)

Becomes(i, status, execution) == versions' = Changed(i, status, execution, versions[i].lock + 1)

(* The workflow of a candidate lets it deploy. *)
Deploy(i) ==
  /\ versions[i].status = "Candidate"
  /\ Becomes(i, "Deploying", "Preflight")
  /\ UNCHANGED <<target, live, managed, binding, seen, pass, edit, changes>>

Retry(i) ==
  /\ Change
  /\ versions[i].status \in {"Failed", "PartialFailed"}
  /\ Becomes(i, "Deploying", "Preflight")
  /\ UNCHANGED <<target, live, managed, binding, seen, pass, edit>>

(* What was reviewed of an Application is still what a sync would do. *)
AsReviewed(i, a) ==
  LET evidence == seen[versions[i].content[a]]
  IN  /\ evidence.manifests = target[a]
      /\ evidence.diff = [to |-> target[a], from |-> live[a]]

(* Some content is not, or an Application syncs by itself: the execution   *)
(* is blocked, and the version is superseded.                              *)
Block(i) ==
  /\ versions[i].execution = "Preflight"
  /\ \E a \in DOMAIN versions[i].content : a \notin managed \/ ~AsReviewed(i, a)
  /\ Becomes(i, "Superseded", "Blocked")
  /\ UNCHANGED <<target, live, managed, binding, seen, pass, edit, changes>>

(* Of a retry, too, every Application must differ as it did when it was    *)
(* reviewed, the ones it does not sync again included.                     *)
PassPreflight(i) ==
  /\ versions[i].execution = "Preflight"
  /\ \A a \in DOMAIN versions[i].content : AsReviewed(i, a)
  /\ versions' = Changed(i, versions[i].status, "Running", versions[i].lock)
  /\ UNCHANGED <<target, live, managed, binding, seen, pass, edit, changes>>

(* A sync applies the revision that was reviewed. *)
Sync(i, a) ==
  /\ versions[i].execution = "Running"
  /\ live[a] # seen[versions[i].content[a]].manifests
  /\ live' = [live EXCEPT ![a] = seen[versions[i].content[a]].manifests]
  /\ UNCHANGED <<target, managed, binding, seen, versions, pass, edit, changes>>

Synced(i) == {a \in DOMAIN versions[i].content : live[a] = seen[versions[i].content[a]].manifests}

Complete(i) ==
  /\ versions[i].execution = "Running"
  /\ LET all == DOMAIN versions[i].content
         status == IF Synced(i) = all THEN "Succeeded"
                   ELSE IF Synced(i) = {} THEN "Failed" ELSE "PartialFailed"
     IN  Becomes(i, status, status)
  /\ UNCHANGED <<target, live, managed, binding, seen, pass, edit, changes>>

(* The latest execution is terminated, whatever has become of the version. *)
Terminate(i) ==
  /\ versions[i].execution \in {"Running", "PartialFailed"}
  /\ Becomes(i, "Terminated", "Terminated")
  /\ UNCHANGED <<target, live, managed, binding, seen, pass, edit, changes>>

-----------------------------------------------------------------------------

Outside ==
  \/ \E a \in Applications, content \in Contents : Push(a, content)
  \/ \E a \in Applications : SyncByHand(a)
  \/ \E a \in Applications : Gate(a)
  \/ \E b \in Bindings : Rebind(b)

Worker ==
  \/ Begin
  \/ \E a \in Applications : ReadTarget(a) \/ ReadDiff(a)
  \/ Persist
  \/ Finish

Editor(e) ==
  \/ \E i \in Indices : OpenPage(e, i)
  \/ Save(e)
  \/ Refuse(e)

Deployment ==
  \/ \E i \in Indices : Deploy(i)
  \/ \E i \in Indices : Retry(i)
  \/ \E i \in Indices : Block(i)
  \/ \E i \in Indices : PassPreflight(i)
  \/ \E i \in Indices : \E a \in DOMAIN versions[i].content : Sync(i, a)
  \/ \E i \in Indices : Complete(i)
  \/ \E i \in Indices : Terminate(i)

Next ==
  \/ Outside \/ Worker \/ Restart \/ Deployment
  \/ \E a \in Applications : Skip(a)
  \/ \E e \in Editors : Editor(e)

Spec == Init /\ [][Next]_vars

(* The worker runs a pass at every interval. *)
FairSpec == Spec /\ WF_vars(Worker)

-----------------------------------------------------------------------------

TypeOK ==
  /\ target \in [Applications -> Contents]
  /\ live \in [Applications -> Contents]
  /\ managed \subseteq Applications
  /\ binding \in Bindings
  /\ seen \in Seq(Observations)
  /\ \A i \in Indices :
       /\ versions[i].status \in Status
       /\ versions[i].binding \in Bindings
       /\ DOMAIN versions[i].content \subseteq Applications
       /\ \A a \in DOMAIN versions[i].content : versions[i].content[a] \in DOMAIN seen
  /\ changes \in 0..MaxChanges

(* Whatever passes, edits and deployments come between two versions of a   *)
(* request, the later carries every Application of the earlier, each with  *)
(* what was observed of it then or after, and under the same binding: what *)
(* was accumulated is not lost, and no edit brings back older content.     *)
AccumulationIsMonotone ==
  \A i, j \in Indices :
    SameRequest(i, j) /\ versions[i].number < versions[j].number =>
      /\ versions[i].binding = versions[j].binding
      /\ DOMAIN versions[i].content \subseteq DOMAIN versions[j].content
      /\ \A a \in DOMAIN versions[i].content : versions[i].content[a] <= versions[j].content[a]

(* A request has one version that can still be deployed: its newest.  Two  *)
(* versions of a request never have the same number.                       *)
OnlyNewestIsAlive ==
  \A i, j \in Indices :
    SameRequest(i, j) /\ i < j =>
      /\ versions[i].number < versions[j].number
      /\ versions[i].status \in {"Superseded", "Terminated"}

(* The difference an Application shows and keeps has not been recorded. *)
Fresh(a) ==
  LET observation == [application |-> a, binding |-> binding, manifests |-> target[a],
                      diff |-> [to |-> target[a], from |-> live[a]]]
  IN  /\ a \in managed \cap Planned[binding]
      /\ live[a] # target[a]
      /\ observation \notin Range(seen)
      /\ Len(versions) < LastVersion

(* A difference that was not recorded before does not stay unrecorded: also *)
(* when passes fail, read a torn content, were begun under another binding  *)
(* or are lost in a restart, a later one records it, unless it goes.        *)
FreshIsObserved == \A a \in Applications : Fresh(a) ~> ~Fresh(a)

(* docs: "Candidate --> Superseded: A newer candidate replaces an          *)
(* unexecuted Version": a superseded version has a successor.              *)
SupersededHasSuccessor ==
  \A i \in Indices : versions[i].status = "Superseded" =>
    \E j \in Indices : SameRequest(i, j) /\ versions[j].number > versions[i].number

(* An Application that is managed and differs from its target does not     *)
(* wait for ever outside of every version that is open or deploying.       *)
Waiting(a) ==
  /\ a \in managed \cap Planned[binding]
  /\ live[a] # target[a]
  /\ ~\E i \in Indices :
        /\ versions[i].status \in Open \cup {"Deploying"}
        /\ a \in DOMAIN versions[i].content
        /\ seen[versions[i].content[a]].manifests = target[a]
  /\ Len(versions) < LastVersion

EveryDifferenceIsOffered == \A a \in Applications : Waiting(a) ~> ~Waiting(a)

==============================================================================
