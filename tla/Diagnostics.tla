---------------------------- MODULE Diagnostics ----------------------------
(***************************************************************************)
(* What a reader is given of a running Application: its topology, and the   *)
(* manifest, the events or the logs of one of its resources.  Each answer  *)
(* takes several reads, of the catalog and of Argo CD, between which       *)
(* rights change and resources leave the Application; what was read is     *)
(* handed out after the audit trail has it.  The decision is made on the   *)
(* rules that the process has loaded, whatever their revision.             *)
(*                                                                         *)
(* A reference or a selector of a resource is the set of the resources     *)
(* that it matches, the labels and the names left out.                     *)
(***************************************************************************)
EXTENDS Integers, FiniteSets

CONSTANTS
  Resources,   \* numbers, in the order of their keys
  Pods,
  Secrets,
  Trees,       \* what Argo CD may report: the Application's resources and orphans of its namespace
  NoLabels,    \* the selector of a resource that selects nothing
  MaxNodes,
  MaxEdges

ASSUME DiagnosticsAssumption ==
  /\ Resources \subseteq Nat /\ IsFiniteSet(Resources)
  /\ Pods \cap Secrets = {} /\ Pods \cup Secrets \subseteq Resources
  /\ \A tree \in Trees : tree.nodes \subseteq Resources
  /\ MaxNodes \in Nat \ {0} /\ MaxEdges \in Nat \ {0}

VARIABLES
  belonging,   \* the resources of the Application, orphans not included
  may,         \* whether the reader may view the Application, by the tables
  loaded,      \* ... and by the rules that the process has loaded
  inquiry,     \* what was asked for and how far it is
  onRecord,    \* what the audit trail says was read
  given         \* the answer

diagnosticVars == <<belonging, may, loaded, inquiry, onRecord, given>>

(* History: belonged, the resources there were at some time since it began; *)
(* entitled, whether the reader could view the Application at some time     *)
(* since, or when the rules were loaded that the process had at first.      *)
NoInquiry == [step |-> "none", kind |-> "topology", resource |-> 0, belonged |-> {}, entitled |-> FALSE]

Untold == [kind |-> "nothing"]

DiagnosticsInit ==
  /\ belonging \in SUBSET Resources
  /\ may \in BOOLEAN /\ loaded \in BOOLEAN
  /\ inquiry = NoInquiry
  /\ onRecord = {}
  /\ given = Untold

-----------------------------------------------------------------------------
(* Surroundings: what they do between two inquiries makes another beginning. *)

ResourcesChange ==
  /\ inquiry.step # "none"
  /\ belonging' \in SUBSET Resources
  /\ inquiry' = [inquiry EXCEPT !.belonged = @ \cup belonging']
  /\ UNCHANGED <<may, loaded, onRecord, given>>

RightsChange ==
  /\ inquiry.step # "none"
  /\ may' = ~may
  /\ inquiry' = [inquiry EXCEPT !.entitled = @ \/ may']
  /\ UNCHANGED <<belonging, loaded, onRecord, given>>

(* The listener or a command reloads the policy of the process. *)
RulesAreLoaded ==
  /\ inquiry.step # "none"
  /\ loaded' = may
  /\ UNCHANGED <<belonging, may, inquiry, onRecord, given>>

-----------------------------------------------------------------------------
(* The topology.  A tree has nodes, and of each of them the parents, the   *)
(* references to targets and the selector.                                 *)

KeyOrder(a, b) == a < b

EdgeOrder(a, b) == a[1] < b[1] \/ (a[1] = b[1] /\ a[2] < b[2])

(* What is left, in its order, when it is cut to the limit. *)
FirstNodes(nodes) == {a \in nodes : Cardinality({b \in nodes : KeyOrder(b, a)}) < MaxNodes}

FirstEdges(edges) == {a \in edges : Cardinality({b \in edges : EdgeOrder(b, a)}) < MaxEdges}

(* Edges to parents that are shown. *)
ResourceEdges(tree, shown) == {e \in shown \X shown : e[1] \in tree.parents[e[2]]}

Named(tree, n) == {ref \in tree.refs[n] : ref.named}

Nameless(tree, n) == tree.refs[n] \ Named(tree, n)

(* A reference by name leads to the one resource that it matches. *)
ReferenceEdges(tree, shown) ==
  {e \in shown \X shown : \E ref \in Named(tree, e[1]) : ref.matches \cap shown = {e[2]}}

(* References without a name restrict what the labels select. *)
Selected(tree, shown, n) ==
  {m \in (shown \cap tree.selects[n]) \ {n} :
     Nameless(tree, n) # {} => \E ref \in Nameless(tree, n) : m \in ref.matches}

Selecting(tree, shown) == {n \in shown : tree.selects[n] # NoLabels}

SelectorEdges(tree, shown) ==
  UNION {{<<n, m>> : m \in Selected(tree, shown, n)} : n \in Selecting(tree, shown)}

LeavesOpen(tree, shown) ==
  \/ \E n \in shown : \E ref \in Named(tree, n) : Cardinality(ref.matches \cap shown) # 1
  \/ \E n \in shown \ Selecting(tree, shown) : Nameless(tree, n) # {}
  \/ \E n \in Selecting(tree, shown) : Selected(tree, shown, n) = {}

(* Mutant of IsPartial: edges that were cut off are not told of. *)
IsPartialUnlessEdges(tree, view, shown, edges) ==
  \/ Cardinality(tree.nodes) > MaxNodes
  \/ view = "network" /\ LeavesOpen(tree, shown)

IsPartial(tree, view, shown, edges) ==
  \/ Cardinality(tree.nodes) > MaxNodes
  \/ Cardinality(edges) > MaxEdges
  \/ view = "network" /\ LeavesOpen(tree, shown)

Topology(tree, view) ==
  LET shown == FirstNodes(tree.nodes)
      edges == IF view = "network" THEN ReferenceEdges(tree, shown) \cup SelectorEdges(tree, shown)
               ELSE ResourceEdges(tree, shown)
  IN [kind |-> "topology", tree |-> tree, view |-> view, shown |-> shown,
      edges |-> FirstEdges(edges),
      partial |-> IsPartial(tree, view, shown, edges), entitled |-> inquiry.entitled]

-----------------------------------------------------------------------------
(* An inquiry *)

StepTo(step) == inquiry' = [inquiry EXCEPT !.step = step]

(* Not found, invalid, or unavailable: nothing is handed out. *)
EndInquiry == inquiry' = NoInquiry

Inquire(kind, r) ==
  /\ inquiry.step = "none" /\ given = Untold
  /\ inquiry' = [step |-> "finding", kind |-> kind, resource |-> r, belonged |-> belonging,
                  entitled |-> may \/ loaded]
  /\ UNCHANGED <<belonging, may, loaded, onRecord, given>>

(* Mutant of FindApplication: whoever asks is let in. *)
FindForAnyone ==
  /\ inquiry.step = "finding"
  /\ StepTo("treeing")
  /\ UNCHANGED <<belonging, may, loaded, onRecord, given>>

FindApplication ==
  /\ inquiry.step = "finding"
  /\ IF loaded THEN StepTo("treeing") ELSE EndInquiry
  /\ UNCHANGED <<belonging, may, loaded, onRecord, given>>

(* Orphans are told of too. *)
TellTopology ==
  /\ inquiry.kind = "topology" /\ inquiry.step = "treeing"
  /\ \E tree \in {t \in Trees : belonging \subseteq t.nodes}, view \in {"resources", "network"} :
       given' = Topology(tree, view)
  /\ EndInquiry
  /\ UNCHANGED <<belonging, may, loaded, onRecord>>

(* The resource has to be in the tree and no orphan; logs are those of a pod. *)
FindResource ==
  /\ inquiry.kind # "topology" /\ inquiry.step = "treeing"
  /\ IF /\ inquiry.resource \in belonging
        /\ inquiry.kind = "logs" => inquiry.resource \in Pods
     THEN StepTo("reading") ELSE EndInquiry
  /\ UNCHANGED <<belonging, may, loaded, onRecord, given>>

(* Argo CD answers whatever has become of the resource meanwhile. *)
ReadContent ==
  /\ inquiry.step = "reading"
  /\ StepTo("recording")
  /\ UNCHANGED <<belonging, may, loaded, onRecord, given>>

(* The manifest of a secret loses its data. *)
Content(kind, r) == IF kind = "manifest" /\ r \in Secrets THEN "redacted" ELSE "whole"

(* The record is committed before the answer is given. *)
RecordRead ==
  /\ inquiry.step = "recording"
  /\ onRecord' = onRecord \cup {<<inquiry.kind, inquiry.resource>>}
  /\ given' = [kind |-> inquiry.kind, resource |-> inquiry.resource,
              content |-> Content(inquiry.kind, inquiry.resource),
              belonged |-> inquiry.resource \in inquiry.belonged, entitled |-> inquiry.entitled]
  /\ EndInquiry
  /\ UNCHANGED <<belonging, may, loaded>>

(* Argo CD, the catalog or the audit trail does not answer. *)
InquiryFails ==
  /\ inquiry.step \in {"finding", "treeing", "reading", "recording"}
  /\ EndInquiry
  /\ UNCHANGED <<belonging, may, loaded, onRecord, given>>

DiagnosticsNext ==
  \/ ResourcesChange \/ RightsChange \/ RulesAreLoaded
  \/ Inquire("topology", 0)
  \/ \E kind \in {"manifest", "events", "logs"}, r \in Resources : Inquire(kind, r)
  \/ FindApplication \/ TellTopology \/ FindResource \/ ReadContent \/ RecordRead \/ InquiryFails

-----------------------------------------------------------------------------
(* Properties *)

(* An edge rests on what a resource says of itself. *)
Evidence(tree, view, edge) ==
  IF view = "resources" THEN edge[1] \in tree.parents[edge[2]]
  ELSE \/ \E ref \in tree.refs[edge[1]] : edge[2] \in ref.matches
       \/ edge[2] \in tree.selects[edge[1]]

(* Every resource, and an edge for all that the resources say. *)
Complete(t) ==
  /\ t.shown = t.tree.nodes
  /\ t.view = "resources" =>
       \A n \in t.shown : \A p \in t.tree.parents[n] \cap t.shown : <<p, n>> \in t.edges
  /\ t.view = "network" =>
       \A n \in t.shown :
         /\ \A ref \in t.tree.refs[n] :
              IF ref.named THEN \E m \in ref.matches : <<n, m>> \in t.edges ELSE t.tree.selects[n] # NoLabels
         /\ t.tree.selects[n] # NoLabels => \E m \in t.tree.selects[n] : <<n, m>> \in t.edges

(* A topology that is not said to be partial is complete, and its edges    *)
(* always join what is shown, on evidence.  What is handed out of one      *)
(* resource is on record, the resource belonged to the Application at some *)
(* time since it was asked for, and no manifest of a secret is whole.      *)
(* Whoever is answered could view the Application at some time since, or   *)
(* when the rules were loaded that the process then had: a right that was  *)
(* taken away lasts until the process hears of it.                         *)
AnswersAreHonest ==
  /\ given.kind = "topology" =>
       /\ \A e \in given.edges : e \in given.shown \X given.shown /\ Evidence(given.tree, given.view, e)
       /\ ~given.partial => Complete(given)
  /\ given.kind \in {"manifest", "events", "logs"} =>
       /\ <<given.kind, given.resource>> \in onRecord
       /\ given.belonged
       /\ given.kind = "manifest" /\ given.resource \in Secrets => given.content # "whole"
  /\ given.kind # "nothing" => given.entitled

=============================================================================
