---------------------------- MODULE ConsoleProofs ----------------------------
(***************************************************************************)
(* Proofs about the parts of the console, for every value of their         *)
(* constants.  The parts share no variable: a step of the console is, for  *)
(* each of them, a step of its own or none, so that an invariant of a part *)
(* is one of the console.                                                  *)
(***************************************************************************)
EXTENDS Console, FiniteSetTheorems, SequenceTheorems, WellFoundedInduction, TLAPS

(* The console starts each part, and takes each part's steps only. *)
LEMMA ConsoleParts ==
  /\ ConsoleInit => /\ Init /\ DefinitionsInit /\ CatalogInit /\ SchedulesInit /\ ExecutionCommandsInit
                    /\ NotificationsInit /\ ListingsInit /\ AuditTrailInit /\ DiagnosticsInit
  /\ [ConsoleNext]_consoleVars =>
       /\ [Next]_vars /\ [DefinitionsNext]_definitionVars /\ [CatalogNext]_catalogVars
       /\ [SchedulesNext]_scheduleVars /\ [ExecutionCommandsNext]_commandVars
       /\ [NotificationsNext]_notificationVars /\ [ListingsNext]_listingVars
       /\ [AuditTrailNext]_auditVars /\ [DiagnosticsNext]_diagnosticVars
<1>1. ConsoleInit => /\ Init /\ DefinitionsInit /\ CatalogInit /\ SchedulesInit /\ ExecutionCommandsInit
                     /\ NotificationsInit /\ ListingsInit /\ AuditTrailInit /\ DiagnosticsInit
  BY DEF ConsoleInit
<1>2. ConsoleNext => /\ [Next]_vars /\ [DefinitionsNext]_definitionVars /\ [CatalogNext]_catalogVars
                     /\ [SchedulesNext]_scheduleVars /\ [ExecutionCommandsNext]_commandVars
  BY DEF ConsoleNext, CheckPlan, EditDefinitions, EditCatalog, EditPolicies, SearchStart, CommandDeployment,
         Notify, PageThroughLists, ReadAuditTrail, Diagnose, configuring, SchedulesNext
<1>3. ConsoleNext => /\ [NotificationsNext]_notificationVars /\ [ListingsNext]_listingVars
                     /\ [AuditTrailNext]_auditVars /\ [DiagnosticsNext]_diagnosticVars
  BY DEF ConsoleNext, CheckPlan, EditDefinitions, EditCatalog, EditPolicies, SearchStart, CommandDeployment,
         Notify, PageThroughLists, ReadAuditTrail, Diagnose, informing
<1>4. UNCHANGED consoleVars => UNCHANGED <<vars, definitionVars, catalogVars, scheduleVars, commandVars,
                                          notificationVars, listingVars, auditVars, diagnosticVars>>
  BY DEF consoleVars, configuring, informing
<1> QED  BY <1>1, <1>2, <1>3, <1>4

-----------------------------------------------------------------------------
(***************************************************************************)
(* The cycle check rejects exactly the plans with a cycle, whatever the    *)
(* nodes, the edges and the order of the queue.  The counters are shown to *)
(* count the edges from nodes not yet visited; then the queue holds just   *)
(* the nodes without such an edge, and no cycle ever has a visited node.   *)
(***************************************************************************)

(* Edges into n that come from nodes not yet visited. *)
Pending(n) == {e \in edges : e.to = n /\ e.from \notin visited}

Waits(S) == S # {} /\ \A n \in S : \E e \in edges : e.to = n /\ e.from \in S

CycleIInv ==
  /\ edges \in Graphs
  /\ visited \subseteq Nodes
  /\ indegree = [n \in Nodes |-> Cardinality(Pending(n))]
  /\ queue = {n \in Nodes \ visited : Pending(n) = {}}
  /\ \A n \in visited : Pending(n) = {}
  /\ \A S \in SUBSET Nodes : Waits(S) => S \cap visited = {}

(* The edges of a plan are as the document's validation leaves them. *)
LEMMA CycleEdgeFacts ==
  ASSUME edges \in Graphs
  PROVE  /\ IsFiniteSet(edges)
         /\ \A e \in edges : e.from \in Nodes /\ e.to \in Nodes /\ e.from # e.to
         /\ \A e, f \in edges : e.from = f.from /\ e.to = f.to => e = f
  BY GraphsAssumption DEF ValidEdges, Edge

(* A count is zero when nothing is pending. *)
LEMMA PendingFinite ==
  ASSUME edges \in Graphs, NEW n \in Nodes
  PROVE  /\ IsFiniteSet(Pending(n))
         /\ Cardinality(Pending(n)) \in Nat
         /\ Cardinality(Pending(n)) = 0 <=> Pending(n) = {}
  <1>1. Pending(n) \subseteq edges
    BY DEF Pending
  <1>2. IsFiniteSet(Pending(n))
    BY <1>1, CycleEdgeFacts, FS_Subset
  <1> QED
    BY <1>2, FS_CardinalityType, FS_EmptySet

(* The initial counters count every edge, and nothing is visited. *)
LEMMA CycleInitIInv == Init => CycleIInv
  <1> SUFFICES ASSUME Init PROVE CycleIInv
    OBVIOUS
  <1>1. edges \in Graphs /\ visited = {}
    BY DEF Init
  <1>2. \A n \in Nodes : Pending(n) = Into(n)
    BY <1>1 DEF Pending, Into
  <1>3. indegree = [n \in Nodes |-> Cardinality(Pending(n))]
    BY <1>2 DEF Init
  <1>4. queue = {n \in Nodes \ visited : Pending(n) = {}}
    BY <1>1, <1>3, PendingFinite DEF Init
  <1> QED
    BY <1>1, <1>3, <1>4 DEF CycleIInv

(* What a visit leaves pending. *)
LEMMA VisitPending ==
  ASSUME CycleIInv, NEW n \in Nodes, Visit(n), NEW m \in Nodes
  PROVE  Pending(m)' = {e \in Pending(m) : e.from # n}
  BY DEF Visit, Pending

(* The one edge from n to a successor m is pending until n is visited. *)
LEMMA VisitSuccessor ==
  ASSUME CycleIInv, NEW n \in Nodes, Visit(n), NEW m \in Successors(n)
  PROVE  /\ m \in Nodes
         /\ Pending(m) # {}
         /\ Cardinality(Pending(m)') = Cardinality(Pending(m)) - 1
  <1>1. PICK e \in edges : e.from = n /\ e.to = m
    BY DEF Successors
  <1>2. edges \in Graphs /\ m \in Nodes /\ n \notin visited
    BY DEF CycleIInv, Visit, Successors
  <1>3. e \in Pending(m)
    BY <1>1, <1>2 DEF Pending
  <1>4. \A f \in Pending(m) : f.from = n => f = e
    BY <1>1, <1>2, CycleEdgeFacts DEF Pending
  <1>5. Pending(m)' = Pending(m) \ {e}
    BY <1>1, <1>2, <1>4, VisitPending
  <1>6. IsFiniteSet(Pending(m))
    BY <1>2, PendingFinite
  <1>7. Cardinality(Pending(m) \ {e}) = Cardinality(Pending(m)) - 1
    BY <1>3, <1>6, FS_RemoveElement
  <1> QED
    BY <1>2, <1>3, <1>5, <1>7

(* Nothing changes for the nodes n does not lead to. *)
LEMMA VisitOther ==
  ASSUME CycleIInv, NEW n \in Nodes, Visit(n), NEW m \in Nodes, m \notin Successors(n)
  PROVE  Pending(m)' = Pending(m)
  <1>1. \A e \in Pending(m) : e.from # n
    BY DEF Pending, Successors
  <1> QED
    BY <1>1, VisitPending

(* A visit keeps the counters, the queue and the order of the visits. *)
LEMMA VisitCycleIInv == ASSUME CycleIInv, NEW n \in Nodes, Visit(n) PROVE CycleIInv'
  <1>1. edges' = edges /\ edges \in Graphs /\ edges' \in Graphs
    BY DEF CycleIInv, Visit
  <1>2. n \notin visited /\ Pending(n) = {} /\ visited' = visited \cup {n} /\ visited \subseteq Nodes
    BY DEF CycleIInv, Visit
  <1>3. \A m \in Nodes : indegree[m] = Cardinality(Pending(m))
    BY DEF CycleIInv
  <1>4. \A m \in Nodes : /\ IsFiniteSet(Pending(m)') /\ Cardinality(Pending(m)') \in Nat
                         /\ Cardinality(Pending(m)') = 0 <=> Pending(m)' = {}
    <2> TAKE m \in Nodes
    <2>1. Pending(m)' \subseteq edges /\ IsFiniteSet(edges)
      BY <1>1, CycleEdgeFacts DEF Pending
    <2>2. IsFiniteSet(Pending(m)')
      BY <2>1, FS_Subset
    <2> QED
      BY <2>2, FS_CardinalityType, FS_EmptySet
  <1>5. indegree' = [m \in Nodes |-> Cardinality(Pending(m)')]
    <2>1. indegree' = [m \in Nodes |->
                        IF m \in Successors(n) THEN indegree[m] - 1 ELSE indegree[m]]
      BY DEF Visit
    <2>2. \A m \in Nodes : (IF m \in Successors(n) THEN indegree[m] - 1 ELSE indegree[m])
                             = Cardinality(Pending(m)')
      BY <1>3, VisitSuccessor, VisitOther
    <2> QED
      BY <2>1, <2>2
  <1>6. \A m \in visited' : Pending(m)' = {}
    <2> TAKE m \in visited'
    <2>1. Pending(m) = {} /\ m \in Nodes
      BY <1>2 DEF CycleIInv
    <2> QED
      BY <2>1, VisitPending
  <1>7. queue' = {m \in Nodes \ visited' : Pending(m)' = {}}
    <2>1. queue' = (queue \ {n}) \cup Released(n)
      BY DEF Visit
    <2>2. ASSUME NEW m \in Nodes PROVE m \in Released(n) <=>
            m \in Successors(n) /\ Pending(m)' = {}
      <3>1. CASE m \in Successors(n)
        <4>1. Cardinality(Pending(m)') = Cardinality(Pending(m)) - 1
          BY <3>1, VisitSuccessor
        <4>2. Cardinality(Pending(m)) \in Nat
          BY <1>1, PendingFinite
        <4>3. Cardinality(Pending(m)) = 1 <=> Pending(m)' = {}
          BY <4>1, <4>2, <1>4
        <4> QED
          BY <3>1, <4>3, <1>3 DEF Released
      <3>2. CASE m \notin Successors(n)
        BY <3>2 DEF Released
      <3> QED
        BY <3>1, <3>2
    <2>3. ASSUME NEW m \in Nodes PROVE m \in queue' <=> m \notin visited' /\ Pending(m)' = {}
      <3>1. CASE m \in Successors(n)
        <4>1. Pending(m) # {}
          BY <3>1, VisitSuccessor
        <4>2. m \notin queue /\ m \notin visited /\ m # n
          BY <4>1, <1>2 DEF CycleIInv
        <4> QED
          BY <2>1, <2>2, <3>1, <4>2, <1>2
      <3>2. CASE m \notin Successors(n)
        <4>1. Pending(m)' = Pending(m)
          BY <3>2, VisitOther
        <4>2. m \in queue <=> m \notin visited /\ Pending(m) = {}
          BY DEF CycleIInv
        <4> QED
          BY <2>1, <2>2, <3>2, <4>1, <4>2, <1>2
      <3> QED
        BY <3>1, <3>2
    <2>4. queue' \subseteq Nodes
      BY <2>1 DEF CycleIInv, Released, Successors
    <2> QED
      BY <2>3, <2>4
  <1>8. ASSUME NEW S \in SUBSET Nodes, Waits(S)' PROVE S \cap visited' = {}
    <2>1. Waits(S)
      BY <1>1, <1>8 DEF Waits
    <2>2. S \cap visited = {}
      BY <2>1 DEF CycleIInv
    <2>3. n \notin S
      <3> SUFFICES ASSUME n \in S PROVE FALSE
        OBVIOUS
      <3>1. PICK e \in edges : e.to = n /\ e.from \in S
        BY <2>1 DEF Waits
      <3>2. e \in Pending(n)
        BY <3>1, <2>2 DEF Pending
      <3> QED
        BY <3>2, <1>2
    <2> QED
      BY <2>2, <2>3, <1>2
  <1> QED
    BY <1>1, <1>2, <1>5, <1>6, <1>7, <1>8 DEF CycleIInv

(* The invariant holds throughout. *)
THEOREM CycleInvariance == ConsoleSpec => []CycleIInv
  <1>1. ASSUME CycleIInv, UNCHANGED vars PROVE CycleIInv'
    <2>1. edges' = edges /\ visited' = visited /\ indegree' = indegree /\ queue' = queue
      BY <1>1 DEF vars
    <2>2. \A n \in Nodes : Pending(n)' = Pending(n)
      BY <2>1 DEF Pending
    <2>3. indegree' = [n \in Nodes |-> Cardinality(Pending(n)')]
      BY <1>1, <2>1, <2>2 DEF CycleIInv
    <2>4. \A S \in SUBSET Nodes : Waits(S)' <=> Waits(S)
      BY <2>1 DEF Waits
    <2>5. \A n \in visited : n \in Nodes
      BY <1>1 DEF CycleIInv
    <2>6. queue' = {n \in Nodes \ visited' : Pending(n)' = {}}
      BY <1>1, <2>1, <2>2 DEF CycleIInv
    <2>7. \A n \in visited' : Pending(n)' = {}
      BY <1>1, <2>1, <2>2, <2>5 DEF CycleIInv
    <2>8. \A S \in SUBSET Nodes : Waits(S)' => S \cap visited' = {}
      BY <1>1, <2>1, <2>4 DEF CycleIInv
    <2>9. edges' \in Graphs /\ visited' \subseteq Nodes
      BY <1>1, <2>1 DEF CycleIInv
    <2> QED
      BY <2>3, <2>6, <2>7, <2>8, <2>9 DEF CycleIInv
  <1>2. CycleIInv /\ [Next]_vars => CycleIInv'
    BY <1>1, VisitCycleIInv DEF Next
  <1> QED
    BY <1>2, CycleInitIInv, ConsoleParts, PTL DEF ConsoleSpec

(* Every variable keeps its shape. *)
THEOREM CountersNeverNegative == ConsoleSpec => []TypeOK
  <1>1. CycleIInv => TypeOK
    <2> SUFFICES ASSUME CycleIInv PROVE TypeOK
      OBVIOUS
    <2>1. edges \subseteq Edge
      BY GraphsAssumption DEF CycleIInv, ValidEdges
    <2>2. indegree \in [Nodes -> Nat]
      BY PendingFinite DEF CycleIInv
    <2> QED
      BY <2>1, <2>2 DEF CycleIInv, TypeOK
  <1> QED
    BY <1>1, CycleInvariance, PTL

(* No node is queued again after its visit, so that counting visits counts nodes. *)
THEOREM VisitsAreCounted == ConsoleSpec => []VisitedOnce
  <1>1. CycleIInv => VisitedOnce
    BY DEF CycleIInv, VisitedOnce
  <1> QED
    BY <1>1, CycleInvariance, PTL

(* The check rejects a plan when, and only when, its edges have a cycle. *)
THEOREM Verdict == ConsoleSpec => []VerdictIsRight
  <1>1. ASSUME CycleIInv, Accepted PROVE ~Cyclic(edges)
    <2> SUFFICES ASSUME NEW S \in SUBSET Nodes, Waits(S) PROVE FALSE
      BY DEF Cyclic, Waits
    <2>1. S \cap Nodes = {}
      BY <1>1 DEF CycleIInv, Accepted
    <2> QED
      BY <2>1 DEF Waits
  <1>2. ASSUME CycleIInv, Rejected PROVE Cyclic(edges)
    <2> DEFINE S == Nodes \ visited
    <2>1. S # {}
      BY <1>2 DEF CycleIInv, Rejected
    <2>2. \A n \in S : \E e \in edges : e.to = n /\ e.from \in S
      <3> TAKE n \in S
      <3>1. Pending(n) # {}
        BY <1>2 DEF CycleIInv, Rejected
      <3>2. PICK e \in edges : e.to = n /\ e.from \notin visited
        BY <3>1 DEF Pending
      <3>3. e.from \in Nodes
        BY <1>2, CycleEdgeFacts DEF CycleIInv
      <3> QED
        BY <3>2, <3>3
    <2>3. S \in SUBSET Nodes
      OBVIOUS
    <2> QED
      BY <2>1, <2>2, <2>3 DEF Cyclic
  <1>3. CycleIInv => VerdictIsRight
    BY <1>1, <1>2 DEF VerdictIsRight
  <1> QED
    BY <1>3, CycleInvariance, PTL

-----------------------------------------------------------------------------
(***************************************************************************)
(* Versions go through their lifecycle in order and only the latest may be *)
(* a draft, for any authors and bounds, however old their pages are.       *)
(***************************************************************************)

Lifecycles == {"Draft", "Published", "Disabled"}

Steps == {"free", "page", "append", "change", "delete", "bind"}

DefinitionsTypeOK ==
  /\ versions \in Seq(Lifecycles)
  /\ binding \in [number : Nat, version : Nat]
  /\ desk \in [Authors -> [step : Steps, seen : Seq(Lifecycles), bound : Nat, number : Nat]]

(* A command of a lifecycle is one that the lifecycle on the page permits. *)
ChangesFit ==
  \A a \in Authors :
    desk[a].step = "change" => desk[a].number \in DOMAIN desk[a].seen /\ desk[a].seen[desk[a].number] # "Disabled"

DefinitionsIInv == DefinitionsTypeOK /\ ChangesFit /\ OneDraft

Forward ==
  \A n \in DOMAIN versions \cap DOMAIN versions' :
    /\ versions'[n] \in {versions[n], After(versions[n])}
    /\ versions[n] = "Disabled" => versions'[n] = "Disabled"

-----------------------------------------------------------------------------

(* The first version is a draft. *)
LEMMA DefinitionsInitIInv == DefinitionsInit => DefinitionsIInv
<1> SUFFICES ASSUME DefinitionsInit PROVE DefinitionsIInv
  OBVIOUS
<1>1. versions = <<"Draft">> /\ Free = [step |-> "free", seen |-> <<>>, bound |-> 0, number |-> 0]
  BY DEF DefinitionsInit, Free
<1>2. \A a \in Authors : desk[a] = Free
  BY DEF DefinitionsInit
<1>3. DefinitionsTypeOK
  BY <1>1 DEF DefinitionsInit, DefinitionsTypeOK, Lifecycles, Steps
<1>4. ChangesFit
  BY <1>1, <1>2 DEF ChangesFit
<1>5. OneDraft
  BY <1>1 DEF OneDraft
<1> QED  BY <1>3, <1>4, <1>5 DEF DefinitionsIInv

(* An author's desk is set while the versions stay as they are. *)
LEMMA DeskStep ==
  ASSUME DefinitionsIInv, UNCHANGED versions, binding' \in [number : Nat, version : Nat], NEW a \in Authors,
         NEW x \in [step : Steps, seen : Seq(Lifecycles), bound : Nat, number : Nat],
         desk' = [desk EXCEPT ![a] = x],
         x.step = "change" => x.number \in DOMAIN x.seen /\ x.seen[x.number] # "Disabled"
  PROVE  DefinitionsIInv' /\ Forward
<1> USE DEF DefinitionsIInv
<1>1. DefinitionsTypeOK'
  BY DEF DefinitionsTypeOK
<1>2. \A b \in Authors : desk'[b] = IF b = a THEN x ELSE desk[b]
  BY DEF DefinitionsTypeOK
<1>3. ChangesFit'
  BY <1>2 DEF ChangesFit
<1> QED  BY <1>1, <1>3 DEF OneDraft, Forward

(* An author's command ends, and the versions change as it asked. *)
LEMMA DropStep ==
  ASSUME DefinitionsIInv, NEW a \in Authors, Drop(a), binding' \in [number : Nat, version : Nat],
         versions' \in Seq(Lifecycles), OneDraft', Forward
  PROVE  DefinitionsIInv' /\ Forward
<1> USE DEF DefinitionsIInv
<1>1. Free \in [step : Steps, seen : Seq(Lifecycles), bound : Nat, number : Nat] /\ Free.step = "free"
  BY DEF Free, Steps
<1>2. \A b \in Authors : desk'[b] = IF b = a THEN Free ELSE desk[b]
  BY DEF Drop, DefinitionsTypeOK
<1>3. DefinitionsTypeOK'
  BY <1>1 DEF Drop, DefinitionsTypeOK
<1>4. ChangesFit'
  BY <1>1, <1>2 DEF ChangesFit
<1> QED  BY <1>3, <1>4

-----------------------------------------------------------------------------

(* Pages are opened, commands are accepted, and the definition is looked at. *)
LEMMA ReadingSteps ==
  ASSUME DefinitionsIInv, NEW a \in Authors,
         \/ Open(a) \/ CreateVersion(a) \/ LockUnused(a) \/ Abandon(a) \/ Bind(a)
         \/ \E n \in 1 .. MaxVersions : ChangeLifecycle(a, n) \/ CheckPublished(a, n)
  PROVE  DefinitionsIInv' /\ Forward
<1> DEFINE D == [step : Steps, seen : Seq(Lifecycles), bound : Nat, number : Nat]
<1>1. /\ versions \in Seq(Lifecycles) /\ desk \in [Authors -> D] /\ desk[a] \in D
      /\ binding \in [number : Nat, version : Nat]
  BY DEF DefinitionsIInv, DefinitionsTypeOK
<1>2. ASSUME Drop(a), UNCHANGED versions, binding' \in [number : Nat, version : Nat]
      PROVE  DefinitionsIInv' /\ Forward
  <2>1. OneDraft' /\ Forward
    BY <1>2 DEF DefinitionsIInv, OneDraft, Forward
  <2> QED  BY <1>1, <1>2, <2>1, DropStep
<1>3. ASSUME NEW step \in Steps, NEW n \in Nat, Carry(a, step, n), UNCHANGED <<versions, binding>>,
             step = "change" => n \in DOMAIN desk[a].seen /\ desk[a].seen[n] # "Disabled"
      PROVE  DefinitionsIInv' /\ Forward
  <2> DEFINE x == [step |-> step, seen |-> desk[a].seen, bound |-> desk[a].bound, number |-> n]
  <2>1. desk' = [desk EXCEPT ![a] = x] /\ x \in D
    BY <1>1, <1>3 DEF Carry
  <2>2. x.step = "change" => x.number \in DOMAIN x.seen /\ x.seen[x.number] # "Disabled"
    BY <1>3
  <2> QED  BY <1>1, <1>3, <2>1, <2>2, DeskStep
<1>4. CASE Open(a)
  <2> DEFINE x == [step |-> "page", seen |-> versions, bound |-> binding.version, number |-> 0]
  <2>1. desk' = [desk EXCEPT ![a] = x] /\ x \in D /\ UNCHANGED <<versions, binding>>
    BY <1>1, <1>4 DEF Open, Steps
  <2> QED  BY <1>1, <2>1, DeskStep
<1>5. CASE CreateVersion(a)
  <2>1. Len(versions) + 1 \in Nat /\ "append" \in Steps
    BY <1>1 DEF Steps
  <2> QED  BY <1>1, <1>2, <1>3, <1>5, <2>1 DEF CreateVersion
<1>6. CASE LockUnused(a)
  <2>1. 0 \in Nat /\ "delete" \in Steps
    BY DEF Steps
  <2> QED  BY <1>1, <1>2, <1>3, <1>6, <2>1 DEF LockUnused
<1>7. ASSUME NEW n \in 1 .. MaxVersions, ChangeLifecycle(a, n) PROVE DefinitionsIInv' /\ Forward
  <2>1. n \in Nat /\ "change" \in Steps
    BY DefinitionsAssumption DEF Steps
  <2>2. CASE Carry(a, "change", n)
    <3>1. n \in DOMAIN desk[a].seen /\ UNCHANGED <<versions, binding>>
      BY <1>7 DEF ChangeLifecycle
    <3>2. desk[a].seen[n] # "Disabled" \/ Drop(a)
      BY <1>7 DEF ChangeLifecycle
    <3> QED  BY <1>1, <1>2, <1>3, <2>1, <2>2, <3>1, <3>2
  <2>3. CASE Drop(a)
    BY <1>1, <1>2, <1>7, <2>3 DEF ChangeLifecycle
  <2> QED  BY <1>7, <2>2, <2>3 DEF ChangeLifecycle
<1>8. ASSUME NEW n \in 1 .. MaxVersions, CheckPublished(a, n) PROVE DefinitionsIInv' /\ Forward
  <2>1. n \in Nat /\ "bind" \in Steps
    BY DefinitionsAssumption DEF Steps
  <2> QED  BY <1>1, <1>2, <1>3, <1>8, <2>1 DEF CheckPublished
<1>9. CASE Abandon(a)
  BY <1>1, <1>2, <1>9 DEF Abandon
<1>10. CASE Bind(a)
  <2>1. binding' \in [number : Nat, version : Nat]
    BY <1>1, <1>10 DEF Bind
  <2> QED  BY <1>2, <1>10, <2>1 DEF Bind
<1> QED  BY <1>4, <1>5, <1>6, <1>7, <1>8, <1>9, <1>10

(* A draft is appended to versions none of which is a draft. *)
LEMMA AppendVersionStep ==
  ASSUME DefinitionsIInv, NEW a \in Authors, AppendVersion(a)
  PROVE  DefinitionsIInv' /\ Forward
<1> USE DEF AppendVersion
<1>1. versions \in Seq(Lifecycles) /\ Drop(a) /\ binding' \in [number : Nat, version : Nat]
  BY DEF DefinitionsIInv, DefinitionsTypeOK
<1>2. CASE MayFollow(versions, desk[a].number - 1)
  <2>1. versions' = Append(versions, "Draft") /\ \A n \in DOMAIN versions : versions[n] # "Draft"
    BY <1>2 DEF MayFollow
  <2>2. /\ versions' \in Seq(Lifecycles) /\ Len(versions') = Len(versions) + 1
        /\ \A n \in DOMAIN versions : n \in DOMAIN versions' /\ versions'[n] = versions[n]
        /\ DOMAIN versions' = DOMAIN versions \cup {Len(versions')}
    BY <1>1, <2>1 DEF Lifecycles
  <2>3. OneDraft' /\ Forward
    BY <2>1, <2>2 DEF OneDraft, Forward
  <2> QED  BY <1>1, <2>2, <2>3, DropStep
<1>3. CASE ~MayFollow(versions, desk[a].number - 1)
  <2>1. OneDraft' /\ Forward
    BY <1>3 DEF DefinitionsIInv, OneDraft, Forward
  <2> QED  BY <1>1, <1>3, <2>1, DropStep
<1> QED  BY <1>2, <1>3

(* A version is as its page showed it, and takes the next step. *)
LEMMA UpdateLifecycleStep ==
  ASSUME DefinitionsIInv, NEW a \in Authors, UpdateLifecycle(a)
  PROVE  DefinitionsIInv' /\ Forward
<1> USE DEF UpdateLifecycle
<1>1. /\ versions \in Seq(Lifecycles) /\ Drop(a) /\ binding' \in [number : Nat, version : Nat]
      /\ desk[a].number \in Nat
  BY DEF DefinitionsIInv, DefinitionsTypeOK
<1>2. CASE IsAsSeen(a)
  <2> DEFINE n == desk[a].number
  <2>1. n \in DOMAIN versions /\ versions[n] = desk[a].seen[n] /\ versions[n] # "Disabled"
    BY <1>2 DEF IsAsSeen, DefinitionsIInv, ChangesFit
  <2>2. versions' = [versions EXCEPT ![n] = After(versions[n])]
    <3>1. versions' = [versions EXCEPT ![n] = After(desk[a].seen[n])]
      BY <1>2
    <3> QED  BY <2>1, <3>1
  <2>3. After(versions[n]) \in {"Published", "Disabled"}
    BY DEF After
  <2> HIDE DEF n, UpdateLifecycle
  <2>4. /\ versions' \in Seq(Lifecycles) /\ DOMAIN versions' = DOMAIN versions /\ Len(versions') = Len(versions)
        /\ \A m \in DOMAIN versions : versions'[m] = IF m = n THEN After(versions[n]) ELSE versions[m]
    <3>1. After(versions[n]) \in Lifecycles
      BY <2>3 DEF Lifecycles
    <3>2. versions' \in Seq(Lifecycles) /\ DOMAIN versions' = DOMAIN versions /\ Len(versions') = Len(versions)
      BY <1>1, <2>1, <2>2, <3>1
    <3>3. \A m \in DOMAIN versions : versions'[m] = IF m = n THEN After(versions[n]) ELSE versions[m]
      BY <1>1, <2>1, <2>2
    <3> QED  BY <3>2, <3>3
  <2>5. OneDraft' /\ Forward
    BY <2>1, <2>3, <2>4 DEF DefinitionsIInv, OneDraft, Forward
  <2> QED  BY <1>1, <2>4, <2>5, DropStep
<1>3. CASE ~IsAsSeen(a)
  <2>1. OneDraft' /\ Forward
    BY <1>3 DEF DefinitionsIInv, OneDraft, Forward
  <2> QED  BY <1>1, <1>3, <2>1, DropStep
<1> QED  BY <1>2, <1>3

(* A workflow goes with all its versions. *)
LEMMA DeleteRecordsStep ==
  ASSUME DefinitionsIInv, NEW a \in Authors, DeleteRecords(a)
  PROVE  DefinitionsIInv' /\ Forward
<1> USE DEF DeleteRecords
<1>1. versions \in Seq(Lifecycles) /\ Drop(a) /\ binding' \in [number : Nat, version : Nat]
  BY DEF DefinitionsIInv, DefinitionsTypeOK
<1>2. CASE binding.number = 0
  <2>1. versions' = <<>> /\ versions' \in Seq(Lifecycles)
    BY <1>2
  <2>2. OneDraft' /\ Forward
    BY <2>1 DEF OneDraft, Forward
  <2> QED  BY <1>1, <2>1, <2>2, DropStep
<1>3. CASE binding.number # 0
  <2>1. OneDraft' /\ Forward
    BY <1>3 DEF DefinitionsIInv, OneDraft, Forward
  <2> QED  BY <1>1, <1>3, <2>1, DropStep
<1> QED  BY <1>2, <1>3

-----------------------------------------------------------------------------

(* Every step preserves the invariant and takes versions forward. *)
LEMMA DefinitionsNextStep ==
  DefinitionsIInv /\ [DefinitionsNext]_definitionVars => DefinitionsIInv' /\ [Forward]_definitionVars
<1> SUFFICES ASSUME DefinitionsIInv, [DefinitionsNext]_definitionVars
             PROVE  DefinitionsIInv' /\ [Forward]_definitionVars
  OBVIOUS
<1>1. ASSUME NEW a \in Authors,
             \/ Open(a) \/ CreateVersion(a) \/ LockUnused(a) \/ Abandon(a) \/ Bind(a)
             \/ \E n \in 1 .. MaxVersions : ChangeLifecycle(a, n) \/ CheckPublished(a, n)
      PROVE  DefinitionsIInv' /\ Forward
  BY <1>1, ReadingSteps
<1>2. ASSUME NEW a \in Authors, AppendVersion(a) PROVE DefinitionsIInv' /\ Forward
  BY <1>2, AppendVersionStep
<1>3. ASSUME NEW a \in Authors, UpdateLifecycle(a) PROVE DefinitionsIInv' /\ Forward
  BY <1>3, UpdateLifecycleStep
<1>4. ASSUME NEW a \in Authors, DeleteRecords(a) PROVE DefinitionsIInv' /\ Forward
  BY <1>4, DeleteRecordsStep
<1>5. CASE UNCHANGED definitionVars
  BY <1>5 DEF DefinitionsIInv, DefinitionsTypeOK, ChangesFit, OneDraft, definitionVars
<1> QED  BY <1>1, <1>2, <1>3, <1>4, <1>5 DEF DefinitionsNext

(* Whoever commands a version from whatever page, it is published after it *)
(* was drafted and disabled after it was published, and each once.         *)
THEOREM VersionsGoForward == ConsoleSpec => LifecycleGoesForward
<1>1. [Forward]_definitionVars =>
        [\A n \in DOMAIN versions \cap DOMAIN versions' :
           versions'[n] \in {versions[n], After(versions[n])}
             /\ (versions[n] = "Disabled" => versions'[n] = "Disabled")]_definitionVars
  BY DEF Forward
<1> QED  BY <1>1, DefinitionsInitIInv, DefinitionsNextStep, ConsoleParts, PTL DEF ConsoleSpec, LifecycleGoesForward

(* Two authors who both saw the last version published do not both append  *)
(* a draft: a definition has one draft at most, its latest version.        *)
THEOREM AtMostOneDraft == ConsoleSpec => []OneDraft
<1>1. DefinitionsIInv => OneDraft
  BY DEF DefinitionsIInv
<1> QED  BY <1>1, DefinitionsInitIInv, DefinitionsNextStep, ConsoleParts, PTL DEF ConsoleSpec

-----------------------------------------------------------------------------
(***************************************************************************)
(* No project is left in a deleted organization, for any operators,        *)
(* organizations, projects and bound: a deletion and the creation of a     *)
(* project never hold the row of one organization together.                *)
(***************************************************************************)

CommandState ==
  [step : {"none", "found", "locked", "empty", "parent"}, organization : Organizations,
   version : Nat, holds : {"nothing", "share", "update"}]

CatalogTypeOK ==
  /\ organization \in [Organizations -> [active : BOOLEAN, version : Nat]]
  /\ projects \in [Organizations -> SUBSET Projects]
  /\ command \in [Operators -> CommandState]

Deleting(c) == command[c].step \in {"locked", "empty"}

(* What a command holds, and what it knows while it holds it. *)
LocksFit ==
  \A c \in Operators :
    /\ Deleting(c) => command[c].holds = "update" /\ command[c].organization # DefaultOrganization
    /\ command[c].step = "parent" => command[c].holds = "share" /\ organization[command[c].organization].active
    /\ command[c].step = "empty" => projects[command[c].organization] = {}

(* Beside a deletion nobody holds the row of its organization. *)
DeletionIsAlone ==
  \A c, d \in Operators :
    c # d /\ Deleting(c) /\ command[d].organization = command[c].organization => command[d].holds = "nothing"

CatalogIInv == CatalogTypeOK /\ LocksFit /\ DeletionIsAlone /\ NoOrphans

-----------------------------------------------------------------------------

(* The first state has no command, no project and one active organization. *)
LEMMA CatalogInitIInv == CatalogInit => CatalogIInv
<1> SUFFICES ASSUME CatalogInit PROVE CatalogIInv
  OBVIOUS
<1>1. CatalogTypeOK
  BY CatalogAssumption DEF CatalogInit, CatalogTypeOK, CommandState, NoCommand
<1>2. LocksFit /\ DeletionIsAlone
  BY DEF CatalogInit, LocksFit, DeletionIsAlone, Deleting, NoCommand
<1>3. NoOrphans
  BY DEF CatalogInit, NoOrphans
<1> QED  BY <1>1, <1>2, <1>3 DEF CatalogIInv

(* A command that ends leaves the others what they have. *)
LEMMA EndCommandIInv ==
  ASSUME CatalogIInv, NEW c \in Operators, EndCommand(c), UNCHANGED projects,
         organization' \in [Organizations -> [active : BOOLEAN, version : Nat]],
         \A o \in Organizations : organization[o].active => organization'[o].active,
         organization'[DefaultOrganization].active,
         \A o \in Organizations : ~organization'[o].active => ~organization[o].active
  PROVE  CatalogIInv'
<1> USE DEF EndCommand, CatalogIInv
<1>1. NoCommand \in CommandState
  BY CatalogAssumption DEF NoCommand, CommandState
<1>2. /\ command' = [command EXCEPT ![c] = NoCommand]
      /\ command \in [Operators -> CommandState]
  BY DEF CatalogTypeOK
<1>3. /\ NoCommand.step = "none" /\ NoCommand.holds = "nothing"
  BY DEF NoCommand
<1>4. \A d \in Operators : command'[d] = IF d = c THEN NoCommand ELSE command[d]
  BY <1>2
<1>5. CatalogTypeOK'
  BY <1>1, <1>2 DEF CatalogTypeOK
<1>6. \A d \in Operators : command[d].organization \in Organizations
  BY <1>2 DEF CommandState
<1>7. LocksFit'
  <2> SUFFICES ASSUME NEW d \in Operators, d # c
               PROVE  /\ Deleting(d) => command[d].holds = "update" /\ command[d].organization # DefaultOrganization
                      /\ command[d].step = "parent" =>
                           command[d].holds = "share" /\ organization'[command[d].organization].active
                      /\ command[d].step = "empty" => projects[command[d].organization] = {}
    BY <1>3, <1>4 DEF LocksFit, Deleting
  <2> QED  BY <1>6 DEF LocksFit
<1>8. DeletionIsAlone'
  BY <1>3, <1>4 DEF DeletionIsAlone, Deleting
<1>9. NoOrphans'
  BY CatalogAssumption DEF NoOrphans
<1> QED  BY <1>5, <1>7, <1>8, <1>9

(* A command that goes on, with a lock that no other one excludes. *)
LEMMA GoOnIInv ==
  ASSUME CatalogIInv, NEW c \in Operators, NEW x \in CommandState,
         command' = [command EXCEPT ![c] = x], UNCHANGED <<organization, projects>>,
         x.step \in {"locked", "empty"} =>
           /\ x.holds = "update" /\ x.organization # DefaultOrganization
           /\ \A d \in Operators \ {c} : command[d].organization = x.organization => command[d].holds = "nothing",
         x.step = "parent" => x.holds = "share" /\ organization[x.organization].active,
         x.step = "empty" => projects[x.organization] = {},
         x.holds = "nothing" \/ (\A d \in Operators \ {c} : command[d].organization = x.organization => ~Deleting(d))
  PROVE  CatalogIInv'
<1> USE DEF CatalogIInv
<1>1. \A d \in Operators : command'[d] = IF d = c THEN x ELSE command[d]
  BY DEF CatalogTypeOK
<1>2. CatalogTypeOK'
  BY DEF CatalogTypeOK
<1>3. LocksFit'
  BY <1>1 DEF LocksFit, Deleting
<1>4. DeletionIsAlone'
  BY <1>1 DEF DeletionIsAlone, Deleting
<1>5. NoOrphans'
  BY DEF NoOrphans
<1> QED  BY <1>2, <1>3, <1>4, <1>5

-----------------------------------------------------------------------------

(* An organization is only made active. *)
LEMMA CreateOrganizationIInv ==
  ASSUME CatalogIInv, NEW o \in Organizations, CreateOrganization(o)
  PROVE  CatalogIInv'
<1> USE DEF CatalogIInv, CreateOrganization
<1>1. \A p \in Organizations : organization[p].active => organization'[p].active
  BY DEF CatalogTypeOK
<1>2. CatalogTypeOK'
  BY DEF CatalogTypeOK
<1>3. \A c \in Operators : command[c].organization \in Organizations
  BY DEF CatalogTypeOK, CommandState
<1>4. LocksFit' /\ DeletionIsAlone'
  BY <1>1, <1>3 DEF LocksFit, DeletionIsAlone, Deleting
<1>5. NoOrphans'
  BY <1>1 DEF NoOrphans
<1> QED  BY <1>2, <1>4, <1>5

(* The end of a deletion: nobody holds the row, and there is no project. *)
LEMMA DeactivateOrganizationIInv ==
  ASSUME CatalogIInv, NEW c \in Operators, DeactivateOrganization(c)
  PROVE  CatalogIInv'
<1> USE DEF CatalogIInv, DeactivateOrganization, EndCommand
<1> DEFINE o == command[c].organization
<1>1. /\ o \in Organizations /\ Deleting(c)
      /\ o # DefaultOrganization /\ projects[o] = {}
  BY DEF CatalogTypeOK, CommandState, LocksFit, Deleting
<1>2. /\ organization' = [organization EXCEPT ![o] = [active |-> FALSE, version |-> organization[o].version + 1]]
      /\ organization[o].version \in Nat
  BY <1>1 DEF CatalogTypeOK
<1>3. \A p \in Organizations : p # o => organization'[p] = organization[p]
  BY <1>2 DEF CatalogTypeOK
<1>4. /\ NoCommand \in CommandState
      /\ NoCommand.step = "none" /\ NoCommand.holds = "nothing"
  BY CatalogAssumption DEF NoCommand, CommandState
<1>5. \A d \in Operators : command'[d] = IF d = c THEN NoCommand ELSE command[d]
  BY DEF CatalogTypeOK
<1>6. CatalogTypeOK'
  <2>1. organization' \in [Organizations -> [active : BOOLEAN, version : Nat]]
    BY <1>1, <1>2 DEF CatalogTypeOK
  <2>2. command' \in [Operators -> CommandState]
    BY <1>4 DEF CatalogTypeOK
  <2> QED  BY <2>1, <2>2 DEF CatalogTypeOK
<1>7. \A d \in Operators : command'[d].step = "parent" => command'[d].organization \in Organizations \ {o}
  BY <1>1, <1>4, <1>5 DEF LocksFit, DeletionIsAlone, CatalogTypeOK, CommandState
<1>8. LocksFit'
  <2> SUFFICES ASSUME NEW d \in Operators, d # c
               PROVE  /\ Deleting(d) => command[d].holds = "update" /\ command[d].organization # DefaultOrganization
                      /\ command[d].step = "parent" =>
                           command[d].holds = "share" /\ organization'[command[d].organization].active
                      /\ command[d].step = "empty" => projects[command[d].organization] = {}
    BY <1>4, <1>5 DEF LocksFit, Deleting
  <2> QED  BY <1>3, <1>5, <1>7 DEF LocksFit
<1>9. DeletionIsAlone'
  BY <1>4, <1>5 DEF DeletionIsAlone, Deleting
<1>10. NoOrphans'
  BY <1>1, <1>3 DEF NoOrphans
<1> QED  BY <1>6, <1>8, <1>9, <1>10

(* A project enters an organization that its lock has kept active. *)
LEMMA InsertProjectIInv ==
  ASSUME CatalogIInv, NEW c \in Operators, InsertProject(c)
  PROVE  CatalogIInv'
<1> USE DEF CatalogIInv, InsertProject, EndCommand
<1> DEFINE o == command[c].organization
<1>1. /\ o \in Organizations
      /\ command[c].holds = "share" /\ organization[o].active
  BY DEF CatalogTypeOK, CommandState, LocksFit
<1>2. PICK p \in Projects : projects' = [projects EXCEPT ![o] = @ \cup {p}]
  OBVIOUS
<1>3. \A q \in Organizations : q # o => projects'[q] = projects[q]
  BY <1>2 DEF CatalogTypeOK
<1>4. /\ NoCommand \in CommandState
      /\ NoCommand.step = "none" /\ NoCommand.holds = "nothing"
  BY CatalogAssumption DEF NoCommand, CommandState
<1>5. \A d \in Operators : command'[d] = IF d = c THEN NoCommand ELSE command[d]
  BY DEF CatalogTypeOK
<1>6. CatalogTypeOK'
  BY <1>1, <1>2, <1>4 DEF CatalogTypeOK
<1>7. \A d \in Operators : command'[d].step = "empty" => command'[d].organization \in Organizations \ {o}
  BY <1>1, <1>4, <1>5 DEF Deleting, DeletionIsAlone, CatalogTypeOK, CommandState
<1>8. LocksFit'
  BY <1>3, <1>4, <1>5, <1>7 DEF LocksFit, Deleting
<1>9. DeletionIsAlone'
  BY <1>4, <1>5 DEF DeletionIsAlone, Deleting
<1>10. NoOrphans'
  BY <1>1, <1>3 DEF NoOrphans
<1> QED  BY <1>6, <1>8, <1>9, <1>10

(* The steps of a command that change neither organizations nor projects. *)
LEMMA ReadingStepIInv ==
  ASSUME CatalogIInv, NEW c \in Operators,
         \/ LockOrganization(c) \/ CountProjects(c) \/ AbandonCommand(c)
         \/ \E o \in Organizations : FindOrganization(c, o) \/ LockParent(c, o)
  PROVE  CatalogIInv'
<1> USE DEF CatalogIInv
<1>1. /\ command \in [Operators -> CommandState] /\ command[c] \in CommandState
      /\ organization \in [Organizations -> [active : BOOLEAN, version : Nat]]
      /\ organization[DefaultOrganization].active
  BY CatalogAssumption DEF CatalogTypeOK, NoOrphans
<1>2. ASSUME EndCommand(c), UNCHANGED <<organization, projects>> PROVE CatalogIInv'
  BY <1>1, <1>2, EndCommandIInv
<1>3. CASE LockOrganization(c) /\ IsAsFound(c)
  <2> DEFINE x == [step |-> "locked", organization |-> command[c].organization, version |-> command[c].version, holds |-> "update"]
  <2>1. command' = [command EXCEPT ![c] = x] /\ x \in CommandState /\ UNCHANGED <<organization, projects>>
    BY <1>1, <1>3 DEF LockOrganization, CommandState
  <2>2. \A d \in Operators \ {c} : command[d].organization = x.organization => command[d].holds = "nothing"
    BY <1>1, <1>3 DEF LockOrganization, Lockable, Excludes, CommandState
  <2>3. \A d \in Operators \ {c} : command[d].organization = x.organization => ~Deleting(d)
    BY <2>2 DEF LocksFit
  <2>4. x.organization # DefaultOrganization
    BY <1>3 DEF LockOrganization
  <2> QED  BY <2>1, <2>2, <2>3, <2>4, GoOnIInv
<1>4. CASE CountProjects(c) /\ projects[command[c].organization] = {}
  <2> DEFINE x == [step |-> "empty", organization |-> command[c].organization, version |-> command[c].version, holds |-> command[c].holds]
  <2>1. command' = [command EXCEPT ![c] = x] /\ x \in CommandState /\ UNCHANGED <<organization, projects>>
    BY <1>1, <1>4 DEF CountProjects, Continue, CommandState
  <2>2. Deleting(c) /\ x.holds = "update" /\ x.organization # DefaultOrganization
    BY <1>4 DEF CountProjects, Deleting, LocksFit
  <2>3. \A d \in Operators \ {c} : command[d].organization = x.organization => command[d].holds = "nothing"
    BY <2>2 DEF DeletionIsAlone
  <2>4. \A d \in Operators \ {c} : command[d].organization = x.organization => ~Deleting(d)
    BY <2>3 DEF LocksFit
  <2> QED  BY <1>4, <2>1, <2>2, <2>3, <2>4, GoOnIInv
<1>5. ASSUME NEW o \in Organizations, FindOrganization(c, o) PROVE CatalogIInv'
  <2> DEFINE x == [step |-> "found", organization |-> o, version |-> organization[o].version, holds |-> "nothing"]
  <2>1. command' = [command EXCEPT ![c] = x] /\ x \in CommandState /\ UNCHANGED <<organization, projects>>
    BY <1>1, <1>5 DEF FindOrganization, CommandState
  <2> QED  BY <2>1, GoOnIInv
<1>6. ASSUME NEW o \in Organizations, LockParent(c, o) PROVE CatalogIInv'
  <2> DEFINE x == [step |-> "parent", organization |-> o, version |-> 0, holds |-> "share"]
  <2>1. command' = [command EXCEPT ![c] = x] /\ x \in CommandState /\ UNCHANGED <<organization, projects>>
    BY <1>1, <1>6 DEF LockParent, CommandState
  <2>2. \A d \in Operators \ {c} : command[d].organization = o => ~Deleting(d)
    BY <1>6 DEF LockParent, Lockable, Excludes, LocksFit
  <2>3. organization[o].active
    BY <1>6 DEF LockParent
  <2> QED  BY <2>1, <2>2, <2>3, GoOnIInv
<1>7. CASE AbandonCommand(c)
  BY <1>2, <1>7 DEF AbandonCommand
<1>8. CASE LockOrganization(c) /\ ~IsAsFound(c)
  BY <1>2, <1>8 DEF LockOrganization
<1>9. CASE CountProjects(c) /\ projects[command[c].organization] # {}
  BY <1>2, <1>9 DEF CountProjects
<1> QED  BY <1>3, <1>4, <1>5, <1>6, <1>7, <1>8, <1>9

(* A new name changes the version of its organization. *)
LEMMA RenameOrganizationIInv ==
  ASSUME CatalogIInv, NEW c \in Operators, RenameOrganization(c)
  PROVE  CatalogIInv'
<1> DEFINE o == command[c].organization
<1>1. /\ o \in Organizations /\ organization[DefaultOrganization].active
      /\ organization \in [Organizations -> [active : BOOLEAN, version : Nat]]
  BY CatalogAssumption DEF CatalogIInv, CatalogTypeOK, CommandState, NoOrphans
<1>2. /\ organization' \in [Organizations -> [active : BOOLEAN, version : Nat]]
      /\ \A p \in Organizations : organization'[p].active = organization[p].active
  BY <1>1 DEF RenameOrganization
<1> QED  BY <1>1, <1>2, CatalogAssumption, EndCommandIInv DEF RenameOrganization

-----------------------------------------------------------------------------

(* Every step preserves the invariant. *)
LEMMA CatalogNextIInv == CatalogIInv /\ [CatalogNext]_catalogVars => CatalogIInv'
<1> SUFFICES ASSUME CatalogIInv, [CatalogNext]_catalogVars PROVE CatalogIInv'
  OBVIOUS
<1>1. CASE \E o \in Organizations : CreateOrganization(o)
  BY <1>1, CreateOrganizationIInv
<1>2. ASSUME NEW c \in Operators, RenameOrganization(c) PROVE CatalogIInv'
  BY <1>2, RenameOrganizationIInv
<1>3. ASSUME NEW c \in Operators, DeactivateOrganization(c) PROVE CatalogIInv'
  BY <1>3, DeactivateOrganizationIInv
<1>4. ASSUME NEW c \in Operators, InsertProject(c) PROVE CatalogIInv'
  BY <1>4, InsertProjectIInv
<1>5. ASSUME NEW c \in Operators,
             \/ LockOrganization(c) \/ CountProjects(c) \/ AbandonCommand(c)
             \/ \E o \in Organizations : FindOrganization(c, o) \/ LockParent(c, o)
      PROVE CatalogIInv'
  BY <1>5, ReadingStepIInv
<1>6. CASE UNCHANGED catalogVars
  BY <1>6 DEF CatalogIInv, CatalogTypeOK, LocksFit, DeletionIsAlone, Deleting, NoOrphans, catalogVars
<1> QED  BY <1>1, <1>2, <1>3, <1>4, <1>5, <1>6 DEF CatalogNext

(* No project is ever in an organization that was deleted, and the default *)
(* organization stays: CreateProject and DeleteOrganization exclude each   *)
(* other by the locks of the organization's row.                           *)
THEOREM DeletionLeavesNoOrphans == ConsoleSpec => []NoOrphans
<1>1. CatalogIInv => NoOrphans
  BY DEF CatalogIInv
<1> QED  BY <1>1, CatalogInitIInv, CatalogNextIInv, ConsoleParts, PTL DEF ConsoleSpec

(* While a deletion holds the row of its organization nobody else does.    *)
THEOREM DeletionExcludesOthers == ConsoleSpec => []DeletionIsAlone
<1>1. CatalogIInv => DeletionIsAlone
  BY DEF CatalogIInv
<1> QED  BY <1>1, CatalogInitIInv, CatalogNextIInv, ConsoleParts, PTL DEF ConsoleSpec

-----------------------------------------------------------------------------
(***************************************************************************)
(* Commands on a deployment are exact, for any commanders, keys,           *)
(* Applications and bounds.  The lock version of the workflow instance is  *)
(* what makes them so: whatever ends an attempt counts it up, so that a    *)
(* snapshot whose instance is still the same is one of the latest attempt. *)
(***************************************************************************)

Statuses == {"Preflight", "Running", "Succeeded", "Failed", "PartialFailed", "Terminated"}

NodeStatuses == {"Waiting", "Succeeded", "Failed", "Skipped", "Terminated"}

AttemptState == [status : Statuses, lock : Nat, nodes : [Applications -> NodeStatuses]]

Order == [kind : {"Retry", "Terminate", "Unlock"}, key : CommandKeys, expected : Nat,
          selected : SUBSET Applications, seen : Nat]

Snapshot == [attempt : Nat, lock : Nat, status : Statuses, failed : SUBSET Applications, instance : Nat]

Issuing == [step : {"none", "sent", "loaded", "carrying"}, order : Order \cup {{}}, snapshot : Snapshot \cup {{}}]

CommandsTypeOK ==
  /\ attempts \in Seq(AttemptState) /\ Latest >= 1
  /\ instance \in Nat
  /\ orders \subseteq [order : Order, attempt : Nat, result : Nat]
  /\ issuing \in [Commanders -> Issuing]

(* The snapshot of a command that is being decided or carried out. *)
SnapshotsFit ==
  \A c \in Commanders :
    /\ issuing[c].step # "none" => issuing[c].order \in Order
    /\ issuing[c].step \in {"loaded", "carrying"} =>
         /\ issuing[c].snapshot \in Snapshot
         /\ issuing[c].snapshot.attempt \in 1 .. Latest
         /\ issuing[c].snapshot.instance <= instance
         /\ issuing[c].snapshot.instance = instance => issuing[c].snapshot.attempt = Latest

(* What the commands on record have made of their attempts. *)
OrdersFit ==
  \A o \in orders :
    /\ o.attempt \in 1 .. Latest
    /\ o.order.kind = "Retry" => o.attempt < Latest /\ o.result = o.attempt + 1
    /\ o.order.kind # "Retry" => attempts[o.attempt].status = "Terminated"
    /\ o.order.kind = "Unlock" => holder = 0

(* A termination is the end: there is no attempt after it. *)
TerminatedIsLast ==
  \A a \in 1 .. Latest :
    attempts[a].status = "Terminated" => a = Latest /\ On(a, {"Terminate"}) # {}

EndedOnce ==
  \A a \in 1 .. Latest :
    /\ \A o, p \in On(a, {"Retry", "Terminate"}) : o = p
    /\ \A o, p \in On(a, {"Unlock"}) : o = p

RetriedInTurn == \A a \in 2 .. Latest : \E o \in On(a - 1, {"Retry"}) : o.result = a

Answers(o, order, result) ==
  /\ o.order.kind = order.kind /\ o.order.key = order.key /\ o.result = result
  /\ o.order.expected = order.expected /\ o.order.selected = order.selected

ToldTheTruth == \A t \in confirmed : \E o \in orders : Answers(o, t.order, t.told)

LocksOfLatest == holder \in {0, Latest}

World == OrdersFit /\ TerminatedIsLast /\ EndedOnce /\ RetriedInTurn /\ LocksOfLatest

CommandsIInv == CommandsTypeOK /\ SnapshotsFit /\ World /\ ToldTheTruth

-----------------------------------------------------------------------------

(* One attempt, no command. *)
LEMMA CommandsInitIInv == ExecutionCommandsInit => CommandsIInv
<1> SUFFICES ASSUME ExecutionCommandsInit PROVE CommandsIInv
  OBVIOUS
<1> USE DEF ExecutionCommandsInit
<1> DEFINE first == Attempt([x \in Applications |-> "Waiting"])
<1>1. first \in AttemptState /\ first.status = "Preflight"
  BY DEF Attempt, AttemptState, Statuses, NodeStatuses
<1>2. attempts = <<first>> /\ Latest = 1 /\ attempts[1] = first
  BY DEF Latest
<1> HIDE DEF first
<1>3. NoOrder \in Issuing /\ NoOrder.step = "none"
  BY DEF NoOrder, Issuing
<1>4. CommandsTypeOK
  BY <1>1, <1>2, <1>3 DEF CommandsTypeOK
<1>5. SnapshotsFit
  BY <1>3 DEF SnapshotsFit
<1>6. World
  BY <1>1, <1>2 DEF World, OrdersFit, TerminatedIsLast, EndedOnce, RetriedInTurn, LocksOfLatest, On
<1>7. ToldTheTruth
  BY DEF ToldTheTruth
<1> QED  BY <1>4, <1>5, <1>6, <1>7 DEF CommandsIInv

-----------------------------------------------------------------------------
(* Requests *)

(* The request of c has ended or is on its way again. *)
SenderDone(c) ==
  /\ issuing' \in [Commanders -> Issuing]
  /\ \A d \in Commanders \ {c} : issuing'[d] = issuing[d]
  /\ issuing'[c].step \in {"none", "sent"}
  /\ issuing'[c].step = "sent" => issuing'[c].order \in Order
  /\ ToldTheTruth'

(* A refusal tells nobody anything. *)
LEMMA TurnAwayDone ==
  ASSUME CommandsIInv, NEW c \in Commanders, TurnAway(c), orders \subseteq orders'
  PROVE  SenderDone(c)
<1>1. NoOrder \in Issuing /\ NoOrder.step = "none"
  BY DEF NoOrder, Issuing
<1>2. issuing \in [Commanders -> Issuing] /\ issuing' = [issuing EXCEPT ![c] = NoOrder] /\ confirmed' = confirmed
  BY DEF CommandsIInv, CommandsTypeOK, TurnAway
<1>3. ToldTheTruth'
  BY <1>2 DEF CommandsIInv, ToldTheTruth, Answers
<1> QED  BY <1>1, <1>2, <1>3 DEF SenderDone

(* An acceptance tells what is on record. *)
LEMMA AcceptDone ==
  ASSUME CommandsIInv, NEW c \in Commanders, NEW result, issuing[c].step # "none", Accept(c, result),
         orders \subseteq orders', NEW o \in orders', Answers(o, issuing[c].order, result)
  PROVE  SenderDone(c)
<1> DEFINE again == [step |-> "sent", order |-> issuing[c].order, snapshot |-> {}]
<1>1. NoOrder \in Issuing /\ NoOrder.step = "none"
  BY DEF NoOrder, Issuing
<1>2. /\ issuing[c].order \in Order /\ issuing \in [Commanders -> Issuing]
      /\ again \in Issuing /\ again.step = "sent" /\ again.order \in Order
  BY DEF CommandsIInv, CommandsTypeOK, SnapshotsFit, Issuing
<1>3. issuing' = [issuing EXCEPT ![c] = NoOrder] \/ issuing' = [issuing EXCEPT ![c] = again]
  BY DEF Accept, Proceed
<1>4. confirmed' \subseteq confirmed \cup {[order |-> issuing[c].order, told |-> result]}
  BY DEF Accept
<1> HIDE DEF again
<1>5. ToldTheTruth'
  <2> SUFFICES ASSUME NEW t \in confirmed' PROVE \E p \in orders' : Answers(p, t.order, t.told)
    BY DEF ToldTheTruth, Answers
  <2>1. CASE t \in confirmed
    BY <2>1 DEF CommandsIInv, ToldTheTruth
  <2>2. CASE t = [order |-> issuing[c].order, told |-> result]
    BY <2>2
  <2> QED  BY <1>4, <2>1, <2>2
<1> QED  BY <1>1, <1>2, <1>3, <1>5 DEF SenderDone

(* A request moves on, and nothing else happens. *)
LEMMA SenderStep ==
  ASSUME CommandsIInv, NEW c \in Commanders, SenderDone(c), UNCHANGED <<attempts, instance, holder, orders>>
  PROVE  CommandsIInv'
<1>1. CommandsTypeOK' /\ ToldTheTruth'
  BY DEF CommandsIInv, CommandsTypeOK, SenderDone, Latest
<1>2. SnapshotsFit'
  BY DEF CommandsIInv, SnapshotsFit, SenderDone, Latest
<1>3. World'
  BY DEF CommandsIInv, World, OrdersFit, TerminatedIsLast, EndedOnce, RetriedInTurn, LocksOfLatest, On, Latest
<1> QED  BY <1>1, <1>2, <1>3 DEF CommandsIInv

(* A request advances with a snapshot that fits. *)
LEMMA AdvanceStep ==
  ASSUME CommandsIInv, NEW c \in Commanders, UNCHANGED <<attempts, instance, holder, orders, confirmed>>,
         NEW x \in Issuing, issuing' = [issuing EXCEPT ![c] = x], x.order \in Order,
         x.step \in {"loaded", "carrying"} =>
           /\ x.snapshot \in Snapshot /\ x.snapshot.attempt \in 1 .. Latest
           /\ x.snapshot.instance <= instance
           /\ x.snapshot.instance = instance => x.snapshot.attempt = Latest
  PROVE  CommandsIInv'
<1>1. \A d \in Commanders : issuing'[d] = IF d = c THEN x ELSE issuing[d]
  BY DEF CommandsIInv, CommandsTypeOK
<1>2. CommandsTypeOK' /\ ToldTheTruth'
  BY DEF CommandsIInv, CommandsTypeOK, ToldTheTruth, Answers, Latest
<1>3. SnapshotsFit'
  BY <1>1 DEF CommandsIInv, SnapshotsFit, Latest
<1>4. World'
  BY DEF CommandsIInv, World, OrdersFit, TerminatedIsLast, EndedOnce, RetriedInTurn, LocksOfLatest, On, Latest
<1> QED  BY <1>2, <1>3, <1>4 DEF CommandsIInv

(* The attempts are those from the first to the latest. *)
LEMMA AttemptTypes ==
  ASSUME CommandsIInv
  PROVE  /\ Latest \in Nat /\ Latest >= 1 /\ Latest \in 1 .. Latest
         /\ DOMAIN attempts = 1 .. Latest
         /\ \A a \in 1 .. Latest : attempts[a] \in AttemptState /\ attempts[a].lock \in Nat /\ attempts[a].status \in Statuses
<1>1. attempts \in Seq(AttemptState) /\ Latest >= 1
  BY DEF CommandsIInv, CommandsTypeOK
<1>2. Latest \in Nat /\ DOMAIN attempts = 1 .. Latest
  BY <1>1 DEF Latest
<1>3. \A a \in 1 .. Latest : attempts[a] \in AttemptState
  BY <1>1 DEF Latest
<1> QED  BY <1>1, <1>2, <1>3 DEF AttemptState

(* A command is issued from a page of the latest attempt. *)
LEMMA IssueIInv ==
  ASSUME CommandsIInv, NEW c \in Commanders, NEW what \in {"Retry", "Terminate", "Unlock"},
         NEW key \in CommandKeys, NEW selected \in SUBSET Applications, Issue(c, what, key, selected)
  PROVE  CommandsIInv'
<1> DEFINE order == [kind |-> what, key |-> key, expected |-> attempts[Latest].lock, selected |-> selected, seen |-> Latest]
           x == [step |-> "sent", snapshot |-> {}, order |-> order]
<1>1. attempts[Latest].lock \in Nat /\ Latest \in Nat
  BY AttemptTypes
<1>2. order \in Order
  BY <1>1 DEF Order
<1>3. x \in Issuing /\ x.order \in Order /\ x.step = "sent" /\ issuing' = [issuing EXCEPT ![c] = x]
  BY <1>2 DEF Issuing, Issue
<1> HIDE DEF x
<1> QED  BY <1>3, AdvanceStep DEF Issue

(* A snapshot is one of the latest attempt when it is taken. *)
LEMMA LoadLatestIInv ==
  ASSUME CommandsIInv, NEW c \in Commanders, LoadLatest(c)
  PROVE  CommandsIInv'
<1> DEFINE taken == [attempt |-> Latest, lock |-> attempts[Latest].lock, status |-> attempts[Latest].status,
                     failed |-> NodesAt(Latest, "Failed"), instance |-> instance]
           x == [step |-> "loaded", order |-> issuing[c].order, snapshot |-> taken]
<1>1. /\ attempts[Latest] \in AttemptState /\ Latest \in Nat /\ Latest \in 1 .. Latest
      /\ instance \in Nat /\ NodesAt(Latest, "Failed") \in SUBSET Applications
      /\ issuing[c].order \in Order
  BY DEF CommandsIInv, CommandsTypeOK, Latest, NodesAt, SnapshotsFit, LoadLatest
<1>2. taken \in Snapshot /\ taken.attempt = Latest /\ taken.instance = instance
  BY <1>1 DEF Snapshot, AttemptState
<1> HIDE DEF taken
<1>3. x \in Issuing /\ x.order \in Order /\ x.snapshot = taken
  BY <1>1, <1>2 DEF Issuing
<1>4. issuing' = [issuing EXCEPT ![c] = x]
  BY DEF LoadLatest, taken, Proceed
<1>5. /\ x.snapshot \in Snapshot /\ x.snapshot.attempt \in 1 .. Latest
      /\ x.snapshot.instance <= instance
      /\ x.snapshot.instance = instance => x.snapshot.attempt = Latest
  BY <1>1, <1>2, <1>3
<1>6. UNCHANGED <<attempts, instance, holder, orders, confirmed>>
  BY DEF LoadLatest
<1> HIDE DEF x
<1> QED  BY <1>3, <1>4, <1>5, <1>6, AdvanceStep

(* A replay, a refusal, or a command that is decided to be carried out. *)
LEMMA LookUpIInv ==
  ASSUME CommandsIInv, NEW c \in Commanders, LookUp(c)
  PROVE  CommandsIInv'
<1>1. issuing[c].step = "loaded" /\ UNCHANGED <<attempts, instance, holder, orders>>
  BY DEF LookUp
<1>2. CASE TurnAway(c)
  BY <1>1, <1>2, TurnAwayDone, SenderStep
<1>3. ASSUME NEW o \in Recorded(issuing[c].order), SameContent(o.order, issuing[c].order), Accept(c, o.result)
      PROVE  CommandsIInv'
  <2>1. o \in orders' /\ Answers(o, issuing[c].order, o.result)
    BY <1>1, <1>3 DEF Recorded, SameContent, Answers
  <2> QED  BY <1>1, <1>3, <2>1, AcceptDone, SenderStep
<1>4. CASE Proceed(c, "carrying", issuing[c].snapshot) /\ UNCHANGED confirmed
  <2> DEFINE x == [step |-> "carrying", order |-> issuing[c].order, snapshot |-> issuing[c].snapshot]
  <2>1. x \in Issuing /\ issuing' = [issuing EXCEPT ![c] = x] /\ x.snapshot = issuing[c].snapshot
    BY <1>4 DEF CommandsIInv, CommandsTypeOK, Issuing, Proceed
  <2>2. x.order = issuing[c].order
    OBVIOUS
  <2> HIDE DEF x
  <2> QED  BY <1>1, <1>4, <2>1, <2>2, AdvanceStep DEF CommandsIInv, SnapshotsFit
<1> QED  BY <1>2, <1>3, <1>4 DEF LookUp

(* A request that fails changes nothing. *)
LEMMA FailIInv ==
  ASSUME CommandsIInv, NEW c \in Commanders, Fail(c)
  PROVE  CommandsIInv'
BY TurnAwayDone, SenderStep DEF Fail

-----------------------------------------------------------------------------
(* Attempts *)

(* What makes a world of attempts and orders also makes the invariant: when *)
(* there is an attempt more, the instance has been counted up.              *)
LEMMA WorldStep ==
  ASSUME CommandsIInv, World',
         attempts' \in Seq(AttemptState), instance' \in Nat, instance' >= instance,
         Latest' = Latest \/ (Latest' = Latest + 1 /\ instance' > instance),
         orders' \subseteq [order : Order, attempt : Nat, result : Nat],
         (UNCHANGED <<issuing, orders, confirmed>>) \/ (\E c \in Commanders : SenderDone(c))
  PROVE  CommandsIInv'
<1>1. /\ Latest \in Nat /\ Latest >= 1 /\ instance \in Nat
      /\ issuing \in [Commanders -> Issuing]
  BY AttemptTypes DEF CommandsIInv, CommandsTypeOK
<1>2. /\ issuing' \in [Commanders -> Issuing] /\ ToldTheTruth'
      /\ \A d \in Commanders :
           \/ issuing'[d] = issuing[d]
           \/ issuing'[d].step \in {"none", "sent"} /\ (issuing'[d].step = "sent" => issuing'[d].order \in Order)
  <2>1. CASE UNCHANGED <<issuing, orders, confirmed>>
    BY <1>1, <2>1 DEF CommandsIInv, ToldTheTruth, Answers
  <2>2. CASE \E c \in Commanders : SenderDone(c)
    BY <2>2 DEF SenderDone
  <2> QED  BY <2>1, <2>2
<1>3. Latest' \in Nat /\ Latest' >= Latest
  BY <1>1
<1>4. CommandsTypeOK'
  BY <1>1, <1>2, <1>3 DEF CommandsTypeOK
<1>5. SnapshotsFit'
  <2> SUFFICES ASSUME NEW d \in Commanders
               PROVE  /\ issuing'[d].step # "none" => issuing'[d].order \in Order
                      /\ issuing'[d].step \in {"loaded", "carrying"} =>
                           /\ issuing'[d].snapshot \in Snapshot
                           /\ issuing'[d].snapshot.attempt \in 1 .. Latest'
                           /\ issuing'[d].snapshot.instance <= instance'
                           /\ issuing'[d].snapshot.instance = instance' => issuing'[d].snapshot.attempt = Latest'
    BY DEF SnapshotsFit
  <2>1. CASE issuing'[d] = issuing[d]
    <3> DEFINE s == issuing[d].snapshot
    <3>1. issuing[d].step # "none" => issuing[d].order \in Order
      BY DEF CommandsIInv, SnapshotsFit
    <3>2. ASSUME issuing[d].step \in {"loaded", "carrying"}
          PROVE  /\ s \in Snapshot /\ s.attempt \in 1 .. Latest
                 /\ s.instance \in Nat /\ s.instance <= instance
                 /\ s.instance = instance => s.attempt = Latest
      BY <3>2 DEF CommandsIInv, SnapshotsFit, Snapshot
    <3> HIDE DEF s
    <3>3. ASSUME issuing[d].step \in {"loaded", "carrying"}
          PROVE  /\ s.attempt \in 1 .. Latest' /\ s.instance <= instance'
                 /\ s.instance = instance' => s.attempt = Latest'
      BY <1>1, <1>3, <3>2, <3>3
    <3>4. ASSUME issuing[d].step \in {"loaded", "carrying"}
          PROVE  /\ s \in Snapshot /\ s.attempt \in 1 .. Latest' /\ s.instance <= instance'
                 /\ s.instance = instance' => s.attempt = Latest'
      BY <3>2, <3>3, <3>4
    <3> QED  BY <2>1, <3>1, <3>4 DEF s
  <2>2. CASE issuing'[d].step \in {"none", "sent"} /\ (issuing'[d].step = "sent" => issuing'[d].order \in Order)
    BY <2>2
  <2> QED  BY <1>2, <2>1, <2>2
<1> QED  BY <1>2, <1>4, <1>5 DEF CommandsIInv

(* Unless the latest attempt is terminated none is, and all commands on    *)
(* record are retries.                                                     *)
LEMMA NoneTerminated ==
  ASSUME CommandsIInv, attempts[Latest].status # "Terminated"
  PROVE  /\ \A a \in 1 .. Latest : attempts[a].status # "Terminated"
         /\ \A o \in orders : o.order.kind = "Retry" /\ o.attempt \in 1 .. Latest - 1 /\ o.result = o.attempt + 1
<1>1. \A a \in 1 .. Latest : attempts[a].status # "Terminated"
  BY DEF CommandsIInv, World, TerminatedIsLast
<1>2. \A o \in orders : o.order.kind = "Retry" /\ o.attempt \in 1 .. Latest /\ o.attempt < Latest /\ o.result = o.attempt + 1
  BY <1>1 DEF CommandsIInv, World, OrdersFit
<1> QED  BY <1>1, <1>2, AttemptTypes

(* The worker takes an attempt on that is not terminated. *)
LEMMA OpenWorld ==
  ASSUME CommandsIInv, attempts[Latest].status # "Terminated", orders' = orders, Latest' = Latest,
         \A a \in 1 .. Latest : attempts'[a].status # "Terminated", holder' \in {0, Latest}
  PROVE  World'
<1>1. OrdersFit' /\ TerminatedIsLast' /\ LocksOfLatest'
  BY NoneTerminated DEF CommandsIInv, World, OrdersFit, TerminatedIsLast, LocksOfLatest
<1>2. EndedOnce' /\ RetriedInTurn'
  BY DEF CommandsIInv, World, EndedOnce, RetriedInTurn, On
<1> QED  BY <1>1, <1>2 DEF World

(* An attempt starts with the locks. *)
LEMMA StartAttemptIInv ==
  ASSUME CommandsIInv, StartAttempt
  PROVE  CommandsIInv'
<1> DEFINE started == [status |-> "Running", lock |-> attempts[Latest].lock, nodes |-> attempts[Latest].nodes]
<1>1. /\ attempts[Latest].status = "Preflight" /\ holder' = Latest
      /\ UNCHANGED <<instance, orders, issuing, confirmed>>
  BY DEF StartAttempt
<1>2. /\ attempts \in Seq(AttemptState) /\ attempts[Latest] \in AttemptState /\ Latest \in DOMAIN attempts
      /\ instance \in Nat /\ orders \subseteq [order : Order, attempt : Nat, result : Nat]
  BY AttemptTypes DEF CommandsIInv, CommandsTypeOK
<1>3. started \in AttemptState /\ started.status = "Running"
  BY <1>2 DEF AttemptState, Statuses
<1>4. attempts' = [attempts EXCEPT ![Latest] = started]
  <2>1. \A r \in AttemptState : [r EXCEPT !.status = "Running"] = [status |-> "Running", lock |-> r.lock, nodes |-> r.nodes]
    BY DEF AttemptState
  <2>2. attempts' = [attempts EXCEPT ![Latest] = [attempts[Latest] EXCEPT !.status = "Running"]]
    BY DEF StartAttempt
  <2> QED  BY <1>2, <2>1, <2>2
<1> HIDE DEF started
<1>5. attempts' \in Seq(AttemptState) /\ Latest' = Latest /\ \A a \in DOMAIN attempts : attempts'[a] = IF a = Latest THEN started ELSE attempts[a]
  BY <1>2, <1>3, <1>4 DEF Latest
<1>6. World'
  BY <1>1, <1>3, <1>5, AttemptTypes, NoneTerminated, OpenWorld
<1> QED  BY <1>1, <1>2, <1>5, <1>6, WorldStep

(* An attempt ends, and gives its locks back or keeps them. *)
LEMMA CompleteAttemptIInv ==
  ASSUME CommandsIInv, CompleteAttempt
  PROVE  CommandsIInv'
<1>1. /\ attempts[Latest].status = "Running" /\ instance' = instance + 1
      /\ UNCHANGED <<orders, issuing, confirmed>>
  BY DEF CompleteAttempt
<1>2. PICK end \in [NodesAt(Latest, "Waiting") -> {"Succeeded", "Failed", "Skipped"}] :
        LET nodes == [x \in Applications |-> IF x \in DOMAIN end THEN end[x] ELSE attempts[Latest].nodes[x]]
        IN /\ attempts' = [attempts EXCEPT ![Latest] = [status |-> Outcome(nodes), lock |-> @.lock + 1, nodes |-> nodes]]
           /\ holder' = IF Outcome(nodes) = "PartialFailed" THEN holder ELSE 0
  BY DEF CompleteAttempt
<1> DEFINE nodes == [x \in Applications |-> IF x \in DOMAIN end THEN end[x] ELSE attempts[Latest].nodes[x]]
           ended == [status |-> Outcome(nodes), lock |-> attempts[Latest].lock + 1, nodes |-> nodes]
<1>3. /\ attempts \in Seq(AttemptState) /\ attempts[Latest] \in AttemptState /\ Latest \in DOMAIN attempts
      /\ instance \in Nat /\ orders \subseteq [order : Order, attempt : Nat, result : Nat]
  BY AttemptTypes DEF CommandsIInv, CommandsTypeOK
<1>4. nodes \in [Applications -> NodeStatuses]
  BY <1>3 DEF AttemptState, NodeStatuses
<1>5. attempts' = [attempts EXCEPT ![Latest] = ended] /\ holder' \in {0, holder}
  BY <1>2
<1> HIDE DEF nodes
<1>6. Outcome(nodes) \in {"Succeeded", "Failed", "PartialFailed"}
  BY DEF Outcome
<1>7. ended \in AttemptState /\ ended.status # "Terminated"
  BY <1>3, <1>4, <1>6 DEF AttemptState, Statuses
<1> HIDE DEF ended
<1>8. attempts' \in Seq(AttemptState) /\ Latest' = Latest /\ \A a \in DOMAIN attempts : attempts'[a] = IF a = Latest THEN ended ELSE attempts[a]
  BY <1>3, <1>5, <1>7 DEF Latest
<1>9. holder' \in {0, Latest}
  BY <1>5 DEF CommandsIInv, World, LocksOfLatest
<1>10. World'
  BY <1>1, <1>7, <1>8, <1>9, AttemptTypes, NoneTerminated, OpenWorld
<1> QED  BY <1>1, <1>3, <1>8, <1>10, WorldStep

(* Locks that nobody renews are lost. *)
LEMMA LoseLocksIInv ==
  ASSUME CommandsIInv, LoseLocksToOthers
  PROVE  CommandsIInv'
<1>1. holder' = 0 /\ UNCHANGED <<attempts, instance, orders, issuing, confirmed>>
  BY DEF LoseLocksToOthers
<1>2. World'
  BY <1>1 DEF CommandsIInv, World, OrdersFit, TerminatedIsLast, EndedOnce, RetriedInTurn, LocksOfLatest, On, Latest
<1>3. /\ attempts \in Seq(AttemptState) /\ instance \in Nat
      /\ orders \subseteq [order : Order, attempt : Nat, result : Nat] /\ Latest' = Latest
  BY <1>1 DEF CommandsIInv, CommandsTypeOK, Latest
<1> QED  BY <1>1, <1>2, <1>3, WorldStep

-----------------------------------------------------------------------------
(* Transactions *)

(* What a command that is carried out puts on record. *)
LEMMA RecordDone ==
  ASSUME CommandsIInv, NEW c \in Commanders, NEW result \in Nat, issuing[c].step = "carrying", Record(c, result)
  PROVE  /\ orders' = orders \cup {[order |-> issuing[c].order, attempt |-> Carried(c), result |-> result]}
         /\ orders' \subseteq [order : Order, attempt : Nat, result : Nat]
         /\ SenderDone(c)
<1> DEFINE new == [order |-> issuing[c].order, attempt |-> Carried(c), result |-> result]
<1>1. orders' = orders \cup {new} /\ Accept(c, result)
  BY DEF Record
<1>2. issuing[c].order \in Order /\ Carried(c) \in Nat
  BY DEF CommandsIInv, SnapshotsFit, Snapshot, Carried
<1>3. new \in [order : Order, attempt : Nat, result : Nat] /\ Answers(new, issuing[c].order, result)
  BY <1>2 DEF Answers
<1> HIDE DEF new
<1>4. SenderDone(c)
  BY <1>1, <1>3, AcceptDone
<1>5. orders' \subseteq [order : Order, attempt : Nat, result : Nat]
  BY <1>1, <1>3 DEF CommandsIInv, CommandsTypeOK
<1> QED  BY <1>1, <1>4, <1>5 DEF new

(* A command that cannot be carried out is as if it had not been given. *)
LEMMA UndoIInv ==
  ASSUME CommandsIInv, NEW c \in Commanders, Undo(c)
  PROVE  CommandsIInv'
BY TurnAwayDone, SenderStep DEF Undo

(* The instance of the snapshot is still the same: so is the attempt. *)
LEMMA SameInstanceIsLatest ==
  ASSUME CommandsIInv, NEW c \in Commanders, issuing[c].step = "carrying"
  PROVE  Carried(c) \in 1 .. Latest /\ (SameInstance(c) => Carried(c) = Latest)
BY DEF CommandsIInv, SnapshotsFit, Carried, SameInstance

(* Counting the lock version of an attempt leaves its status alone. *)
LEMMA CountedUp ==
  ASSUME CommandsIInv, NEW a \in 1 .. Latest
  PROVE  /\ [attempts EXCEPT ![a].lock = @ + 1] \in Seq(AttemptState)
         /\ Len([attempts EXCEPT ![a].lock = @ + 1]) = Latest
         /\ \A b \in DOMAIN attempts : [attempts EXCEPT ![a].lock = @ + 1][b].status = attempts[b].status
<1> DEFINE was == attempts[a]
           counted == [status |-> was.status, lock |-> was.lock + 1, nodes |-> was.nodes]
           passed == [attempts EXCEPT ![a].lock = @ + 1]
<1>1. attempts \in Seq(AttemptState) /\ a \in DOMAIN attempts /\ was \in AttemptState /\ was.lock + 1 \in Nat
  BY AttemptTypes DEF CommandsIInv, CommandsTypeOK
<1>2. \A r \in AttemptState, n \in Nat : [r EXCEPT !.lock = n] = [status |-> r.status, lock |-> n, nodes |-> r.nodes]
  BY DEF AttemptState
<1>3. [was EXCEPT !.lock = was.lock + 1] = counted
  BY <1>1, <1>2
<1>4. passed = [attempts EXCEPT ![a] = [was EXCEPT !.lock = was.lock + 1]]
  OBVIOUS
<1>5. counted \in AttemptState /\ counted.status = was.status
  BY <1>1 DEF AttemptState
<1> HIDE DEF counted
<1>6. passed = [attempts EXCEPT ![a] = counted]
  BY <1>3, <1>4
<1> HIDE DEF passed
<1>7. passed \in Seq(AttemptState) /\ Len(passed) = Latest /\ \A b \in DOMAIN attempts : passed[b].status = attempts[b].status
  BY <1>1, <1>5, <1>6 DEF Latest
<1> QED  BY <1>7 DEF passed

(* A retry appends an attempt to a closed one and hands its locks over. *)
LEMMA CarryOutRetryIInv ==
  ASSUME CommandsIInv, NEW c \in Commanders, CarryOutRetry(c)
  PROVE  CommandsIInv'
<1> DEFINE a == Carried(c)
           chosen == issuing[c].order.selected
           nodes == [x \in Applications |-> RetriedNode(attempts[a].nodes[x], x \in chosen)]
           passed == [attempts EXCEPT ![a].lock = @ + 1]
           fresh == Attempt(nodes)
           new == [order |-> issuing[c].order, attempt |-> a, result |-> a + 1]
<1>1. issuing[c].step = "carrying" /\ issuing[c].order.kind = "Retry"
  BY DEF CarryOutRetry, InTransaction
<1>2. CASE Undo(c)
  BY <1>2, UndoIInv
<1>3. CASE /\ a = Latest /\ Closed(attempts[Latest].status)
           /\ attempts' = Append(passed, fresh)
           /\ instance' = instance + 1
           /\ holder' = IF holder = a THEN a + 1 ELSE holder
           /\ Record(c, a + 1)
  <2>1. /\ attempts \in Seq(AttemptState) /\ Latest \in DOMAIN attempts /\ Latest \in Nat /\ Latest >= 1
        /\ attempts[Latest] \in AttemptState /\ attempts[Latest].lock \in Nat /\ instance \in Nat
    BY AttemptTypes DEF CommandsIInv, CommandsTypeOK
  <2>2. attempts[Latest].status # "Terminated"
    BY <1>3 DEF Closed
  <2>3. fresh \in AttemptState /\ fresh.status = "Preflight"
    <3>1. nodes \in [Applications -> NodeStatuses]
      BY <1>3, <2>1 DEF RetriedNode, AttemptState, NodeStatuses
    <3> HIDE DEF nodes
    <3> QED  BY <3>1 DEF Attempt, AttemptState, Statuses
  <2> HIDE DEF fresh
  <2>4. passed \in Seq(AttemptState) /\ Len(passed) = Latest /\ \A b \in DOMAIN attempts : passed[b].status = attempts[b].status
    BY <1>3, CountedUp, AttemptTypes
  <2> HIDE DEF passed
  <2>5. /\ attempts' \in Seq(AttemptState) /\ Latest' = Latest + 1
        /\ \A b \in 1 .. Latest : attempts'[b].status = attempts[b].status
        /\ attempts'[Latest + 1].status = "Preflight"
    BY <1>3, <2>1, <2>3, <2>4, AttemptTypes DEF Latest
  <2>6. /\ orders' = orders \cup {new} /\ orders' \subseteq [order : Order, attempt : Nat, result : Nat]
        /\ SenderDone(c)
    BY <1>1, <1>3, <2>1, RecordDone
  <2>7. /\ \A b \in 1 .. Latest' : attempts'[b].status # "Terminated"
        /\ \A o \in orders : o.order.kind = "Retry" /\ o.attempt \in 1 .. Latest - 1 /\ o.result = o.attempt + 1
    BY <2>1, <2>2, <2>5, NoneTerminated
  <2>8. new.order.kind = "Retry" /\ new.attempt = Latest /\ new.result = Latest + 1
    BY <1>1, <1>3
  <2> HIDE DEF new, a
  <2>9. OrdersFit' /\ TerminatedIsLast'
    BY <2>1, <2>5, <2>6, <2>7, <2>8 DEF OrdersFit, TerminatedIsLast
  <2>10. EndedOnce'
    <3> SUFFICES ASSUME NEW b \in 1 .. Latest'
                 PROVE  /\ \A o, p \in On(b, {"Retry", "Terminate"})' : o = p
                        /\ On(b, {"Unlock"})' = {}
      BY DEF EndedOnce
    <3>1. On(b, {"Unlock"})' = {}
      BY <2>6, <2>7, <2>8 DEF On
    <3>2. CASE b = Latest
      <4>1. On(b, {"Retry", "Terminate"})' \subseteq {new}
        BY <2>1, <2>6, <2>7, <3>2 DEF On
      <4> QED  BY <3>1, <4>1
    <3>3. CASE b # Latest
      <4>1. On(b, {"Retry", "Terminate"})' = On(b, {"Retry", "Terminate"})
        BY <2>6, <2>8, <3>3 DEF On
      <4>2. b \in 1 .. Latest \/ On(b, {"Retry", "Terminate"}) = {}
        BY <2>1, <2>5, <2>7 DEF On
      <4> QED  BY <3>1, <4>1, <4>2 DEF CommandsIInv, World, EndedOnce
    <3> QED  BY <3>2, <3>3
  <2>11. RetriedInTurn'
    <3> SUFFICES ASSUME NEW b \in 2 .. Latest' PROVE \E o \in On(b - 1, {"Retry"})' : o.result = b
      BY DEF RetriedInTurn
    <3>1. CASE b = Latest + 1
      <4>1. b - 1 = new.attempt /\ new.result = b /\ new \in orders'
        BY <2>1, <2>6, <2>8, <3>1
      <4>2. new \in On(b - 1, {"Retry"})'
        BY <2>8, <4>1 DEF On
      <4> QED  BY <4>1, <4>2
    <3>2. CASE b # Latest + 1
      <4>1. b \in 2 .. Latest
        BY <2>1, <2>5, <3>2
      <4>2. On(b - 1, {"Retry"}) \subseteq On(b - 1, {"Retry"})'
        BY <2>6 DEF On
      <4> QED  BY <4>1, <4>2 DEF CommandsIInv, World, RetriedInTurn
    <3> QED  BY <3>1, <3>2
  <2>12. LocksOfLatest'
    BY <1>3, <2>1, <2>5 DEF a, CommandsIInv, World, LocksOfLatest
  <2>13. World'
    BY <2>9, <2>10, <2>11, <2>12 DEF World
  <2>14. instance' \in Nat /\ instance' > instance /\ instance' >= instance
    BY <1>3, <2>1
  <2> QED  BY <2>5, <2>6, <2>13, <2>14, WorldStep
<1> QED  BY <1>2, <1>3 DEF CarryOutRetry

(* A termination ends the latest attempt. *)
LEMMA CarryOutTerminateIInv ==
  ASSUME CommandsIInv, NEW c \in Commanders, CarryOutTerminate(c)
  PROVE  CommandsIInv'
<1> DEFINE a == Carried(c)
           nodes == [x \in Applications |-> IF attempts[a].nodes[x] = "Waiting" THEN "Terminated" ELSE attempts[a].nodes[x]]
           ended == [status |-> "Terminated", lock |-> attempts[a].lock + 1, nodes |-> nodes]
           new == [order |-> issuing[c].order, attempt |-> a, result |-> a]
<1>1. issuing[c].step = "carrying" /\ issuing[c].order.kind = "Terminate"
  BY DEF CarryOutTerminate, InTransaction
<1>2. CASE Undo(c)
  BY <1>2, UndoIInv
<1>3. CASE /\ SameInstance(c) /\ attempts[a].status \in {"Running", "PartialFailed"}
           /\ attempts' = [attempts EXCEPT ![a] = ended]
           /\ instance' = instance + 1
           /\ Record(c, a)
           /\ UNCHANGED holder
  <2>1. a = Latest
    BY <1>1, <1>3, SameInstanceIsLatest
  <2>2. /\ attempts \in Seq(AttemptState) /\ Latest \in DOMAIN attempts /\ Latest \in Nat /\ Latest >= 1
        /\ attempts[a] \in AttemptState /\ attempts[a].lock \in Nat /\ instance \in Nat /\ a \in Nat
    BY <2>1, AttemptTypes DEF CommandsIInv, CommandsTypeOK
  <2>3. ended \in AttemptState /\ ended.status = "Terminated"
    <3>1. nodes \in [Applications -> NodeStatuses]
      BY <2>2 DEF AttemptState, NodeStatuses
    <3> HIDE DEF nodes
    <3> QED  BY <2>2, <3>1 DEF AttemptState, Statuses
  <2> HIDE DEF ended
  <2>4. /\ attempts' \in Seq(AttemptState) /\ Latest' = Latest
        /\ \A b \in 1 .. Latest : attempts'[b] = IF b = Latest THEN ended ELSE attempts[b]
    BY <1>3, <2>1, <2>2, <2>3 DEF Latest
  <2>5. /\ orders' = orders \cup {new} /\ orders' \subseteq [order : Order, attempt : Nat, result : Nat]
        /\ SenderDone(c)
    BY <1>1, <1>3, <2>2, RecordDone
  <2>6. /\ \A b \in 1 .. Latest : attempts[b].status # "Terminated"
        /\ \A o \in orders : o.order.kind = "Retry" /\ o.attempt \in 1 .. Latest - 1 /\ o.result = o.attempt + 1
    BY <1>3, <2>1, NoneTerminated
  <2>7. new.order.kind = "Terminate" /\ new.attempt = Latest
    BY <1>1, <2>1
  <2> HIDE DEF new, a
  <2>8. OrdersFit'
    BY <2>2, <2>3, <2>4, <2>5, <2>6, <2>7 DEF OrdersFit
  <2>9. TerminatedIsLast'
    <3>1. new \in On(Latest, {"Terminate"})'
      BY <2>4, <2>5, <2>7 DEF On
    <3> QED  BY <2>4, <2>6, <3>1 DEF TerminatedIsLast
  <2>10. EndedOnce'
    <3> SUFFICES ASSUME NEW b \in 1 .. Latest
                 PROVE  /\ \A o, p \in On(b, {"Retry", "Terminate"})' : o = p
                        /\ On(b, {"Unlock"})' = {}
      BY <2>4 DEF EndedOnce
    <3>1. On(b, {"Unlock"})' = {}
      BY <2>5, <2>6, <2>7 DEF On
    <3>2. CASE b = Latest
      <4>1. On(b, {"Retry", "Terminate"})' \subseteq {new}
        BY <2>2, <2>5, <2>6, <3>2 DEF On
      <4> QED  BY <3>1, <4>1
    <3>3. CASE b # Latest
      <4>1. On(b, {"Retry", "Terminate"})' = On(b, {"Retry", "Terminate"})
        BY <2>5, <2>7, <3>3 DEF On
      <4> QED  BY <3>1, <4>1 DEF CommandsIInv, World, EndedOnce
    <3> QED  BY <3>2, <3>3
  <2>11. RetriedInTurn'
    BY <2>4, <2>5 DEF CommandsIInv, World, RetriedInTurn, On
  <2>12. LocksOfLatest'
    BY <1>3, <2>4 DEF CommandsIInv, World, LocksOfLatest
  <2>13. World'
    BY <2>8, <2>9, <2>10, <2>11, <2>12 DEF World
  <2>14. instance' \in Nat /\ instance' >= instance
    BY <1>3, <2>2
  <2> QED  BY <2>4, <2>5, <2>13, <2>14, WorldStep
<1> QED  BY <1>2, <1>3 DEF CarryOutTerminate

(* The locks of a terminated attempt are given free: it is the latest. *)
LEMMA CarryOutUnlockIInv ==
  ASSUME CommandsIInv, NEW c \in Commanders, CarryOutUnlock(c)
  PROVE  CommandsIInv'
<1> DEFINE a == Carried(c)
           passed == [attempts EXCEPT ![a].lock = @ + 1]
           new == [order |-> issuing[c].order, attempt |-> a, result |-> a]
<1>1. issuing[c].step = "carrying" /\ issuing[c].order.kind = "Unlock"
  BY DEF CarryOutUnlock, InTransaction
<1>2. CASE Undo(c)
  BY <1>2, UndoIInv
<1>3. CASE /\ attempts[a].status = "Terminated" /\ holder = a
           /\ attempts' = passed /\ holder' = 0
           /\ Record(c, a)
           /\ UNCHANGED instance
  <2>1. a = Latest /\ a \in 1 .. Latest /\ On(a, {"Terminate"}) # {}
    BY <1>1, <1>3, SameInstanceIsLatest DEF CommandsIInv, World, TerminatedIsLast
  <2>2. Latest \in Nat /\ Latest >= 1 /\ instance \in Nat /\ DOMAIN attempts = 1 .. Latest
    BY AttemptTypes DEF CommandsIInv, CommandsTypeOK
  <2>3. /\ passed \in Seq(AttemptState) /\ Len(passed) = Latest
        /\ \A b \in 1 .. Latest : passed[b].status = attempts[b].status
    BY <2>1, <2>2, CountedUp
  <2> HIDE DEF passed
  <2>4. /\ attempts' \in Seq(AttemptState) /\ Latest' = Latest
        /\ \A b \in 1 .. Latest : attempts'[b].status = attempts[b].status
    BY <1>3, <2>3 DEF Latest
  <2>5. /\ orders' = orders \cup {new} /\ orders' \subseteq [order : Order, attempt : Nat, result : Nat]
        /\ SenderDone(c)
    BY <1>1, <1>3, <2>1, <2>2, RecordDone
  <2>6. \A o \in orders : o.order.kind # "Unlock"
    BY <1>3, <2>1, <2>2 DEF CommandsIInv, World, OrdersFit
  <2>7. new.order.kind = "Unlock" /\ new.attempt = Latest
    BY <1>1, <2>1
  <2>8. attempts[Latest].status = "Terminated"
    BY <1>3, <2>1
  <2> HIDE DEF new, a
  <2>9. OrdersFit'
    BY <1>3, <2>1, <2>2, <2>4, <2>5, <2>7, <2>8 DEF CommandsIInv, World, OrdersFit
  <2>10. TerminatedIsLast'
    BY <2>4, <2>5 DEF CommandsIInv, World, TerminatedIsLast, On
  <2>11. EndedOnce'
    <3> SUFFICES ASSUME NEW b \in 1 .. Latest
                 PROVE  /\ \A o, p \in On(b, {"Retry", "Terminate"})' : o = p
                        /\ \A o, p \in On(b, {"Unlock"})' : o = p
      BY <2>4 DEF EndedOnce
    <3>1. On(b, {"Unlock"})' \subseteq {new}
      BY <2>5, <2>6 DEF On
    <3>2. On(b, {"Retry", "Terminate"})' = On(b, {"Retry", "Terminate"})
      BY <2>5, <2>7 DEF On
    <3> QED  BY <3>1, <3>2 DEF CommandsIInv, World, EndedOnce
  <2>12. RetriedInTurn'
    BY <2>4, <2>5 DEF CommandsIInv, World, RetriedInTurn, On
  <2>13. World'
    BY <1>3, <2>9, <2>10, <2>11, <2>12 DEF World, LocksOfLatest
  <2>14. instance' \in Nat /\ instance' >= instance
    BY <1>3, <2>2
  <2> QED  BY <2>4, <2>5, <2>13, <2>14, WorldStep
<1> QED  BY <1>2, <1>3 DEF CarryOutUnlock

-----------------------------------------------------------------------------

(* Every step preserves the invariant. *)
LEMMA CommandsNextIInv == CommandsIInv /\ [ExecutionCommandsNext]_commandVars => CommandsIInv'
<1> SUFFICES ASSUME CommandsIInv, [ExecutionCommandsNext]_commandVars PROVE CommandsIInv'
  OBVIOUS
<1>1. CASE StartAttempt \/ CompleteAttempt \/ LoseLocksToOthers
  BY <1>1, StartAttemptIInv, CompleteAttemptIInv, LoseLocksIInv
<1>2. ASSUME NEW c \in Commanders,
             \/ \E what \in {"Retry", "Terminate", "Unlock"}, key \in CommandKeys, selected \in SUBSET Applications :
                  Issue(c, what, key, selected)
             \/ LoadLatest(c) \/ LookUp(c) \/ Fail(c)
      PROVE  CommandsIInv'
  BY <1>2, IssueIInv, LoadLatestIInv, LookUpIInv, FailIInv
<1>3. ASSUME NEW c \in Commanders, CarryOutRetry(c) \/ CarryOutTerminate(c) \/ CarryOutUnlock(c)
      PROVE  CommandsIInv'
  BY <1>3, CarryOutRetryIInv, CarryOutTerminateIInv, CarryOutUnlockIInv
<1>4. CASE UNCHANGED commandVars
  BY <1>4 DEF commandVars, CommandsIInv, CommandsTypeOK, SnapshotsFit, World, OrdersFit, TerminatedIsLast,
              EndedOnce, RetriedInTurn, LocksOfLatest, ToldTheTruth, Answers, On, Latest
<1> QED  BY <1>1, <1>2, <1>3, <1>4 DEF ExecutionCommandsNext

(* The invariant says of every state what CommandsAreExact promises. *)
LEMMA InvariantIsExact == CommandsIInv => CommandsAreExact
<1> SUFFICES ASSUME CommandsIInv PROVE CommandsAreExact
  OBVIOUS
<1>1. ASSUME NEW a \in 1 .. Latest
      PROVE  /\ \A o, p \in On(a, {"Retry", "Terminate"}) : o = p
             /\ \A o, p \in On(a, {"Unlock"}) : o = p /\ On(a, {"Terminate"}) # {}
             /\ a > 1 => \E o \in On(a - 1, {"Retry"}) : o.result = a
  <2>1. \A o, p \in On(a, {"Retry", "Terminate"}) : o = p
    BY DEF CommandsIInv, World, EndedOnce
  <2>2. \A o \in On(a, {"Unlock"}) : attempts[a].status = "Terminated"
    BY DEF CommandsIInv, World, OrdersFit, On
  <2>3. \A o, p \in On(a, {"Unlock"}) : o = p /\ On(a, {"Terminate"}) # {}
    BY <2>2 DEF CommandsIInv, World, EndedOnce, TerminatedIsLast
  <2>4. a > 1 => a \in 2 .. Latest
    BY AttemptTypes
  <2>5. a > 1 => \E o \in On(a - 1, {"Retry"}) : o.result = a
    BY <2>4 DEF CommandsIInv, World, RetriedInTurn
  <2> QED  BY <2>1, <2>3, <2>5
<1>2. holder \in {0, Latest}
  BY DEF CommandsIInv, World, LocksOfLatest
<1>3. ToldTheTruth
  BY DEF CommandsIInv
<1> QED  BY <1>1, <1>2, <1>3 DEF CommandsAreExact, ToldTheTruth, Answers

(* However commands race and are sent again, each attempt is ended by one  *)
(* of them at most, each retry makes one attempt, every acceptance that    *)
(* was told is on record, and locks are never those of an earlier attempt. *)
THEOREM CommandsStayExact == ConsoleSpec => []CommandsAreExact
<1> QED  BY InvariantIsExact, CommandsInitIInv, CommandsNextIInv, ConsoleParts, PTL DEF ConsoleSpec

(* A terminated attempt is the last one: nothing is retried after it.      *)
THEOREM TerminationIsFinal == ConsoleSpec => []TerminatedIsLast
<1>1. CommandsIInv => TerminatedIsLast
  BY DEF CommandsIInv, World
<1> QED  BY <1>1, CommandsInitIInv, CommandsNextIInv, ConsoleParts, PTL DEF ConsoleSpec

-----------------------------------------------------------------------------
(***************************************************************************)
(* A policy that somebody was told of is stored, and the search passes no  *)
(* time at which a job may start, for any documents, windows and blackouts *)
(* and any length of the week and of the search.                           *)
(***************************************************************************)

PolicyRequest == [key : Keys, expected : Nat, document : Documents]

Stored(q) == q.expected + 1 \in DOMAIN policies /\ policies[q.expected + 1] = q.document

(* What is on record was stored as the version after the one it expected. *)
StoredIInv ==
  /\ policies \in Seq(Documents)
  /\ asking \in [Planners -> SUBSET PolicyRequest]
  /\ recorded \in [Planners -> [Keys -> SUBSET PolicyRequest]]
  /\ \A p \in Planners, k \in Keys : \A q \in recorded[p][k] : Stored(q)
  /\ \A t \in told : t.request \in PolicyRequest /\ Stored(t.request) /\ t.answer = t.request.document

(* Nobody was told anything at first. *)
LEMMA SchedulesInitStored == SchedulesInit => StoredIInv
  BY DEF SchedulesInit, StoredIInv

(* A version stays what it is: later ones are appended. *)
LEMMA StoredStays ==
  ASSUME policies \in Seq(Documents), NEW d \in Documents, policies' = Append(policies, d),
         NEW q \in PolicyRequest, Stored(q)
  PROVE  Stored(q)'
  BY DEF PolicyRequest, Stored

(* What answers a request that was stored does not disturb the invariant. *)
LEMMA AnswerStored ==
  ASSUME StoredIInv, NEW p \in Planners, NEW q \in asking[p],
         policies' \in Seq(Documents), recorded' \in [Planners -> [Keys -> SUBSET PolicyRequest]],
         \A r \in PolicyRequest : Stored(r) => Stored(r)',
         \A o \in Planners, k \in Keys : \A r \in recorded'[o][k] : Stored(r)',
         \/ Stored(q)' /\ Answer(p, q, q.document)
         \/ Refuse(p)
  PROVE  StoredIInv'
<1>1. q \in PolicyRequest /\ asking' \in [Planners -> SUBSET PolicyRequest]
  BY DEF StoredIInv, Answer, Refuse
<1>2. \A t \in told' : t.request \in PolicyRequest /\ Stored(t.request)' /\ t.answer = t.request.document
  BY <1>1 DEF StoredIInv, Answer, Refuse
<1> QED  BY <1>1, <1>2 DEF StoredIInv

(* A request that is carried out appends the version that it asked for. *)
LEMMA PutStored ==
  ASSUME StoredIInv, NEW p \in Planners, Put(p)
  PROVE  StoredIInv'
<1>1. PICK q \in asking[p] :
        /\ IF q.expected = Len(policies)
             THEN /\ policies' = Append(policies, q.document)
                  /\ recorded' = [recorded EXCEPT ![p][q.key] = {q}]
                  /\ Answer(p, q, q.document)
             ELSE Refuse(p) /\ UNCHANGED <<policies, recorded>>
  BY DEF Put
<1>2. q \in PolicyRequest
  BY DEF StoredIInv
<1>3. CASE q.expected = Len(policies)
  <2>1. policies' = Append(policies, q.document) /\ recorded' = [recorded EXCEPT ![p][q.key] = {q}]
        /\ Answer(p, q, q.document)
    BY <1>1, <1>3
  <2>2. policies' \in Seq(Documents) /\ Stored(q)'
    BY <2>1, <1>2, <1>3 DEF StoredIInv, Stored, PolicyRequest
  <2>3. \A r \in PolicyRequest : Stored(r) => Stored(r)'
    BY <2>1, <1>2, StoredStays DEF StoredIInv, PolicyRequest
  <2>4. recorded' \in [Planners -> [Keys -> SUBSET PolicyRequest]]
    BY <2>1, <1>2 DEF StoredIInv, PolicyRequest
  <2>5. \A o \in Planners, k \in Keys : recorded'[o][k] \subseteq recorded[o][k] \cup {q}
    BY <2>1, <1>2 DEF StoredIInv, PolicyRequest
  <2>6. \A o \in Planners, k \in Keys : \A r \in recorded'[o][k] : Stored(r)'
    BY <2>2, <2>3, <2>5 DEF StoredIInv
  <2> QED  BY <2>1, <2>2, <2>3, <2>4, <2>6, AnswerStored
<1>4. CASE q.expected # Len(policies)
  BY <1>1, <1>4, AnswerStored DEF StoredIInv, Stored
<1> QED  BY <1>3, <1>4

(* A request that is sent again is answered from the record of itself. *)
LEMMA ReplayStored ==
  ASSUME StoredIInv, NEW p \in Planners, Replay(p)
  PROVE  StoredIInv'
<1>1. PICK q \in asking[p] : \E r \in recorded[p][q.key] :
        (IF SameCommand(q, r) THEN Answer(p, q, r.document) ELSE Refuse(p)) /\ UNCHANGED <<policies, recorded>>
  BY DEF Replay
<1>2. q.key \in Keys
  BY DEF StoredIInv, PolicyRequest
<1>3. (Stored(q) /\ Answer(p, q, q.document)) \/ Refuse(p)
  BY <1>1, <1>2 DEF StoredIInv, SameCommand
<1> QED  BY <1>1, <1>3, AnswerStored DEF StoredIInv, Stored

(* No step of the schedules disturbs it. *)
LEMMA SchedulesNextStored == StoredIInv /\ [SchedulesNext]_scheduleVars => StoredIInv'
<1> SUFFICES ASSUME StoredIInv, [SchedulesNext]_scheduleVars PROVE StoredIInv'
  OBVIOUS
<1>1. ASSUME NEW p \in Planners, Ask(p) PROVE StoredIInv'
  <2>1. \A k \in Keys, v \in 0 .. Len(policies), d \in Documents :
          [key |-> k, expected |-> v, document |-> d] \in PolicyRequest
    BY DEF PolicyRequest, StoredIInv
  <2> QED  BY <1>1, <2>1 DEF Ask, StoredIInv, Stored
<1>2. ASSUME NEW p \in Planners, Put(p) PROVE StoredIInv'
  BY <1>2, PutStored
<1>3. ASSUME NEW p \in Planners, Replay(p) PROVE StoredIInv'
  BY <1>3, ReplayStored
<1>4. ASSUME NEW p \in Planners, GiveUp(p) PROVE StoredIInv'
  BY <1>4 DEF GiveUp, Refuse, StoredIInv, Stored
<1>5. CASE UNCHANGED putVars
  BY <1>5 DEF putVars, StoredIInv, Stored
<1>6. LeaveBlackout \/ LookAtMinute \/ ReachLimit \/ UNCHANGED scheduleVars => UNCHANGED putVars
  BY DEF LeaveBlackout, LookAtMinute, ReachLimit, scheduleVars, putVars
<1> QED  BY <1>1, <1>2, <1>3, <1>4, <1>5, <1>6 DEF SchedulesNext

(* Whoever is told that a policy was stored finds it as the next version,  *)
(* though other planners stored policies and answers were lost.            *)
THEOREM StoredIsTold == ConsoleSpec => []AcceptedWasStored
<1>1. StoredIInv => AcceptedWasStored
  BY DEF StoredIInv, Stored, AcceptedWasStored
<1> QED  BY <1>1, SchedulesInitStored, SchedulesNextStored, ConsoleParts, PTL DEF ConsoleSpec

-----------------------------------------------------------------------------
(* The search *)

(* From the first full minute on, nothing that the search has passed is allowed. *)
SearchIInv ==
  /\ question \in Questions
  /\ cursor \in Nat /\ cursor >= Candidate
  /\ verdict \in {"searching", "found", "unavailable"}
  /\ verdict = "found" => Allows(cursor)
  /\ verdict = "unavailable" => cursor > Limit
  /\ \A t \in CeilToMinute(Candidate) .. cursor - 1 : ~Allows(t)

(* The times of a question are natural numbers. *)
LEMMA QuestionTypes ==
  ASSUME question \in Questions
  PROVE  /\ Candidate \in Nat /\ CeilToMinute(Candidate) \in Nat /\ CeilToMinute(Candidate) >= Candidate
         /\ SearchLimit \in Nat
         /\ \A b \in question.blackouts : b.from \in Nat /\ b.to \in Nat
<1>1. Candidate \in Nat
  BY SchedulesAssumption DEF Candidate
<1> QED  BY <1>1, SchedulesAssumption DEF CeilToMinute, AtMinute, Minute

(* Between a time and the next minute the windows are the same. *)
LEMMA SameMinute ==
  ASSUME NEW c \in Nat, NEW t \in c .. NextMinute(c) - 1
  PROVE  Minute(t) = Minute(c) /\ NextMinute(c) \in Nat /\ NextMinute(c) > c
  BY DEF NextMinute, AtMinute, CeilToMinute, Minute

(* The search begins at the first full minute, or has found its answer. *)
LEMMA SchedulesInitSearch == SchedulesInit => SearchIInv
<1> SUFFICES ASSUME SchedulesInit PROVE SearchIInv
  OBVIOUS
<1>1. question \in Questions
  BY DEF SchedulesInit
<1> QED  BY <1>1, QuestionTypes DEF SchedulesInit, SearchIInv

(* Every step of the search passes what is not allowed. *)
LEMMA SchedulesNextSearch == SearchIInv /\ [SchedulesNext]_scheduleVars => SearchIInv'
<1> SUFFICES ASSUME SearchIInv, [SchedulesNext]_scheduleVars PROVE SearchIInv'
  OBVIOUS
<1>0. CASE UNCHANGED searchVars
  BY <1>0 DEF SearchIInv, searchVars, Candidate, Allows, InWindow, BlackoutsAt, Limit
<1>1. ASSUME question' = question
      PROVE  /\ Candidate' = Candidate /\ CeilToMinute(Candidate)' = CeilToMinute(Candidate) /\ Limit' = Limit
             /\ \A t \in Int : Allows(t)' = Allows(t)
  BY <1>1 DEF Candidate, Limit, Allows, InWindow, BlackoutsAt, CeilToMinute
<1>2. CASE LeaveBlackout
  <2>1. PICK b \in BlackoutsAt(cursor) : cursor' = b.to /\ question' = question /\ verdict' = verdict
    BY <1>2 DEF LeaveBlackout
  <2>2. b \in question.blackouts /\ b.from \in Nat /\ b.to \in Nat /\ b.from <= cursor /\ cursor < b.to
    BY QuestionTypes DEF BlackoutsAt, SearchIInv
  <2>3. \A t \in cursor .. b.to - 1 : b \in BlackoutsAt(t)
    BY <2>2 DEF BlackoutsAt, SearchIInv
  <2>4. \A t \in CeilToMinute(Candidate) .. cursor' - 1 : ~Allows(t)
    BY <2>1, <2>2, <2>3, QuestionTypes DEF Allows, SearchIInv
  <2>5. verdict = "searching"
    BY <1>2 DEF LeaveBlackout
  <2> QED  BY <1>1, <2>1, <2>2, <2>4, <2>5, QuestionTypes DEF SearchIInv
<1>3. CASE LookAtMinute
  <2>1. question' = question /\ BlackoutsAt(cursor) = {} /\ verdict = "searching"
    BY <1>3 DEF LookAtMinute
  <2>2. CASE InWindow(cursor)
    <3>1. verdict' = "found" /\ cursor' = cursor /\ Allows(cursor)
      BY <1>3, <2>1, <2>2 DEF LookAtMinute, Allows
    <3> QED  BY <1>1, <2>1, <3>1, QuestionTypes DEF SearchIInv
  <2>3. CASE ~InWindow(cursor)
    <3>1. cursor' = NextMinute(cursor) /\ verdict' = verdict
      BY <1>3, <2>3 DEF LookAtMinute
    <3>2. \A t \in cursor .. NextMinute(cursor) - 1 : ~Allows(t)
      BY <2>3, SameMinute DEF SearchIInv, Allows, InWindow
    <3>3. NextMinute(cursor) \in Nat /\ NextMinute(cursor) > cursor
      BY DEF SearchIInv, NextMinute, AtMinute, CeilToMinute, Minute
    <3>4. \A t \in CeilToMinute(Candidate) .. cursor' - 1 : ~Allows(t)
      BY <3>1, <3>2, <3>3, QuestionTypes DEF SearchIInv
    <3> QED  BY <1>1, <2>1, <3>1, <3>3, <3>4, QuestionTypes DEF SearchIInv
  <2> QED  BY <2>2, <2>3
<1>4. CASE ReachLimit
  BY <1>1, <1>4, QuestionTypes DEF SearchIInv, ReachLimit
<1>5. ASSUME NEW p \in Planners, Ask(p) \/ Put(p) \/ Replay(p) \/ GiveUp(p) PROVE UNCHANGED searchVars
  BY <1>5 DEF Ask, Put, Replay, GiveUp, searchVars
<1> QED  BY <1>0, <1>2, <1>3, <1>4, <1>5 DEF SchedulesNext, scheduleVars, searchVars

(* A time that the search returns is allowed, and from the first full      *)
(* minute on there is no earlier one, nor one at all when it gives up.     *)
THEOREM SearchFindsTheFirst == ConsoleSpec => []FirstAllowedMinute
<1>1. ASSUME SearchIInv PROVE FirstAllowedMinute
  <2>1. cursor \in Nat /\ Limit \in Int /\ CeilToMinute(Candidate) \in Nat
    BY <1>1, QuestionTypes DEF SearchIInv, Limit
  <2> QED  BY <1>1, <2>1 DEF SearchIInv, FirstAllowedMinute
<1> QED  BY <1>1, SchedulesInitSearch, SchedulesNextSearch, ConsoleParts, PTL DEF ConsoleSpec

-----------------------------------------------------------------------------
(***************************************************************************)
(* What the audit trail discloses was allowed, for any tree of scopes, any *)
(* events, grants and denials, and any number of changes to them: a scope  *)
(* that hides an event lies above the root, where the decision saw it, or  *)
(* below it, where the query leaves out what it hides.                     *)
(***************************************************************************)

(* One path leads through another. *)
LEMMA PrefixFacts ==
  ASSUME NEW s \in Scopes, NEW t \in Scopes
  PROVE  /\ IsPrefix(s, t) <=> Len(s) <= Len(t) /\ \A i \in 1 .. Len(s) : s[i] = t[i]
         /\ Len(s) \in Nat /\ Len(t) \in Nat
         /\ Len(t) = 0 => t = <<>>
<1>1. s \in Seq(Range(s)) /\ t \in Seq(Range(t))
  BY AuditTrailAssumption
<1> HIDE DEF Range
<1>2. Len(s) \in Nat /\ Len(t) \in Nat /\ (Len(t) = 0 => t = <<>>)
  BY <1>1
<1>3. ASSUME Len(s) <= Len(t)
      PROVE  SubSeq(s, 1, Len(s)) = SubSeq(t, 1, Len(s)) <=> \A i \in 1 .. Len(s) : s[i] = t[i]
  <2>1. SubSeq(s, 1, Len(s)) = [i \in 1 .. Len(s) |-> s[i]]
    BY <1>1, <1>2
  <2>2. SubSeq(t, 1, Len(s)) = [i \in 1 .. Len(s) |-> t[i]]
    BY <1>1, <1>2, <1>3
  <2> QED  BY <2>1, <2>2
<1> QED  BY <1>2, <1>3 DEF IsPrefix

(* Only the platform covers the platform, and covers nothing else. *)
LEMMA PlatformIsBeside ==
  ASSUME NEW s \in Scopes, NEW t \in Scopes, Covers(s, t)
  PROVE  s = <<>> <=> t = <<>>
<1>1. <<>> \in Scopes /\ Len(<<>>) = 0
  BY AuditTrailAssumption
<1>2. CASE t = <<>> /\ s # <<>>
  <2>1. Len(s) <= 0
    BY <1>2, PrefixFacts DEF Covers
  <2> QED  BY <2>1, <1>1, <1>2, PrefixFacts
<1> QED  BY <1>2 DEF Covers

(* What covers a scope covers what that scope covers. *)
LEMMA CoversThrough ==
  ASSUME NEW r \in Scopes, NEW s \in Scopes, NEW t \in Scopes, Covers(r, s), Covers(s, t)
  PROVE  Covers(r, t)
<1>1. CASE s = <<>>
  BY <1>1, PlatformIsBeside DEF Covers
<1>2. CASE s # <<>>
  <2>1. r # <<>> /\ t # <<>>
    BY <1>2, PlatformIsBeside
  <2>2. IsPrefix(r, s) /\ IsPrefix(s, t)
    BY <1>2, <2>1 DEF Covers
  <2>3. Len(r) <= Len(t) /\ \A i \in 1 .. Len(r) : r[i] = t[i]
    BY <2>2, PrefixFacts
  <2> QED  BY <2>1, <2>3, PrefixFacts DEF Covers
<1> QED  BY <1>1, <1>2

(* Of two scopes that cover a third one covers the other. *)
LEMMA CoversCompare ==
  ASSUME NEW r \in Scopes, NEW s \in Scopes, NEW t \in Scopes, Covers(r, t), Covers(s, t)
  PROVE  Covers(r, s) \/ Covers(s, r)
<1>1. CASE t = <<>>
  BY <1>1, PlatformIsBeside DEF Covers
<1>2. CASE t # <<>>
  <2>1. r # <<>> /\ s # <<>> /\ IsPrefix(r, t) /\ IsPrefix(s, t)
    BY <1>2, PlatformIsBeside DEF Covers
  <2>2. CASE Len(r) <= Len(s)
    BY <2>1, <2>2, PrefixFacts DEF Covers
  <2>3. CASE Len(s) <= Len(r)
    BY <2>1, <2>3, PrefixFacts DEF Covers
  <2> QED  BY <2>2, <2>3, PrefixFacts
<1> QED  BY <1>1, <1>2

AuditSteps == {"none", "locating", "authorizing", "resolving", "reading", "rooting", "listing", "filtering", "answered"}

Denials == SUBSET (Scopes \ {<<>>})

AuditTypeOK ==
  /\ granted \in SUBSET Scopes /\ denied \in Denials /\ changes \in Nat
  /\ cache \in [granted : SUBSET Scopes, denied : Denials, revision : Nat, asOf : Nat]
  /\ request \in [step : AuditSteps, kind : {"list", "detail", "roots"}, root : Scopes,
                  event : Scopes \cup {Unresolved}, fresh : {"unknown", "yes", "no"}, hidden : SUBSET Scopes,
                  shown : SUBSET (Scopes \cup {Unresolved}), since : Nat, held : SUBSET Scopes,
                  stood : Denials, torn : BOOLEAN]

(* The rules of the process are those of a revision; once a request has    *)
(* found them fresh enough they are of its time, unless they are torn.     *)
PolicyIInv ==
  /\ cache.asOf <= changes /\ cache.revision <= changes /\ request.since <= changes
  /\ cache.asOf = changes => cache.granted = granted /\ cache.denied = denied
  /\ request.step # "none" =>
       /\ granted \subseteq request.held /\ request.stood \subseteq denied
       /\ request.since <= cache.asOf => cache.granted \subseteq request.held /\ request.stood \subseteq cache.denied
       /\ request.fresh = "yes" => request.since <= cache.revision

(* A grant on the scope was held, and no denial of it stood. *)
WasAllowed(s) == (request.torn \/ Covered(request.held, s)) /\ ~Covered(Standing, s)

(* What a request has shown that it may, at each step. *)
RequestIInv ==
  /\ request.step = "locating" => request.kind = "detail" /\ request.root = <<>>
  /\ request.step \in {"rooting", "listing", "filtering"} => request.kind = "roots"
  /\ request.step \in {"authorizing", "resolving", "reading"} => request.kind # "roots"
  /\ request.kind = "roots" => request.root = <<>>
  /\ request.step = "rooting" => request.shown = {}
  /\ request.step \in {"resolving", "reading"} => request.torn \/ WasAllowed(request.root)
  /\ request.step = "reading" /\ request.root # <<>> =>
       \A d \in request.stood : Covers(request.root, d) => d \in request.hidden
  /\ request.kind = "roots" => \A s \in request.shown : s # Unresolved /\ WasAllowed(s)

AuditIInv == AuditTypeOK /\ PolicyIInv /\ RequestIInv /\ DisclosedWasAllowed

(* The decision on rules that were found fresh is one of the time of the   *)
(* request, unless they are torn.                                          *)
LEMMA AllowedWas ==
  ASSUME AuditTypeOK, PolicyIInv, request.step # "none", request.fresh = "yes", ~Torn, ~request.torn,
         NEW s \in Scopes, Allowed(s)
  PROVE  WasAllowed(s)
<1>1. /\ request.since \in Nat /\ cache.asOf \in Nat /\ cache.revision \in Nat
      /\ request.since <= cache.revision /\ cache.revision <= cache.asOf
  BY DEF AuditTypeOK, PolicyIInv, Torn
<1>2. cache.granted \subseteq request.held /\ request.stood \subseteq cache.denied
  BY <1>1 DEF PolicyIInv
<1> QED  BY <1>2 DEF Allowed, WasAllowed, Standing, Covered

(* Only a grant on the platform lets in there. *)
LEMMA PlatformGrant ==
  ASSUME NEW rules \in SUBSET Scopes, Covered(rules, <<>>)
  PROVE  <<>> \in rules
  BY PlatformIsBeside, AuditTrailAssumption DEF Covered

(* The query shows what was allowed, when its root was and its denials are at hand. *)
LEMMA VisibleWasAllowed ==
  ASSUME AuditIInv, request.step = "reading", request.root # <<>>,
         NEW e \in Visible(request.root, request.hidden)
  PROVE  e \in Scopes /\ e # Unresolved /\ WasAllowed(e)
<1> DEFINE root == request.root
<1>1. root \in Scopes /\ request.held \subseteq Scopes /\ request.stood \subseteq Scopes /\ Standing \subseteq request.stood
      /\ (~request.torn => WasAllowed(root))
  BY DEF AuditIInv, AuditTypeOK, RequestIInv, Denials, Standing
<1>2. e \in Scopes /\ e # Unresolved /\ Covers(root, e) /\ ~Covered(request.hidden, e)
  BY AuditTrailAssumption DEF Visible
<1>3. ASSUME ~request.torn PROVE Covered(request.held, e)
  <2>1. PICK g \in request.held : Covers(g, root)
    BY <1>1, <1>3 DEF WasAllowed, Covered
  <2> QED  BY <1>1, <1>2, <2>1, CoversThrough DEF Covered
<1>4. ASSUME NEW d \in Standing, Covers(d, e) PROVE FALSE
  <2>1. Covers(root, d)
    <3>1. CASE request.torn
      BY <1>4, <3>1 DEF Standing
    <3>2. CASE ~request.torn
      <4>1. ~Covers(d, root)
        BY <1>1, <1>4, <3>2 DEF WasAllowed, Covered
      <4> QED  BY <1>1, <1>2, <1>4, <4>1, CoversCompare
    <3> QED  BY <3>1, <3>2
  <2>2. d \in request.hidden
    BY <1>1, <1>4, <2>1 DEF AuditIInv, RequestIInv
  <2> QED  BY <1>2, <1>4, <2>2 DEF Covered
<1> QED  BY <1>2, <1>3, <1>4 DEF WasAllowed, Covered

(* No request at first, and the rules of the tables. *)
LEMMA AuditInitIInv == AuditTrailInit => AuditIInv
<1> SUFFICES ASSUME AuditTrailInit PROVE AuditIInv
  OBVIOUS
<1>1. AuditTypeOK /\ PolicyIInv
  BY AuditTrailAssumption DEF AuditTrailInit, AuditTypeOK, Denials, AuditSteps, PolicyIInv, NoRequest
<1>2. RequestIInv /\ DisclosedWasAllowed
  BY DEF AuditTrailInit, RequestIInv, NoRequest, DisclosedWasAllowed
<1> QED  BY <1>1, <1>2 DEF AuditIInv

(* When there is no request there is nothing to show. *)
LEMMA NoRequestIInv ==
  ASSUME AuditIInv, request' = NoRequest, UNCHANGED <<tables, cache>>
  PROVE  AuditIInv'
<1>1. AuditTypeOK'
  BY AuditTrailAssumption DEF AuditIInv, AuditTypeOK, Denials, AuditSteps, NoRequest, tables
<1>2. PolicyIInv'
  BY DEF AuditIInv, AuditTypeOK, PolicyIInv, NoRequest, tables
<1>3. RequestIInv' /\ DisclosedWasAllowed'
  BY DEF RequestIInv, NoRequest, DisclosedWasAllowed
<1> QED  BY <1>1, <1>2, <1>3 DEF AuditIInv

(* What was shown stays right when more was held and less stood. *)
LEMMA ShownStays ==
  ASSUME RequestIInv, DisclosedWasAllowed,
         request'.step = request.step, request'.kind = request.kind, request'.root = request.root,
         request'.hidden = request.hidden, request'.shown = request.shown, request'.torn = request.torn,
         request.held \subseteq request'.held, request'.stood \subseteq request.stood
  PROVE  RequestIInv' /\ DisclosedWasAllowed'
<1>1. Standing' \subseteq Standing
  BY DEF Standing
<1>2. ASSUME NEW s, WasAllowed(s) PROVE WasAllowed(s)'
  BY <1>1, <1>2 DEF WasAllowed, Covered
<1>3. RequestIInv'
  BY <1>2 DEF RequestIInv
<1>4. DisclosedWasAllowed'
  BY <1>1 DEF DisclosedWasAllowed, Covered
<1> QED  BY <1>3, <1>4

(* What the administrator changes makes more held and less stand; the      *)
(* process knows nothing of it yet.                                        *)
LEMMA ChangeIInv ==
  ASSUME AuditIInv, ChangeGrants \/ ChangeDenials
  PROVE  AuditIInv'
<1>1. /\ request'.step = request.step /\ request'.kind = request.kind /\ request'.root = request.root
      /\ request'.hidden = request.hidden /\ request'.shown = request.shown /\ request'.torn = request.torn
      /\ request'.fresh = request.fresh /\ request'.since = request.since
      /\ request.held \subseteq request'.held /\ request'.stood \subseteq request.stood
      /\ request.step # "none" => granted' \subseteq request'.held /\ request'.stood \subseteq denied'
      /\ changes' = changes + 1 /\ cache' = cache
      /\ AuditTypeOK'
  <2>1. CASE ChangeGrants
    BY <2>1 DEF ChangeGrants, AuditIInv, AuditTypeOK, PolicyIInv, Denials, policy
  <2>2. CASE ChangeDenials
    BY <2>2 DEF ChangeDenials, AuditIInv, AuditTypeOK, PolicyIInv, Denials, policy
  <2> QED  BY <2>1, <2>2
<1>2. changes \in Nat /\ cache.asOf \in Nat /\ cache.revision \in Nat /\ request.since \in Nat
  BY DEF AuditIInv, AuditTypeOK
<1>3. PolicyIInv'
  BY <1>1, <1>2 DEF AuditIInv, PolicyIInv
<1>4. RequestIInv' /\ DisclosedWasAllowed'
  BY <1>1, ShownStays DEF AuditIInv
<1> QED  BY <1>1, <1>3, <1>4 DEF AuditIInv

(* Rules that are loaded are those of the tables; a revision that is read  *)
(* is no earlier than the request.                                         *)
LEMMA PolicyStepIInv ==
  ASSUME AuditIInv, AskRevision \/ Reload \/ Reloaded \/ OthersReload \/ OthersReloaded \/ OthersFail
  PROVE  AuditIInv'
<1>0. /\ AuditTypeOK /\ PolicyIInv
      /\ changes \in Nat /\ cache.asOf \in Nat /\ cache.revision \in Nat /\ request.since \in Nat
      /\ cache \in [granted : SUBSET Scopes, denied : Denials, revision : Nat, asOf : Nat]
  BY DEF AuditIInv, AuditTypeOK
<1>1. /\ UNCHANGED tables
      /\ \/ request' = request
         \/ request' = [request EXCEPT !.fresh = "yes"]
         \/ request' = [request EXCEPT !.fresh = "no"]
  BY DEF AskRevision, Reload, Reloaded, OthersReload, OthersReloaded, OthersFail, LoadRules, StampRevision, policy
<1>2. /\ request'.step = request.step /\ request'.kind = request.kind /\ request'.root = request.root
      /\ request'.hidden = request.hidden /\ request'.shown = request.shown /\ request'.torn = request.torn
      /\ request'.since = request.since /\ request'.held = request.held /\ request'.stood = request.stood
      /\ request' \in [step : AuditSteps, kind : {"list", "detail", "roots"}, root : Scopes,
                       event : Scopes \cup {Unresolved}, fresh : {"unknown", "yes", "no"}, hidden : SUBSET Scopes,
                       shown : SUBSET (Scopes \cup {Unresolved}), since : Nat, held : SUBSET Scopes,
                       stood : Denials, torn : BOOLEAN]
  BY <1>0, <1>1 DEF AuditTypeOK
<1>3. RequestIInv' /\ DisclosedWasAllowed'
  BY <1>2, ShownStays DEF AuditIInv
<1>4. CASE cache' = cache
  <2>1. request'.fresh = "yes" => request.fresh = "yes" \/ changes <= cache.revision
                                  \/ cache'.revision = changes
    BY <1>0, <1>4 DEF AskRevision, Reload, Reloaded, OthersReload, OthersReloaded, OthersFail, LoadRules, StampRevision,
                      AuditTypeOK
  <2>2. AuditTypeOK'
    BY <1>0, <1>1, <1>2, <1>4 DEF AuditTypeOK, tables
  <2>3. PolicyIInv'
    BY <1>0, <1>1, <1>2, <1>4, <2>1 DEF PolicyIInv, tables
  <2> QED  BY <1>3, <2>2, <2>3 DEF AuditIInv
<1>5. CASE cache' = [cache EXCEPT !.granted = granted, !.denied = denied, !.asOf = changes] /\ request' = request
  <2>1. /\ cache'.granted = granted /\ cache'.denied = denied /\ cache'.asOf = changes
        /\ cache'.revision = cache.revision
        /\ cache' \in [granted : SUBSET Scopes, denied : Denials, revision : Nat, asOf : Nat]
    BY <1>0, <1>5 DEF AuditTypeOK
  <2>2. AuditTypeOK'
    BY <1>0, <1>1, <1>2, <2>1 DEF AuditTypeOK, tables
  <2>3. PolicyIInv'
    BY <1>0, <1>1, <1>5, <2>1 DEF PolicyIInv, tables
  <2> QED  BY <1>3, <2>2, <2>3 DEF AuditIInv
<1>6. CASE cache' = [cache EXCEPT !.revision = changes]
  <2>1. /\ cache'.granted = cache.granted /\ cache'.denied = cache.denied /\ cache'.asOf = cache.asOf
        /\ cache'.revision = changes
        /\ cache' \in [granted : SUBSET Scopes, denied : Denials, revision : Nat, asOf : Nat]
    BY <1>0, <1>6
  <2>2. AuditTypeOK'
    BY <1>0, <1>1, <1>2, <2>1 DEF AuditTypeOK, tables
  <2>3. PolicyIInv'
    BY <1>0, <1>1, <1>2, <2>1 DEF PolicyIInv, tables
  <2> QED  BY <1>3, <2>2, <2>3 DEF AuditIInv
<1> QED  BY <1>4, <1>5, <1>6
         DEF AskRevision, Reload, Reloaded, OthersReload, OthersReloaded, OthersFail, LoadRules, StampRevision, policy

(* A request begins with the rules of the tables. *)
LEMMA BeginIInv ==
  ASSUME AuditIInv, NEW what \in {"list", "detail", "roots"}, NEW step \in {"locating", "authorizing", "rooting"},
         NEW root \in Scopes, NEW event \in Scopes \cup {Unresolved},
         <<what, step>> \in {<<"list", "authorizing">>, <<"detail", "locating">>, <<"roots", "rooting">>},
         step # "authorizing" => root = <<>>,
         BeginRequest(what, step, root, event)
  PROVE  AuditIInv'
<1>1. request' = [step |-> step, kind |-> what, root |-> root, event |-> event, fresh |-> "unknown",
                  hidden |-> {}, shown |-> {}, since |-> changes, held |-> granted, stood |-> denied, torn |-> FALSE]
      /\ UNCHANGED <<granted, denied, changes, cache>>
  BY DEF BeginRequest, NoRequest, tables, policy
<1>2. AuditTypeOK' /\ PolicyIInv'
  BY <1>1 DEF AuditIInv, AuditTypeOK, AuditSteps, PolicyIInv
<1>3. RequestIInv' /\ DisclosedWasAllowed'
  BY <1>1 DEF RequestIInv, DisclosedWasAllowed
<1> QED  BY <1>2, <1>3 DEF AuditIInv

(* The request goes on with what it knows of the policy. *)
Proceeds ==
  /\ request.step # "none" /\ UNCHANGED <<tables, cache>>
  /\ request'.since = request.since /\ request'.held = request.held /\ request'.stood = request.stood
  /\ request'.fresh = request.fresh \/ request'.fresh = "unknown"

(* Then the policy stays right. *)
LEMMA ProceedsIInv ==
  ASSUME PolicyIInv, Proceeds
  PROVE  PolicyIInv'
  BY DEF PolicyIInv, Proceeds, tables

(* What a decision leaves of the request; who is let in was allowed,       *)
(* unless the rules are torn.                                              *)
LEMMA DecisionFacts ==
  ASSUME AuditIInv, request.step # "none", NEW step, MayDecide(step), NEW s \in Scopes
  PROVE  /\ LetIn \in [step : AuditSteps, kind : {"list", "detail", "roots"}, root : Scopes,
                       event : Scopes \cup {Unresolved}, fresh : {"unknown", "yes", "no"}, hidden : SUBSET Scopes,
                       shown : SUBSET (Scopes \cup {Unresolved}), since : Nat, held : SUBSET Scopes,
                       stood : Denials, torn : BOOLEAN]
         /\ LetIn = [request EXCEPT !.fresh = "unknown", !.torn = LetIn.torn]
         /\ request.torn => LetIn.torn
         /\ Allowed(s) /\ ~LetIn.torn => WasAllowed(s)
<1>1. request \in [step : AuditSteps, kind : {"list", "detail", "roots"}, root : Scopes,
                   event : Scopes \cup {Unresolved}, fresh : {"unknown", "yes", "no"}, hidden : SUBSET Scopes,
                   shown : SUBSET (Scopes \cup {Unresolved}), since : Nat, held : SUBSET Scopes,
                   stood : Denials, torn : BOOLEAN]
      /\ Torn \in BOOLEAN
  BY DEF AuditIInv, AuditTypeOK, Torn
<1>2. LetIn.torn = (request.torn \/ Torn)
  BY <1>1 DEF LetIn
<1>3. LetIn = [request EXCEPT !.fresh = "unknown", !.torn = request.torn \/ Torn]
  BY DEF LetIn
<1>4. (request.torn \/ Torn) \in BOOLEAN
  BY <1>1
<1>5. Allowed(s) /\ ~LetIn.torn => WasAllowed(s)
  BY <1>2, AllowedWas DEF AuditIInv, MayDecide
<1> QED  BY <1>1, <1>2, <1>3, <1>4, <1>5

(* A target that is let in was allowed; an event that is not the           *)
(* platform's is looked for at its own scope.                              *)
LEMMA ResolvingIInv ==
  ASSUME AuditIInv, NEW root \in Scopes, request.step \in {"locating", "authorizing"}, request.kind # "roots",
         root = request.root, MayDecide(request.step), Allowed(root),
         request' = [LetIn EXCEPT !.step = "resolving"], UNCHANGED <<tables, policy>>
  PROVE  AuditIInv'
<1>1. /\ request'.step = "resolving" /\ request'.kind = request.kind /\ request'.root = root
      /\ request'.hidden = request.hidden /\ request'.shown = request.shown
      /\ request'.held = request.held /\ request'.stood = request.stood /\ request'.since = request.since
      /\ request'.fresh = "unknown" /\ request'.torn = LetIn.torn
      /\ AuditTypeOK'
  BY DecisionFacts DEF AuditIInv, AuditTypeOK, AuditSteps, tables, policy
<1>2. PolicyIInv'
  BY <1>1, ProceedsIInv DEF AuditIInv, Proceeds, policy
<1>3. ~request'.torn => WasAllowed(root)'
  <2>1. ~request'.torn => WasAllowed(root) /\ ~request.torn
    BY <1>1, DecisionFacts
  <2> QED  BY <1>1, <2>1 DEF WasAllowed, Standing
<1>4. RequestIInv' /\ DisclosedWasAllowed'
  BY <1>1, <1>3 DEF AuditIInv, RequestIInv, DisclosedWasAllowed
<1> QED  BY <1>1, <1>2, <1>4 DEF AuditIInv

(* The decision on an event or on a root. *)
LEMMA ChooseTargetIInv ==
  ASSUME AuditIInv, ChooseTarget \/ AuthorizeRoot
  PROVE  AuditIInv'
<1>1. request.root \in Scopes /\ request.event \in Scopes \cup {Unresolved}
  BY DEF AuditIInv, AuditTypeOK
<1>2. CASE TurnDown
  BY <1>2, NoRequestIInv DEF TurnDown, policy
<1>3. CASE ChooseTarget /\ Allowed(<<>>)
  <2>1. request.step = "locating" /\ request.root = <<>> /\ request.kind = "detail" /\ MayDecide("locating")
        /\ request' = [LetIn EXCEPT !.step = "resolving"] /\ UNCHANGED <<tables, policy>>
    BY <1>3 DEF ChooseTarget, MayDecide, AuditIInv, RequestIInv
  <2> QED  BY <1>1, <1>3, <2>1, ResolvingIInv
<1>4. CASE AuthorizeRoot /\ Allowed(request.root)
  <2>1. request.step = "authorizing" /\ request.kind # "roots" /\ MayDecide("authorizing")
        /\ request' = [LetIn EXCEPT !.step = "resolving"] /\ UNCHANGED <<tables, policy>>
    BY <1>4 DEF AuthorizeRoot, MayDecide, AuditIInv, RequestIInv
  <2> QED  BY <1>1, <1>4, <2>1, ResolvingIInv
<1>5. CASE ChooseTarget /\ ~Allowed(<<>>) /\ request.event \notin {Unresolved, <<>>}
  <2>1. /\ request' = [NotLetIn EXCEPT !.step = "authorizing", !.root = request.event]
        /\ UNCHANGED <<granted, denied, changes, cache>> /\ request.kind = "detail" /\ request.step = "locating"
    BY <1>5 DEF ChooseTarget, MayDecide, tables, policy
  <2>2. /\ request'.step = "authorizing" /\ request'.kind = "detail" /\ request'.root = request.event
        /\ request'.held = request.held /\ request'.stood = request.stood /\ request'.since = request.since
        /\ request'.fresh = "unknown" /\ AuditTypeOK'
    BY <1>1, <1>5, <2>1 DEF AuditIInv, AuditTypeOK, AuditSteps, NotLetIn
  <2>3. PolicyIInv'
    BY <2>1, <2>2, ProceedsIInv DEF AuditIInv, Proceeds, tables
  <2> QED  BY <2>2, <2>3 DEF AuditIInv, RequestIInv, DisclosedWasAllowed
<1> QED  BY <1>2, <1>3, <1>4, <1>5 DEF ChooseTarget, AuthorizeRoot

(* The denials below the root hold all of those that stand and are below it. *)
LEMMA ResolveDenialsIInv ==
  ASSUME AuditIInv, ResolveDenials
  PROVE  AuditIInv'
<1>1. request' = [request EXCEPT !.step = "reading", !.hidden = IF request.root = <<>> THEN {} ELSE BelowRoot(request.root)]
      /\ UNCHANGED <<granted, denied, changes, cache>> /\ request.step = "resolving"
  BY DEF ResolveDenials, tables, policy
<1>2. BelowRoot(request.root) \subseteq Scopes
  BY DEF AuditIInv, AuditTypeOK, BelowRoot, Denials
<1>3. \A d \in request.stood : Covers(request.root, d) => d \in BelowRoot(request.root)
  BY <1>1 DEF AuditIInv, PolicyIInv, BelowRoot
<1>4. /\ request'.step = "reading" /\ request'.kind = request.kind /\ request'.root = request.root
      /\ request'.shown = request.shown /\ request'.torn = request.torn /\ request'.fresh = request.fresh
      /\ request'.held = request.held /\ request'.stood = request.stood /\ request'.since = request.since
      /\ (request.root # <<>> => request'.hidden = BelowRoot(request.root))
      /\ AuditTypeOK'
  BY <1>1, <1>2 DEF AuditIInv, AuditTypeOK, AuditSteps
<1>5. PolicyIInv'
  BY <1>1, <1>4, ProceedsIInv DEF AuditIInv, Proceeds, tables
<1>6. ~request.torn => WasAllowed(request.root)'
  BY <1>1, <1>4 DEF AuditIInv, RequestIInv, WasAllowed, Standing
<1> QED  BY <1>1, <1>3, <1>4, <1>5, <1>6 DEF AuditIInv, RequestIInv, DisclosedWasAllowed

(* Events that were allowed are disclosed, or all of them from the platform. *)
LEMMA DiscloseIInv ==
  ASSUME AuditIInv, request.step # "none", NEW events \in SUBSET (Scopes \cup {Unresolved}), Disclose(events),
         request.kind # "roots" /\ request.root = <<>> => request.torn \/ <<>> \in request.held,
         ~(request.kind # "roots" /\ request.root = <<>>) => \A s \in events : s # Unresolved /\ WasAllowed(s)
  PROVE  AuditIInv'
<1>1. request' = [request EXCEPT !.step = "answered", !.shown = events] /\ UNCHANGED <<granted, denied, changes, cache>>
  BY DEF Disclose, tables, policy
<1>2. /\ request'.step = "answered" /\ request'.kind = request.kind /\ request'.root = request.root
      /\ request'.shown = events /\ request'.torn = request.torn /\ request'.fresh = request.fresh
      /\ request'.held = request.held /\ request'.stood = request.stood /\ request'.since = request.since
      /\ AuditTypeOK'
  BY <1>1 DEF AuditIInv, AuditTypeOK, AuditSteps
<1>3. PolicyIInv'
  BY <1>1, <1>2, ProceedsIInv DEF AuditIInv, Proceeds, tables
<1>4. Standing' = Standing /\ (\A s : WasAllowed(s)' <=> WasAllowed(s))
  BY <1>2 DEF Standing, WasAllowed
<1>5. DisclosedWasAllowed'
  BY <1>2, <1>4 DEF DisclosedWasAllowed, WasAllowed
<1>6. RequestIInv'
  BY <1>2, <1>4 DEF AuditIInv, RequestIInv
<1> QED  BY <1>2, <1>3, <1>5, <1>6 DEF AuditIInv

(* The rows of a list, and the event of a detail, are those of the query. *)
LEMMA ReadEventsIInv ==
  ASSUME AuditIInv, ListEvents \/ GetEvent
  PROVE  AuditIInv'
<1> DEFINE visible == Visible(request.root, request.hidden)
<1>1. request.step = "reading" /\ request.kind # "roots" /\ (request.torn \/ WasAllowed(request.root))
  BY DEF AuditIInv, RequestIInv, ListEvents, GetEvent
<1>2. request.root = <<>> => request.torn \/ <<>> \in request.held
  BY <1>1, PlatformGrant DEF WasAllowed, AuditIInv, AuditTypeOK
<1>3. visible \in SUBSET (Scopes \cup {Unresolved})
  BY AuditTrailAssumption DEF Visible
<1>4. request.root # <<>> => \A s \in visible : s # Unresolved /\ WasAllowed(s)
  BY <1>1, VisibleWasAllowed
<1>5. CASE ListEvents
  <2>1. Disclose(visible)
    BY <1>5 DEF ListEvents
  <2> HIDE DEF visible
  <2> QED  BY <1>1, <1>2, <1>3, <1>4, <2>1, DiscloseIInv
<1>6. CASE GetEvent /\ request.event \in visible
  <2>1. Disclose({request.event})
    BY <1>6 DEF GetEvent
  <2> HIDE DEF visible
  <2> QED  BY <1>1, <1>2, <1>3, <1>4, <1>6, <2>1, DiscloseIInv
<1>7. CASE GetEvent /\ request.event \notin visible
  BY <1>7, NoRequestIInv DEF GetEvent, TurnDown, policy
<1> QED  BY <1>5, <1>6, <1>7

(* A root, the platform among them, is offered after its own decision. *)
LEMMA OfferedIInv ==
  ASSUME AuditIInv, NEW s \in Scopes, NEW step \in {"rooting", "filtering"}, MayDecide(step), request.kind = "roots",
         Allowed(s), NEW next \in {"answered", "filtering"}, NEW left \in SUBSET Scopes,
         request' = [LetIn EXCEPT !.step = next, !.hidden = left, !.shown = request.shown \cup {s}],
         UNCHANGED <<tables, policy>>
  PROVE  AuditIInv'
<1>1. /\ request'.step = next /\ request'.kind = "roots" /\ request'.root = request.root /\ request.root = <<>>
      /\ request'.shown = request.shown \cup {s} /\ request'.fresh = "unknown" /\ request'.torn = LetIn.torn
      /\ request'.held = request.held /\ request'.stood = request.stood /\ request'.since = request.since
      /\ AuditTypeOK' /\ request.step # "none"
  <2>1. request.step # "none" /\ request.root = <<>>
    BY DEF MayDecide, AuditIInv, RequestIInv
  <2>2. /\ LetIn \in [step : AuditSteps, kind : {"list", "detail", "roots"}, root : Scopes,
                      event : Scopes \cup {Unresolved}, fresh : {"unknown", "yes", "no"}, hidden : SUBSET Scopes,
                      shown : SUBSET (Scopes \cup {Unresolved}), since : Nat, held : SUBSET Scopes,
                      stood : Denials, torn : BOOLEAN]
        /\ LetIn = [request EXCEPT !.fresh = "unknown", !.torn = LetIn.torn]
    BY <2>1, DecisionFacts
  <2>3. request.shown \cup {s} \in SUBSET (Scopes \cup {Unresolved})
    BY DEF AuditIInv, AuditTypeOK
  <2> QED  BY <2>1, <2>2, <2>3 DEF AuditIInv, AuditTypeOK, AuditSteps, tables, policy
<1>2. PolicyIInv'
  BY <1>1, ProceedsIInv DEF AuditIInv, Proceeds, policy
<1>3. \A t \in request'.shown : t # Unresolved /\ WasAllowed(t)'
  <2>1. CASE request'.torn
    <3>1. Standing' = {d \in request'.stood : Covers(request'.root, d)}
      BY <2>1 DEF Standing, Covers
    <3>4. request'.root = <<>> /\ \A d \in request'.stood : d # <<>>
      BY <1>1 DEF AuditIInv, AuditTypeOK, Denials
    <3>5. Standing' = {}
      BY <3>1, <3>4 DEF Covers
    <3>2. \A t \in request'.shown : t # Unresolved
      BY <1>1, AuditTrailAssumption DEF AuditIInv, RequestIInv
    <3> QED  BY <2>1, <3>5, <3>2 DEF WasAllowed, Covered
  <2>2. CASE ~request'.torn
    <3>1. ~request.torn /\ WasAllowed(s)
      BY <1>1, <2>2, DecisionFacts
    <3>2. \A t \in request.shown : t # Unresolved /\ WasAllowed(t)
      BY DEF AuditIInv, RequestIInv
    <3> QED  BY <1>1, <2>2, <3>1, <3>2, AuditTrailAssumption DEF WasAllowed, Standing
  <2> QED  BY <2>1, <2>2
<1> QED  BY <1>1, <1>2, <1>3 DEF AuditIInv, RequestIInv, DisclosedWasAllowed, WasAllowed

(* A scope that is not offered, and a list of candidates, change nothing shown. *)
LEMMA NotOfferedIInv ==
  ASSUME AuditIInv, request.kind = "roots", request.step # "none", NEW next \in {"listing", "filtering"},
         NEW left \in SUBSET Scopes, NEW known \in {request.fresh, "unknown"},
         request' = [request EXCEPT !.step = next, !.hidden = left, !.fresh = known],
         UNCHANGED <<tables, policy>>
  PROVE  AuditIInv'
<1>1. /\ request'.step = next /\ request'.kind = "roots" /\ request'.root = request.root
      /\ request'.shown = request.shown /\ request'.fresh = known /\ request'.torn = request.torn
      /\ request'.held = request.held /\ request'.stood = request.stood /\ request'.since = request.since
      /\ AuditTypeOK'
  BY DEF AuditIInv, AuditTypeOK, AuditSteps, tables, policy
<1>2. PolicyIInv'
  BY <1>1, ProceedsIInv DEF AuditIInv, Proceeds, policy
<1>3. \A s : WasAllowed(s)' <=> WasAllowed(s)
  BY <1>1 DEF WasAllowed, Standing
<1> QED  BY <1>1, <1>2, <1>3 DEF AuditIInv, RequestIInv, DisclosedWasAllowed

(* What is offered to ask for. *)
LEMMA OfferIInv ==
  ASSUME AuditIInv, OfferPlatform \/ ListRoots \/ OfferRoot \/ OfferRoots
  PROVE  AuditIInv'
<1>1. /\ request.kind = "roots" /\ request.step \in {"rooting", "listing", "filtering"} /\ <<>> \in Scopes
      /\ UNCHANGED <<tables, policy>>
      /\ request \in [step : AuditSteps, kind : {"list", "detail", "roots"}, root : Scopes,
                      event : Scopes \cup {Unresolved}, fresh : {"unknown", "yes", "no"}, hidden : SUBSET Scopes,
                      shown : SUBSET (Scopes \cup {Unresolved}), since : Nat, held : SUBSET Scopes,
                      stood : Denials, torn : BOOLEAN]
  BY AuditTrailAssumption
  DEF OfferPlatform, ListRoots, OfferRoot, OfferRoots, Disclose, MayDecide, AuditIInv, AuditTypeOK, RequestIInv
<1>2. CASE OfferPlatform /\ Allowed(<<>>)
  <2>1. MayDecide("rooting") /\ request' = [LetIn EXCEPT !.step = "answered", !.shown = {<<>>}]
    BY <1>2 DEF OfferPlatform
  <2>2. LetIn.hidden = request.hidden /\ request.hidden \in SUBSET Scopes /\ request.step = "rooting"
    BY <1>1, <2>1 DEF LetIn, MayDecide
  <2>3. request.shown = {}
    BY <2>2 DEF AuditIInv, RequestIInv
  <2>4. request' = [LetIn EXCEPT !.step = "answered", !.hidden = request.hidden, !.shown = request.shown \cup {<<>>}]
    BY <1>1, <2>1, <2>2, <2>3 DEF LetIn
  <2> QED  BY <1>1, <1>2, <2>1, <2>2, <2>4, OfferedIInv
<1>3. CASE OfferPlatform /\ ~Allowed(<<>>)
  <2>1. request' = [NotLetIn EXCEPT !.step = "listing"]
    BY <1>3 DEF OfferPlatform
  <2>2. request' = [request EXCEPT !.step = "listing", !.hidden = request.hidden, !.fresh = "unknown"]
    BY <1>1, <2>1 DEF NotLetIn
  <2>3. request.hidden \in SUBSET Scopes
    BY <1>1
  <2> QED  BY <1>1, <2>2, <2>3, NotOfferedIInv
<1>4. CASE ListRoots
  <2>1. request' = [request EXCEPT !.step = "filtering", !.hidden = granted \ {<<>>}]
    BY <1>4 DEF ListRoots
  <2>2. request' = [request EXCEPT !.step = "filtering", !.hidden = granted \ {<<>>}, !.fresh = request.fresh]
    BY <1>1, <2>1
  <2>3. granted \ {<<>>} \in SUBSET Scopes
    BY DEF AuditIInv, AuditTypeOK
  <2> QED  BY <1>1, <2>2, <2>3, NotOfferedIInv
<1>5. CASE OfferRoot
  <2>1. PICK s \in request.hidden :
          request' = IF Allowed(s) THEN [LetIn EXCEPT !.hidden = @ \ {s}, !.shown = @ \cup {s}]
                     ELSE [NotLetIn EXCEPT !.hidden = @ \ {s}]
    BY <1>5 DEF OfferRoot
  <2>2. s \in Scopes /\ request.hidden \ {s} \in SUBSET Scopes /\ MayDecide("filtering") /\ request.step = "filtering"
    BY <1>1, <1>5 DEF OfferRoot, MayDecide
  <2>3. CASE Allowed(s)
    <3>1. request' = [LetIn EXCEPT !.step = "filtering", !.hidden = request.hidden \ {s}, !.shown = request.shown \cup {s}]
      BY <1>1, <2>1, <2>2, <2>3 DEF LetIn
    <3> QED  BY <1>1, <2>2, <2>3, <3>1, OfferedIInv
  <2>4. CASE ~Allowed(s)
    <3>1. request' = [request EXCEPT !.step = "filtering", !.hidden = request.hidden \ {s}, !.fresh = "unknown"]
      BY <1>1, <2>1, <2>2, <2>4 DEF NotLetIn
    <3> QED  BY <1>1, <2>2, <3>1, NotOfferedIInv
  <2> QED  BY <2>3, <2>4
<1>6. CASE OfferRoots
  <2>1. Disclose(request.shown) /\ request.shown \in SUBSET (Scopes \cup {Unresolved})
    BY <1>1, <1>6 DEF OfferRoots
  <2>2. \A s \in request.shown : s # Unresolved /\ WasAllowed(s)
    BY <1>1 DEF AuditIInv, RequestIInv
  <2> QED  BY <1>1, <2>1, <2>2, DiscloseIInv
<1> QED  BY <1>2, <1>3, <1>4, <1>5, <1>6

(* Every step preserves the invariant. *)
LEMMA AuditNextIInv == AuditIInv /\ [AuditTrailNext]_auditVars => AuditIInv'
<1> SUFFICES ASSUME AuditIInv, [AuditTrailNext]_auditVars PROVE AuditIInv'
  OBVIOUS
<1>1. CASE ChangeGrants \/ ChangeDenials
  BY <1>1, ChangeIInv
<1>2. ASSUME NEW s \in Scopes, AskForList(s) PROVE AuditIInv'
  BY <1>2, BeginIInv DEF AskForList
<1>3. ASSUME NEW e \in EventScopes, LocateEvent(e) PROVE AuditIInv'
  BY <1>3, BeginIInv, AuditTrailAssumption DEF LocateEvent
<1>4. CASE AskForRoots
  BY <1>4, BeginIInv, AuditTrailAssumption DEF AskForRoots
<1>5. CASE ChooseTarget \/ AuthorizeRoot \/ ResolveDenials
  BY <1>5, ChooseTargetIInv, ResolveDenialsIInv
<1>6. CASE ListEvents \/ GetEvent \/ OfferPlatform \/ ListRoots \/ OfferRoot \/ OfferRoots
  BY <1>6, ReadEventsIInv, OfferIInv
<1>7. CASE FinishRequest \/ RequestFails
  BY <1>7, NoRequestIInv DEF FinishRequest, TurnDown, RequestFails, policy
<1>8. CASE AskRevision \/ Reload \/ Reloaded \/ OthersReload \/ OthersReloaded \/ OthersFail
  BY <1>8, PolicyStepIInv
<1>9. CASE UNCHANGED auditVars
  BY <1>9 DEF auditVars, tables, policy, AuditIInv, AuditTypeOK, PolicyIInv, RequestIInv, DisclosedWasAllowed,
              WasAllowed, Standing
<1> QED  BY <1>1, <1>2, <1>3, <1>4, <1>5, <1>6, <1>7, <1>8, <1>9 DEF AuditTrailNext

(* Whatever the administrator changes between the statements of a request, *)
(* and however old the rules of its process were when it came: each event  *)
(* and each root that is disclosed was under a grant of its time and under *)
(* no denial that stood all the while, save what it was let in to by rules *)
(* that a commit outdated as they were loaded (AuthorizeFresh, Reload).    *)
THEOREM NothingIsDisclosedUnallowed == ConsoleSpec => []DisclosedWasAllowed
<1>1. AuditIInv => DisclosedWasAllowed
  BY DEF AuditIInv
<1> QED  BY <1>1, AuditInitIInv, AuditNextIInv, ConsoleParts, PTL DEF ConsoleSpec

-----------------------------------------------------------------------------
(***************************************************************************)
(* What a reader is given of a running Application is honest, for any      *)
(* resources, trees and limits.                                            *)
(***************************************************************************)

(* What is within the limit has fewer elements before each one. *)
LEMMA FewerBefore ==
  ASSUME NEW n \in Nat, NEW S, IsFiniteSet(S), Cardinality(S) <= n, NEW a \in S, NEW T \in SUBSET S, a \notin T
  PROVE  Cardinality(T) < n
<1>1. Cardinality(T) <= Cardinality(S) /\ Cardinality(T) # Cardinality(S)
  BY FS_Subset
<1>2. Cardinality(T) \in Nat /\ Cardinality(S) \in Nat
  BY FS_Subset, FS_CardinalityType
<1> QED  BY <1>1, <1>2

(* All resources are shown of a tree within the limit, ... *)
LEMMA AllShown ==
  ASSUME NEW nodes \in SUBSET Resources, Cardinality(nodes) <= MaxNodes
  PROVE  FirstNodes(nodes) = nodes
<1> SUFFICES ASSUME NEW a \in nodes PROVE Cardinality({b \in nodes : KeyOrder(b, a)}) < MaxNodes
  BY DEF FirstNodes
<1>1. a \in Nat /\ a \notin {b \in nodes : KeyOrder(b, a)}
  BY DiagnosticsAssumption DEF KeyOrder
<1>2. IsFiniteSet(nodes) /\ MaxNodes \in Nat
  BY FS_Subset, DiagnosticsAssumption
<1> QED  BY <1>1, <1>2, FewerBefore

(* ... and all edges. *)
LEMMA AllDrawn ==
  ASSUME NEW shown \in SUBSET Resources, NEW all \in SUBSET (shown \X shown), Cardinality(all) <= MaxEdges
  PROVE  FirstEdges(all) = all
<1> SUFFICES ASSUME NEW a \in all PROVE Cardinality({b \in all : EdgeOrder(b, a)}) < MaxEdges
  BY DEF FirstEdges
<1>1. a[1] \in Nat /\ a[2] \in Nat
  BY DiagnosticsAssumption
<1>2. a \notin {b \in all : EdgeOrder(b, a)}
  BY <1>1 DEF EdgeOrder
<1>3. IsFiniteSet(all) /\ MaxEdges \in Nat
  BY FS_Subset, FS_Product, DiagnosticsAssumption
<1> QED  BY <1>2, <1>3, FewerBefore

(* Every edge joins what is shown, on evidence. *)
LEMMA EdgesHaveEvidence ==
  ASSUME NEW tree, NEW shown,
         NEW e \in ReferenceEdges(tree, shown) \cup SelectorEdges(tree, shown)
  PROVE  e \in shown \X shown /\ Evidence(tree, "network", e)
<1>1. CASE e \in ReferenceEdges(tree, shown)
  <2>1. PICK ref \in Named(tree, e[1]) : ref.matches \cap shown = {e[2]}
    BY <1>1 DEF ReferenceEdges
  <2> QED  BY <1>1, <2>1 DEF ReferenceEdges, Named, Evidence
<1>2. CASE e \in SelectorEdges(tree, shown)
  <2>1. PICK n \in Selecting(tree, shown) : \E m \in Selected(tree, shown, n) : e = <<n, m>>
    BY <1>2 DEF SelectorEdges
  <2>2. PICK m \in Selected(tree, shown, n) : e = <<n, m>>
    BY <2>1
  <2>3. n \in shown /\ m \in shown /\ m \in tree.selects[n] /\ e[1] = n /\ e[2] = m
    BY <2>1, <2>2 DEF Selecting, Selected
  <2> QED  BY <2>2, <2>3 DEF Evidence
<1> QED  BY <1>1, <1>2

(* When nothing is left open every reference and every selector has an edge. *)
LEMMA NothingOpen ==
  ASSUME NEW tree, NEW shown \in SUBSET Resources, ~LeavesOpen(tree, shown), NEW n \in shown
  PROVE  /\ \A ref \in tree.refs[n] :
              IF ref.named THEN \E m \in ref.matches : <<n, m>> \in ReferenceEdges(tree, shown)
              ELSE tree.selects[n] # NoLabels
         /\ tree.selects[n] # NoLabels => \E m \in tree.selects[n] : <<n, m>> \in SelectorEdges(tree, shown)
<1>1. ASSUME NEW ref \in Named(tree, n)
      PROVE  \E m \in ref.matches : <<n, m>> \in ReferenceEdges(tree, shown)
  <2>1. Cardinality(ref.matches \cap shown) = 1
    BY DEF LeavesOpen
  <2>2. IsFiniteSet(ref.matches \cap shown)
    BY FS_Subset, DiagnosticsAssumption
  <2>3. PICK m : ref.matches \cap shown = {m}
    BY <2>1, <2>2, FS_Singleton
  <2>4. m \in shown /\ m \in ref.matches
    BY <2>3
  <2> QED  BY <2>3, <2>4 DEF ReferenceEdges
<1>2. ASSUME NEW ref \in tree.refs[n], ~ref.named PROVE tree.selects[n] # NoLabels
  <2>1. Nameless(tree, n) # {}
    BY <1>2 DEF Nameless, Named
  <2>2. n \in Selecting(tree, shown)
    BY <2>1 DEF LeavesOpen
  <2> QED  BY <2>2 DEF Selecting
<1>3. ASSUME tree.selects[n] # NoLabels
      PROVE  \E m \in tree.selects[n] : <<n, m>> \in SelectorEdges(tree, shown)
  <2>1. n \in Selecting(tree, shown)
    BY <1>3 DEF Selecting
  <2>2. PICK m : m \in Selected(tree, shown, n)
    BY <2>1 DEF LeavesOpen
  <2> QED  BY <2>1, <2>2 DEF SelectorEdges, Selected
<1> QED  BY <1>1, <1>2, <1>3 DEF Named

TopologyIsHonest(t) ==
  /\ \A e \in t.edges : e \in t.shown \X t.shown /\ Evidence(t.tree, t.view, e)
  /\ ~t.partial => Complete(t)

(* A topology that is not said to be partial has everything. *)
LEMMA TopologyHonest ==
  ASSUME NEW tree, tree.nodes \in SUBSET Resources, NEW view \in {"resources", "network"}
  PROVE  TopologyIsHonest(Topology(tree, view))
<1> DEFINE shown == FirstNodes(tree.nodes)
           network == ReferenceEdges(tree, shown) \cup SelectorEdges(tree, shown)
           links == IF view = "network" THEN network ELSE ResourceEdges(tree, shown)
           drawn == FirstEdges(links)
           t == Topology(tree, view)
<1>1. t = [kind |-> "topology", tree |-> tree, view |-> view, shown |-> shown, edges |-> drawn,
           partial |-> IsPartial(tree, view, shown, links), entitled |-> inquiry.entitled]
  BY DEF Topology
<1>2. shown \subseteq tree.nodes /\ drawn \subseteq links
  BY DEF FirstNodes, FirstEdges
<1> HIDE DEF shown
<1>3. \A e \in links : e \in shown \X shown /\ Evidence(tree, view, e)
  BY EdgesHaveEvidence DEF ResourceEdges, Evidence
<1> HIDE DEF drawn, links, t
<1>4. ASSUME ~t.partial PROVE Complete(t)
  <2>1. Cardinality(tree.nodes) <= MaxNodes /\ Cardinality(links) <= MaxEdges
        /\ (view = "network" => ~LeavesOpen(tree, shown))
    <3>1. IsFiniteSet(tree.nodes) /\ IsFiniteSet(shown) /\ IsFiniteSet(shown \X shown)
      BY <1>2, FS_Subset, FS_Product, DiagnosticsAssumption
    <3>2. IsFiniteSet(links)
      BY <1>3, <3>1, FS_Subset
    <3>3. Cardinality(tree.nodes) \in Nat /\ Cardinality(links) \in Nat
      BY <3>1, <3>2, FS_CardinalityType
    <3> QED  BY <1>1, <1>4, <3>3, DiagnosticsAssumption DEF IsPartial
  <2>2. shown = tree.nodes
    BY <2>1, AllShown DEF shown
  <2>3. drawn = links
    BY <1>2, <1>3, <2>1, AllDrawn DEF drawn
  <2>4. CASE view = "resources"
    BY <1>1, <2>2, <2>3, <2>4 DEF Complete, links, ResourceEdges
  <2>5. CASE view = "network"
    <3>1. \A n \in shown :
            /\ \A ref \in tree.refs[n] :
                 IF ref.named THEN \E m \in ref.matches : <<n, m>> \in links ELSE tree.selects[n] # NoLabels
            /\ tree.selects[n] # NoLabels => \E m \in tree.selects[n] : <<n, m>> \in links
      BY <2>1, <2>2, <2>5, NothingOpen DEF links
    <3> QED  BY <1>1, <2>2, <2>3, <2>5, <3>1 DEF Complete
  <2> QED  BY <2>4, <2>5
<1>5. \A e \in t.edges : e \in t.shown \X t.shown /\ Evidence(t.tree, t.view, e)
  BY <1>1, <1>2, <1>3
<1> QED  BY <1>4, <1>5 DEF TopologyIsHonest, t

Contents == {"manifest", "events", "logs"}

Inquiries ==
  [step : {"none", "finding", "treeing", "reading", "recording"}, kind : Contents \cup {"topology"},
   resource : Resources \cup {0}, belonged : SUBSET Resources, entitled : BOOLEAN]

(* An inquiry past the catalog is entitled, past the tree its resource belonged. *)
InquiryFits ==
  /\ belonging \subseteq Resources /\ may \in BOOLEAN /\ loaded \in BOOLEAN /\ inquiry \in Inquiries
  /\ inquiry.step # "none" => belonging \subseteq inquiry.belonged /\ (may \/ loaded => inquiry.entitled)
  /\ inquiry.step \in {"treeing", "reading", "recording"} => inquiry.entitled
  /\ inquiry.step \in {"reading", "recording"} =>
       inquiry.kind \in Contents /\ inquiry.resource \in inquiry.belonged

DiagnosticsIInv == InquiryFits /\ AnswersAreHonest

(* What was given stays honest while the audit trail grows. *)
LEMMA GivenStays ==
  ASSUME AnswersAreHonest, given' = given, onRecord \subseteq onRecord'
  PROVE  AnswersAreHonest'
  BY DEF AnswersAreHonest, Evidence, Complete

(* An inquiry that goes on, ends or begins gives nothing yet. *)
LEMMA InquiryStep ==
  ASSUME DiagnosticsIInv,
         \/ ResourcesChange \/ RightsChange \/ RulesAreLoaded \/ FindApplication \/ FindResource \/ ReadContent \/ InquiryFails
         \/ \E what \in Contents \cup {"topology"}, r \in Resources \cup {0} : Inquire(what, r)
         \/ UNCHANGED diagnosticVars
  PROVE  DiagnosticsIInv'
<1> USE DEF DiagnosticsIInv, InquiryFits, Inquiries, Contents
<1>1. given' = given /\ onRecord' = onRecord
  BY DEF ResourcesChange, RightsChange, RulesAreLoaded, FindApplication, FindResource, ReadContent, InquiryFails, Inquire, diagnosticVars
<1>2. AnswersAreHonest'
  BY <1>1, GivenStays
<1>3. CASE ResourcesChange
  BY <1>2, <1>3 DEF ResourcesChange
<1>4. CASE RightsChange \/ RulesAreLoaded
  <2>1. CASE RulesAreLoaded
    <3>1. loaded' = may /\ inquiry.step # "none" /\ UNCHANGED <<belonging, may, inquiry>>
      BY <2>1 DEF RulesAreLoaded
    <3>2. loaded' \in BOOLEAN /\ (may' \/ loaded' => inquiry'.entitled)
      BY <3>1
    <3> QED  BY <1>2, <3>1, <3>2
  <2>2. CASE RightsChange
    <3>1. /\ may' = ~may /\ inquiry.step # "none" /\ UNCHANGED <<belonging, loaded>>
          /\ inquiry' = [inquiry EXCEPT !.entitled = @ \/ may']
      BY <2>2 DEF RightsChange
    <3>2. /\ inquiry' \in Inquiries /\ inquiry'.step = inquiry.step /\ inquiry'.kind = inquiry.kind
          /\ inquiry'.resource = inquiry.resource /\ inquiry'.belonged = inquiry.belonged
          /\ inquiry'.entitled = (inquiry.entitled \/ may')
      BY <3>1
    <3>3. may' \in BOOLEAN /\ (may' \/ loaded' => inquiry'.entitled)
      BY <3>1, <3>2
    <3>4. inquiry.entitled => inquiry'.entitled
      BY <3>2
    <3> HIDE DEF Inquiries
    <3> QED  BY <1>2, <3>1, <3>2, <3>3, <3>4
  <2> QED  BY <1>4, <2>1, <2>2
<1>5. CASE FindApplication
  <2>1. CASE loaded
    <3>1. inquiry' = [inquiry EXCEPT !.step = "treeing"] /\ inquiry.step = "finding" /\ UNCHANGED <<belonging, may, loaded>>
      BY <1>5, <2>1 DEF FindApplication, StepTo
    <3>2. inquiry.entitled
      BY <2>1, <3>1
    <3> QED  BY <1>2, <3>1, <3>2
  <2>2. CASE ~loaded
    <3>1. inquiry' = NoInquiry /\ UNCHANGED <<belonging, may, loaded>>
      BY <1>5, <2>2 DEF FindApplication, EndInquiry
    <3> QED  BY <1>2, <3>1 DEF NoInquiry
  <2> QED  BY <2>1, <2>2
<1>6. CASE FindResource
  <2>1. UNCHANGED <<belonging, may, loaded>> /\ inquiry.kind # "topology" /\ inquiry.step = "treeing"
    BY <1>6 DEF FindResource
  <2>2. CASE inquiry' = [inquiry EXCEPT !.step = "reading"] /\ inquiry.resource \in belonging
    BY <1>2, <2>1, <2>2
  <2>3. CASE inquiry' = NoInquiry
    BY <1>2, <2>1, <2>3 DEF NoInquiry
  <2> QED  BY <1>6, <2>2, <2>3 DEF FindResource, StepTo, EndInquiry
<1>7. CASE ReadContent
  BY <1>2, <1>7 DEF ReadContent, StepTo
<1>8. CASE InquiryFails
  BY <1>2, <1>8 DEF InquiryFails, EndInquiry, NoInquiry
<1>9. ASSUME NEW what \in Contents \cup {"topology"}, NEW r \in Resources \cup {0}, Inquire(what, r)
      PROVE  DiagnosticsIInv'
  BY <1>2, <1>9 DEF Inquire
<1>10. CASE UNCHANGED diagnosticVars
  BY <1>2, <1>10 DEF diagnosticVars
<1> QED  BY <1>3, <1>4, <1>5, <1>6, <1>7, <1>8, <1>9, <1>10

(* A topology that is told is honest. *)
LEMMA TellTopologyStep ==
  ASSUME DiagnosticsIInv, TellTopology
  PROVE  DiagnosticsIInv'
<1>1. PICK tree \in {t \in Trees : belonging \subseteq t.nodes}, view \in {"resources", "network"} : given' = Topology(tree, view)
  BY DEF TellTopology
<1>2. TopologyIsHonest(given')
  BY <1>1, TopologyHonest, DiagnosticsAssumption
<1>3. given'.kind = "topology" /\ given'.entitled
  BY <1>1 DEF Topology, TellTopology, DiagnosticsIInv, InquiryFits
<1>4. AnswersAreHonest'
  BY <1>2, <1>3 DEF AnswersAreHonest, TopologyIsHonest, Evidence, Complete
<1> QED  BY <1>4 DEF TellTopology, EndInquiry, NoInquiry, DiagnosticsIInv, InquiryFits, Inquiries, Contents

(* Content is given of a resource that belonged, to a reader who was entitled, on record. *)
LEMMA RecordReadStep ==
  ASSUME DiagnosticsIInv, RecordRead
  PROVE  DiagnosticsIInv'
<1>1. inquiry.step = "recording" /\ inquiry.entitled /\ inquiry.kind \in Contents /\ inquiry.resource \in inquiry.belonged
  BY DEF RecordRead, DiagnosticsIInv, InquiryFits
<1>2. onRecord' = onRecord \cup {<<inquiry.kind, inquiry.resource>>}
      /\ given' = [kind |-> inquiry.kind, resource |-> inquiry.resource,
                   content |-> Content(inquiry.kind, inquiry.resource),
                   belonged |-> inquiry.resource \in inquiry.belonged, entitled |-> inquiry.entitled]
  BY DEF RecordRead
<1>3. AnswersAreHonest'
  BY <1>1, <1>2 DEF AnswersAreHonest, Content, Contents
<1> QED  BY <1>3 DEF RecordRead, EndInquiry, NoInquiry, DiagnosticsIInv, InquiryFits, Inquiries, Contents

(* Nobody asked anything at first. *)
LEMMA DiagnosticsInitIInv == DiagnosticsInit => DiagnosticsIInv
  BY DEF DiagnosticsInit, DiagnosticsIInv, InquiryFits, Inquiries, Contents, NoInquiry, Untold, AnswersAreHonest

(* Every step preserves the invariant. *)
LEMMA DiagnosticsNextIInv == DiagnosticsIInv /\ [DiagnosticsNext]_diagnosticVars => DiagnosticsIInv'
  BY InquiryStep, TellTopologyStep, RecordReadStep DEF DiagnosticsNext, Contents

(* A topology that is not said to be partial leaves nothing out, each edge *)
(* has evidence, and content is handed out only of what belongs to the     *)
(* Application, on record and without secrets; and whoever is answered     *)
(* could view it then, or when his process last loaded its rules.          *)
THEOREM ReadersAreToldTheTruth == ConsoleSpec => []AnswersAreHonest
<1>1. DiagnosticsIInv => AnswersAreHonest
  BY DEF DiagnosticsIInv
<1> QED  BY <1>1, DiagnosticsInitIInv, DiagnosticsNextIInv, ConsoleParts, PTL DEF ConsoleSpec

-----------------------------------------------------------------------------
(***************************************************************************)
(* A page hears of an event at most once, for any users, events, kinds and *)
(* any retention and size of an answer: what it has got is in the order of *)
(* the rows, and a stream goes on behind the last of it.  When that row is *)
(* gone it has expired, and then all rows that are left are behind it.     *)
(***************************************************************************)

NotificationsTypeOK ==
  /\ clock \in Nat /\ Events \subseteq Nat
  /\ outbox \in [Events -> {"none", "open", "waiting", "published"}]
  /\ occurred \in [Events -> Nat]
  /\ inbox \in [Users -> SUBSET Events]
  /\ got \in [Users -> Seq(Events)]

InOrderOfRows(s) == \A i, j \in DOMAIN s : i < j => Earlier(s[i], s[j])

(* What was heard is of a row that there is, or that has expired. *)
HeardIsKept(u) == \A i \in DOMAIN got[u] : outbox[got[u][i]] = "published" /\ (got[u][i] \in inbox[u] \/ ~Live(got[u][i]))

NotificationsIInv ==
  /\ NotificationsTypeOK
  /\ \A u \in Users : (\A e \in inbox[u] : outbox[e] = "published") /\ HeardIsKept(u) /\ InOrderOfRows(got[u])

(* The order of rows is strict. *)
LEMMA EarlierOrder ==
  ASSUME NotificationsTypeOK, NEW c \in Events, NEW d \in Events, NEW e \in Events
  PROVE  /\ ~Earlier(e, e)
         /\ Earlier(c, d) /\ Earlier(d, e) => Earlier(c, e)
         /\ ~Live(c) /\ Live(d) => Earlier(c, d)
  BY NotificationsAssumption DEF NotificationsTypeOK, Earlier, Live

(* The rows of a set in their order. *)
LEMMA AscendingFacts ==
  ASSUME NotificationsTypeOK, NEW S \in SUBSET Events, NEW s \in Ascending(S)
  PROVE  s \in Seq(S) /\ InOrderOfRows(s)
<1>1. Cardinality(S) \in Nat
  BY FS_Subset, FS_CardinalityType, NotificationsAssumption
<1>2. s \in [1 .. Cardinality(S) -> S]
  BY DEF Ascending, SetToSeqs
<1> QED  BY <1>1, <1>2 DEF Ascending, InOrderOfRows

(* A part of a sequence has its elements, in their order. *)
LEMMA PartInOrder ==
  ASSUME NEW S, NEW s \in Seq(S), NEW m \in 1 .. Len(s) + 1, NEW n \in m - 1 .. Len(s), InOrderOfRows(s)
  PROVE  SubSeq(s, m, n) \in Seq(S) /\ InOrderOfRows(SubSeq(s, m, n))
<1> DEFINE r == SubSeq(s, m, n)
<1>1. r \in Seq(S) /\ Len(r) = n - m + 1 /\ \A i \in 1 .. Len(r) : r[i] = s[i + m - 1]
  BY SubSeqProperties
<1> HIDE DEF r
<1>2. \A i, j \in DOMAIN r : i < j => Earlier(r[i], r[j])
  <2> SUFFICES ASSUME NEW i \in 1 .. Len(r), NEW j \in 1 .. Len(r), i < j PROVE Earlier(r[i], r[j])
    BY <1>1
  <2>1. i + m - 1 \in DOMAIN s /\ j + m - 1 \in DOMAIN s /\ i + m - 1 < j + m - 1
    BY <1>1
  <2> QED  BY <1>1, <2>1 DEF InOrderOfRows
<1> QED  BY <1>1, <1>2 DEF InOrderOfRows, r

(* An answer of the stream has live rows, all behind what the page has got. *)
LEMMA AnswerIsBehind ==
  ASSUME NotificationsIInv, NEW u \in Users, NEW events \in EventsAfter(u)
  PROVE  /\ events \in Seq(LiveRows(u)) /\ InOrderOfRows(events)
         /\ got[u] # <<>> => \A i \in DOMAIN events : Earlier(Last(got[u]), events[i])
<1> DEFINE all == LiveRows(u)
           behind == {e \in LiveRows(u) : Earlier(Last(got[u]), e)}
<1>0. got[u] \in Seq(Events) /\ NotificationsTypeOK /\ AnswerRows \in Nat \ {0}
      /\ all \in SUBSET Events /\ behind \in SUBSET Events
  BY NotificationsAssumption DEF NotificationsIInv, NotificationsTypeOK, LiveRows
<1>1. CASE got[u] = <<>> \/ Last(got[u]) \notin inbox[u]
  <2>1. PICK s \in Ascending(all) : events = LatestOf(s)
    BY <1>1 DEF EventsAfter
  <2>2. s \in Seq(all) /\ InOrderOfRows(s)
    BY <1>0, <2>1, AscendingFacts
  <2>3. events \in Seq(all) /\ InOrderOfRows(events)
    BY <1>0, <2>1, <2>2, PartInOrder DEF LatestOf
  <2>4. ASSUME got[u] # <<>>, NEW i \in DOMAIN events PROVE Earlier(Last(got[u]), events[i])
    <3>1. Last(got[u]) \in Events /\ ~Live(Last(got[u]))
      BY <1>0, <1>1, <2>4 DEF NotificationsIInv, HeardIsKept, Last
    <3>2. events[i] \in Events /\ Live(events[i])
      BY <1>0, <2>3, <2>4 DEF LiveRows
    <3> QED  BY <1>0, <3>1, <3>2, EarlierOrder
  <2> QED  BY <2>3, <2>4
<1>2. CASE ~(got[u] = <<>> \/ Last(got[u]) \notin inbox[u])
  <2>1. PICK s \in Ascending(behind) : events = FirstOf(s)
    BY <1>2 DEF EventsAfter
  <2>2. s \in Seq(behind) /\ InOrderOfRows(s)
    BY <1>0, <2>1, AscendingFacts
  <2>3. events \in Seq(behind) /\ InOrderOfRows(events)
    BY <1>0, <2>1, <2>2, PartInOrder DEF FirstOf
  <2>4. events \in Seq(all)
    BY <2>3
  <2> QED  BY <2>3, <2>4
<1> QED  BY <1>1, <1>2

(* What comes through of an answer is heard after all that was heard. *)
LEMMA PollIInv ==
  ASSUME NotificationsIInv, NEW u \in Users, Poll(u)
  PROVE  NotificationsIInv'
<1>0. PICK events \in EventsAfter(u) :
        \E n \in 0 .. Len(events) : got' = [got EXCEPT ![u] = @ \o SubSeq(events, 1, n)]
  BY DEF Poll
<1>1. PICK n \in 0 .. Len(events) : got' = [got EXCEPT ![u] = @ \o SubSeq(events, 1, n)]
  BY <1>0
<1> DEFINE heard == SubSeq(events, 1, n)
           new == got[u] \o heard
<1>2. /\ UNCHANGED <<clock, outbox, occurred, inbox>>
      /\ got[u] \in Seq(Events) /\ got \in [Users -> Seq(Events)] /\ LiveRows(u) \subseteq Events
      /\ NotificationsTypeOK
  BY DEF Poll, Outbox, Inboxes, NotificationsIInv, NotificationsTypeOK, LiveRows
<1>3. /\ events \in Seq(LiveRows(u)) /\ InOrderOfRows(events)
      /\ got[u] # <<>> => \A i \in DOMAIN events : Earlier(Last(got[u]), events[i])
  BY AnswerIsBehind
<1>4. heard \in Seq(LiveRows(u)) /\ InOrderOfRows(heard) /\ Len(heard) = n /\ \A i \in 1 .. n : heard[i] = events[i]
  BY <1>3, PartInOrder, SubSeqProperties
<1> HIDE DEF heard
<1>5. /\ new \in Seq(Events) /\ Len(new) = Len(got[u]) + Len(heard)
      /\ \A i \in 1 .. Len(new) : new[i] = IF i <= Len(got[u]) THEN got[u][i] ELSE heard[i - Len(got[u])]
  <2>1. heard \in Seq(Events)
    BY <1>2, <1>4
  <2> QED  BY <1>2, <2>1, ConcatProperties
<1> HIDE DEF new
<1>6. ASSUME NEW i \in 1 .. Len(got[u]), NEW j \in 1 .. Len(heard) PROVE Earlier(got[u][i], heard[j])
  <2>1. got[u] # <<>> /\ Last(got[u]) = got[u][Len(got[u])] /\ Len(got[u]) \in 1 .. Len(got[u])
    BY <1>2, <1>6 DEF Last
  <2>2. Earlier(Last(got[u]), heard[j])
    BY <1>3, <1>4, <1>6, <2>1
  <2>3. i = Len(got[u]) \/ Earlier(got[u][i], got[u][Len(got[u])])
    BY <1>2, <1>6, <2>1 DEF NotificationsIInv, InOrderOfRows
  <2>4. heard[j] \in Events /\ got[u][i] \in Events /\ Last(got[u]) \in Events
    BY <1>2, <1>4, <1>6, <2>1
  <2> QED  BY <1>2, <2>1, <2>2, <2>3, <2>4, EarlierOrder
<1>7. InOrderOfRows(new)
  <2> SUFFICES ASSUME NEW i \in 1 .. Len(new), NEW j \in 1 .. Len(new), i < j PROVE Earlier(new[i], new[j])
    <3>1. DOMAIN new = 1 .. Len(new)
      BY <1>5
    <3> QED  BY <3>1 DEF InOrderOfRows
  <2>0. Len(got[u]) \in Nat /\ Len(heard) \in Nat /\ DOMAIN got[u] = 1 .. Len(got[u]) /\ DOMAIN heard = 1 .. Len(heard)
    BY <1>2, <1>4
  <2>1. CASE j <= Len(got[u])
    BY <1>2, <1>5, <2>1 DEF NotificationsIInv, InOrderOfRows
  <2>2. CASE i > Len(got[u])
    <3> DEFINE k == Len(got[u])
    <3>0. i \in Nat /\ j \in Nat /\ k \in Nat /\ j <= k + Len(heard) /\ i < j /\ i > k
      BY <1>5, <2>0, <2>2
    <3> HIDE DEF k
    <3>1. i - k \in 1 .. Len(heard) /\ j - k \in 1 .. Len(heard) /\ i - k < j - k
      BY <2>0, <3>0
    <3>2. Earlier(heard[i - k], heard[j - k])
      BY <1>4, <2>0, <3>1 DEF InOrderOfRows
    <3>3. new[i] = heard[i - k] /\ new[j] = heard[j - k]
      <4>1. ~(i <= Len(got[u])) /\ ~(j <= Len(got[u])) /\ k = Len(got[u])
        BY <2>0, <3>0 DEF k
      <4>2. \A x \in 1 .. Len(new) : ~(x <= Len(got[u])) => new[x] = heard[x - Len(got[u])]
        BY <1>5
      <4> QED  BY <4>1, <4>2
    <3> QED  BY <3>2, <3>3
  <2>3. CASE i <= Len(got[u]) /\ j > Len(got[u])
    BY <1>5, <1>6, <2>0, <2>3
  <2> QED  BY <2>0, <2>1, <2>2, <2>3
<1>8. \A i \in 1 .. Len(new) : outbox[new[i]] = "published" /\ (new[i] \in inbox[u] \/ ~Live(new[i]))
  <2>1. \A i \in 1 .. Len(got[u]) : outbox[got[u][i]] = "published" /\ (got[u][i] \in inbox[u] \/ ~Live(got[u][i]))
    BY <1>2 DEF NotificationsIInv, HeardIsKept
  <2>2. \A i \in 1 .. Len(heard) : heard[i] \in inbox[u] /\ outbox[heard[i]] = "published"
    BY <1>4 DEF NotificationsIInv, LiveRows
  <2> SUFFICES ASSUME NEW i \in 1 .. Len(new) PROVE outbox[new[i]] = "published" /\ (new[i] \in inbox[u] \/ ~Live(new[i]))
    OBVIOUS
  <2>3. CASE i <= Len(got[u])
    <3>1. i \in 1 .. Len(got[u]) /\ new[i] = got[u][i]
      BY <1>2, <1>5, <2>3
    <3> QED  BY <2>1, <3>1
  <2>4. CASE ~(i <= Len(got[u]))
    <3>1. i - Len(got[u]) \in 1 .. Len(heard) /\ new[i] = heard[i - Len(got[u])]
      BY <1>2, <1>4, <1>5, <2>4
    <3> QED  BY <2>2, <3>1
  <2> QED  BY <2>3, <2>4
<1>9. got' = [got EXCEPT ![u] = new]
  BY <1>1 DEF new, heard
<1>10. \A e \in Events : Live(e)' = Live(e)
  BY <1>2 DEF Live
<1>11. \A v \in Users : HeardIsKept(v)' /\ InOrderOfRows(got[v])'
  <2> SUFFICES ASSUME NEW v \in Users PROVE HeardIsKept(v)' /\ InOrderOfRows(got[v])'
    OBVIOUS
  <2>1. CASE v = u
    BY <1>2, <1>5, <1>7, <1>8, <1>9, <2>1 DEF HeardIsKept, InOrderOfRows, Earlier, Live
  <2>2. CASE v # u
    BY <1>2, <1>9, <2>2 DEF NotificationsIInv, HeardIsKept, InOrderOfRows, Earlier, Live
  <2> QED  BY <2>1, <2>2
<1>12. NotificationsTypeOK'
  BY <1>2, <1>5, <1>9 DEF NotificationsTypeOK
<1>13. \A v \in Users : \A e \in inbox'[v] : outbox'[e] = "published"
  BY <1>2 DEF NotificationsIInv
<1> QED  BY <1>11, <1>12, <1>13 DEF NotificationsIInv

(* The order of what was heard is not disturbed, nor is a live row taken away. *)
LEMMA HeardStays ==
  ASSUME NotificationsIInv, NotificationsTypeOK', got' = got, clock' >= clock,
         \A e \in Events : outbox[e] = "published" => outbox'[e] = "published" /\ occurred'[e] = occurred[e],
         \A v \in Users : \A e \in inbox[v] : e \in inbox'[v] \/ ~Live(e)',
         \A v \in Users : \A e \in inbox'[v] : outbox'[e] = "published"
  PROVE  NotificationsIInv'
<1>1. ASSUME NEW v \in Users PROVE HeardIsKept(v)' /\ InOrderOfRows(got[v])'
  <2>1. got[v] \in Seq(Events)
    BY DEF NotificationsIInv, NotificationsTypeOK
  <2>2. \A i \in DOMAIN got[v] : got[v][i] \in Events /\ outbox[got[v][i]] = "published"
    BY <2>1 DEF NotificationsIInv, HeardIsKept
  <2>3. \A i \in DOMAIN got[v] : got[v][i] \in inbox'[v] \/ ~Live(got[v][i])'
    <3> SUFFICES ASSUME NEW i \in DOMAIN got[v], ~Live(got[v][i]) PROVE ~Live(got[v][i])'
      BY DEF NotificationsIInv, HeardIsKept
    <3>1. /\ got[v][i] \in Events /\ occurred'[got[v][i]] = occurred[got[v][i]] /\ occurred[got[v][i]] \in Nat
          /\ clock \in Nat /\ clock' \in Nat /\ Retention \in Nat
      BY <2>2, NotificationsAssumption DEF NotificationsTypeOK, NotificationsIInv
    <3>2. ~(clock < occurred[got[v][i]] + Retention)
      BY DEF Live
    <3> QED  BY <3>1, <3>2 DEF Live
  <2>4. HeardIsKept(v)'
    BY <2>2, <2>3 DEF HeardIsKept
  <2>5. InOrderOfRows(got[v])'
    BY <2>2 DEF NotificationsIInv, InOrderOfRows, Earlier
  <2> QED  BY <2>4, <2>5
<1> QED  BY <1>1 DEF NotificationsIInv

(* No row and no event at first. *)
LEMMA NotificationsInitIInv == NotificationsInit => NotificationsIInv
  BY NotificationsAssumption
  DEF NotificationsInit, NotificationsIInv, NotificationsTypeOK, HeardIsKept, InOrderOfRows

(* Every step preserves the invariant. *)
LEMMA NotificationsNextIInv == NotificationsIInv /\ [NotificationsNext]_notificationVars => NotificationsIInv'
<1> SUFFICES ASSUME NotificationsIInv, [NotificationsNext]_notificationVars PROVE NotificationsIInv'
  OBVIOUS
<1> USE DEF Outbox, People, Inboxes, Readers, Offered
<1>0. NotificationsTypeOK /\ \A v \in Users : \A e \in inbox[v] : outbox[e] = "published"
  BY DEF NotificationsIInv
<1>1. CASE Tick
  BY <1>0, <1>1, HeardStays DEF Tick, NotificationsTypeOK
<1>2. ASSUME NEW e \in Events, Occur(e) PROVE NotificationsIInv'
  BY <1>0, <1>2, HeardStays DEF Occur, NotificationsTypeOK
<1>3. ASSUME NEW e \in Events, Commit(e) PROVE NotificationsIInv'
  BY <1>0, <1>3, HeardStays DEF Commit, NotificationsTypeOK
<1>4. ASSUME NEW e \in Events, ProjectNext(e) PROVE NotificationsIInv'
  <2>1. inbox' = [u \in Users |-> IF Live(e) /\ u \in Recipients(e) THEN inbox[u] \cup {e} ELSE inbox[u]]
        /\ outbox' = [outbox EXCEPT ![e] = "published"] /\ UNCHANGED <<clock, occurred, got>>
    BY <1>4 DEF ProjectNext
  <2>2. \A v \in Users : inbox[v] \subseteq inbox'[v] /\ inbox'[v] \subseteq inbox[v] \cup {e}
    BY <2>1
  <2>3. NotificationsTypeOK'
    BY <1>0, <2>1, <2>2 DEF NotificationsTypeOK
  <2> QED  BY <1>0, <2>1, <2>2, <2>3, HeardStays DEF NotificationsTypeOK
<1>5. CASE DeleteExpired
  <2>1. inbox' = [u \in Users |-> LiveRows(u)] /\ UNCHANGED <<clock, outbox, occurred, got>>
    BY <1>5 DEF DeleteExpired
  <2>2. \A v \in Users : inbox'[v] \subseteq inbox[v] /\ \A e \in inbox[v] : e \in inbox'[v] \/ ~Live(e)'
    BY <2>1 DEF LiveRows, Live
  <2>3. NotificationsTypeOK'
    BY <1>0, <2>1, <2>2 DEF NotificationsTypeOK
  <2> QED  BY <1>0, <2>1, <2>2, <2>3, HeardStays DEF NotificationsTypeOK
<1>6. CASE UNCHANGED <<clock, outbox, occurred, inbox, got>>
  BY <1>0, <1>6, HeardStays DEF NotificationsTypeOK
<1>7. ASSUME NEW u \in Users, Poll(u) PROVE NotificationsIInv'
  BY <1>7, PollIInv
<1>8. ASSUME \/ Restart \/ \E e \in Events : ProjectionFails(e)
             \/ \E u \in Users : Change(u) \/ Disable(u) \/ Connect(u) \/ LoadMarked(u) \/ CheckMarked(u) \/ MarkRead(u)
             \/ UNCHANGED notificationVars
      PROVE UNCHANGED <<clock, outbox, occurred, inbox, got>>
  BY <1>8 DEF Restart, ProjectionFails, Change, Disable, Connect, LoadMarked, CheckMarked, MarkRead, notificationVars
<1> QED  BY <1>1, <1>2, <1>3, <1>4, <1>5, <1>6, <1>7, <1>8 DEF NotificationsNext

(* However often connections are lost in the middle of an answer, and      *)
(* though the row that a stream resumes from has expired, no event reaches *)
(* a page twice.                                                           *)
THEOREM NothingIsHeardTwice == ConsoleSpec => []HeardOnce
<1>1. ASSUME NotificationsIInv PROVE HeardOnce
  <2>1. ASSUME NEW u \in Users, NEW i \in 1 .. Len(got[u]), NEW j \in 1 .. Len(got[u]), i < j
        PROVE  got[u][i] # got[u][j]
    <3>1. Earlier(got[u][i], got[u][j]) /\ got[u][i] \in Events /\ got[u][j] \in Events /\ NotificationsTypeOK
      BY <1>1, <2>1 DEF NotificationsIInv, NotificationsTypeOK, InOrderOfRows
    <3> QED  BY <3>1, EarlierOrder
  <2>2. \A u \in Users : got[u] \in Seq(Events)
    BY <1>1 DEF NotificationsIInv, NotificationsTypeOK
  <2>3. ASSUME NEW u \in Users, NEW i \in DOMAIN got[u], NEW j \in DOMAIN got[u], got[u][i] = got[u][j]
        PROVE  i = j
    <3>1. i \in 1 .. Len(got[u]) /\ j \in 1 .. Len(got[u]) /\ Len(got[u]) \in Nat
      BY <2>2, <2>3
    <3> QED  BY <2>1, <2>3, <3>1
  <2> QED  BY <2>3 DEF HeardOnce
<1> QED  BY <1>1, NotificationsInitIInv, NotificationsNextIInv, ConsoleParts, PTL DEF ConsoleSpec

-----------------------------------------------------------------------------
(***************************************************************************)
(* Paging shows every row that stays, and none twice, for any rows, places,*)
(* filters and size of the page: what was shown is never behind the        *)
(* cursor, however it moves, and what stays and was not shown is.          *)
(***************************************************************************)

ReaderStates ==
  [step : {"idle", "paging", "done", "refused"}, filter : SUBSET Groups, cursor : [place : Nat, row : Nat],
   context : SUBSET Groups, shown : Seq(Rows), steady : SUBSET Rows, switched : BOOLEAN]

ListingsTypeOK ==
  /\ place \in [Rows -> Nat] /\ group \in [Rows -> Groups] /\ reader \in ReaderStates
  /\ listed \subseteq Rows /\ \A r \in listed : place[r] # 0

Behind(r) == reader.cursor = Start \/ Ahead(reader.cursor, Key(r))

PagingFits ==
  /\ reader.steady \subseteq Matching(reader.filter)
  /\ reader.cursor = Start => ~reader.switched /\ reader.shown = <<>>
  /\ list = "access" /\ reader.cursor # Start =>
       reader.cursor.row \in Rows /\ place[reader.cursor.row] # 0 /\ reader.cursor = Key(reader.cursor.row)
  /\ reader.cursor # Start /\ ~reader.switched => reader.context = reader.filter
  /\ reader.switched /\ list \in Contextual => reader.context # reader.filter

(* While one list is paged through, the cursor is between what was shown and what was not. *)
CursorDivides ==
  ~reader.switched =>
    /\ \A r \in reader.steady : r \in Range(reader.shown) \/ Behind(r)
    /\ \A i \in DOMAIN reader.shown : place[reader.shown[i]] # 0 /\ ~Behind(reader.shown[i])
    /\ IsInjective(reader.shown)

ListingsIInv ==
  /\ ListingsTypeOK
  /\ reader.step = "paging" => PagingFits /\ CursorDivides
  /\ reader.step = "done" => ~(reader.switched /\ list \in Contextual)
  /\ PagesShowAll

(* The order of rows is strict, and two rows never have one place in it. *)
LEMMA AheadOrder ==
  ASSUME NEW a \in [place : Nat, row : Nat], NEW b \in [place : Nat, row : Nat], NEW c \in [place : Nat, row : Nat]
  PROVE  /\ ~Ahead(a, a)
         /\ Ahead(a, b) => ~Ahead(b, a)
         /\ Ahead(a, b) /\ Ahead(b, c) => Ahead(a, c)
         /\ Ahead(a, b) \/ Ahead(b, a) \/ a = b
  BY DEF Ahead

(* A row's key. *)
LEMMA KeyTypes ==
  ASSUME ListingsTypeOK
  PROVE  /\ \A r \in Rows : Key(r) \in [place : Nat, row : Nat] /\ (place[r] # 0 => Key(r) # Start)
         /\ reader.cursor \in [place : Nat, row : Nat]
  BY ListingsAssumption DEF ListingsTypeOK, ReaderStates, Key, Start

(* s has each row of S, in their order. *)
Ordered(s, S) ==
  /\ s \in Seq(S)
  /\ \A r \in S : \E i \in DOMAIN s : s[i] = r
  /\ \A i, j \in DOMAIN s : i < j => AheadRow(s[i], s[j])

(* A set of rows in order is a sequence of all of them, the newest first. *)
LEMMA InOrderFacts ==
  ASSUME NEW S \in SUBSET Rows, NEW s \in InOrder(S)
  PROVE  Ordered(s, S)
<1> DEFINE n == Cardinality(S)
           D == 1 .. n
<1>1. IsFiniteSet(S) /\ n \in Nat
  BY FS_Subset, FS_CardinalityType, ListingsAssumption
<1>2. s \in [D -> S] /\ \A i, j \in D : i # j => s[i] # s[j]
  BY DEF InOrder, SetToSeqs
<1>3. s \in Injection(D, S)
  BY <1>2 DEF Injection, IsInjective
<1>4. Cardinality(D) = n
  BY <1>1, FS_Interval
<1>5. s \in Surjection(D, S)
  BY <1>1, <1>3, <1>4, FS_Injection
<1>6. s \in Seq(S) /\ DOMAIN s = D
  BY <1>1, <1>2
<1>7. \A r \in S : \E i \in D : s[i] = r
  BY <1>5 DEF Surjection
<1> QED  BY <1>6, <1>7 DEF Ordered, InOrder

(* What follows the cursor is behind it. *)
LEMMA FollowingOrdered ==
  ASSUME ListingsTypeOK, NEW rows \in Following
  PROVE  Ordered(rows, {r \in Matching(reader.filter) : Behind(r)})
  BY InOrderFacts DEF Following, Behind, Matching, ListingsTypeOK

(* So is what follows the row of the cursor, which stays where it is. *)
LEMMA FollowingRowOrdered ==
  ASSUME ListingsTypeOK, PagingFits, list = "access", FirstPage \/ reader.cursor.row \in Matching(reader.filter),
         NEW rows \in FollowingRow
  PROVE  Ordered(rows, {r \in Matching(reader.filter) : Behind(r)})
<1> DEFINE all == Matching(reader.filter)
           row == reader.cursor.row
           P(s, i) == i \in DOMAIN s /\ s[i] = row
<1>0. all \in SUBSET Rows
  BY DEF Matching, ListingsTypeOK
<1>1. CASE reader.cursor = Start
  <2>1. rows \in InOrder(all)
    BY <1>1 DEF FollowingRow
  <2>2. {r \in all : Behind(r)} = all
    BY <1>1 DEF Behind
  <2> QED  BY <1>0, <2>1, <2>2, InOrderFacts
<1>2. CASE reader.cursor # Start
  <2>1. PICK s \in InOrder(all) : rows = SubSeq(s, 1 + CHOOSE i \in DOMAIN s : s[i] = row, Len(s))
    BY <1>2 DEF FollowingRow
  <2>2. Ordered(s, all) /\ row \in all /\ s \in Seq(all)
    BY <1>0, <1>2, <2>1, InOrderFacts DEF FirstPage, Ordered
  <2>3. PICK k \in DOMAIN s : s[k] = row /\ rows = SubSeq(s, 1 + k, Len(s))
    <3>1. \E i \in DOMAIN s : s[i] = row
      BY <2>2 DEF Ordered
    <3>2. (CHOOSE i \in DOMAIN s : s[i] = row) \in DOMAIN s /\ s[CHOOSE i \in DOMAIN s : s[i] = row] = row
      BY <3>1
    <3> QED  BY <2>1, <3>2
  <2>4. k \in 1 .. Len(s) /\ Len(s) \in Nat /\ DOMAIN s = 1 .. Len(s)
    BY <2>2, <2>3
  <2>5. /\ rows \in Seq(all) /\ Len(rows) = Len(s) - k
        /\ \A i \in 1 .. Len(rows) : rows[i] = s[i + k]
    <3>1. 1 + k \in 1 .. Len(s) + 1 /\ Len(s) \in (1 + k) - 1 .. Len(s)
      BY <2>4
    <3>2. Len(s) - (1 + k) + 1 = Len(s) - k /\ \A i \in 1 .. Len(s) - k : i + (1 + k) - 1 = i + k
      BY <2>4
    <3>3. Len(rows) = Len(s) - (1 + k) + 1 /\ rows \in Seq(all) /\ \A i \in 1 .. Len(rows) : rows[i] = s[i + (1 + k) - 1]
      BY <2>2, <2>3, <3>1, SubSeqProperties
    <3>4. \A i \in 1 .. Len(rows) : rows[i] = s[i + k]
      <4> SUFFICES ASSUME NEW i \in 1 .. Len(rows) PROVE rows[i] = s[i + k]
        OBVIOUS
      <4>1. rows[i] = s[i + (1 + k) - 1]
        BY <3>3
      <4>2. i + (1 + k) - 1 = i + k
        BY <3>2, <3>3
      <4> QED  BY <4>1, <4>2
    <3> QED  BY <3>2, <3>3, <3>4
  <2>6. \A i \in 1 .. Len(rows) : i + k \in DOMAIN s /\ k < i + k
    BY <2>4, <2>5
  <2>7. reader.cursor = Key(s[k])
    BY <1>2, <2>3 DEF PagingFits
  <2>8. \A i \in DOMAIN s : s[i] \in Rows /\ Key(s[i]) \in [place : Nat, row : Nat]
    BY <1>0, <2>2, KeyTypes
  <2>9. \A i \in DOMAIN s : Behind(s[i]) <=> k < i
    <3> SUFFICES ASSUME NEW i \in DOMAIN s PROVE Ahead(Key(s[k]), Key(s[i])) <=> k < i
      BY <1>2, <2>7 DEF Behind
    <3>1. k < i => Ahead(Key(s[k]), Key(s[i]))
      BY <2>2 DEF Ordered, AheadRow
    <3>2. i < k => ~Ahead(Key(s[k]), Key(s[i]))
      BY <2>2, <2>8, AheadOrder DEF Ordered, AheadRow
    <3>3. i = k => ~Ahead(Key(s[k]), Key(s[i]))
      BY <2>8, AheadOrder
    <3> QED  BY <2>4, <3>1, <3>2, <3>3
  <2>10. rows \in Seq({r \in all : Behind(r)})
    <3> DEFINE T == {r \in all : Behind(r)}
    <3>1. \A i \in 1 .. Len(rows) : rows[i] \in T
      BY <2>2, <2>5, <2>6, <2>9
    <3> HIDE DEF T
    <3>2. rows \in Seq(T)
      BY <2>5, <3>1
    <3> QED  BY <3>2 DEF T
  <2>11. ASSUME NEW r \in {x \in all : Behind(x)} PROVE \E i \in DOMAIN rows : rows[i] = r
    <3>1. PICK j \in DOMAIN s : s[j] = r
      BY <2>2, <2>11 DEF Ordered
    <3>2. k < j
      BY <2>9, <2>11, <3>1
    <3>3. j - k \in 1 .. Len(rows) /\ (j - k) + k = j
      BY <2>4, <2>5, <3>1, <3>2
    <3> QED  BY <2>5, <3>1, <3>3
  <2>12. \A i, j \in DOMAIN rows : i < j => AheadRow(rows[i], rows[j])
    <3> SUFFICES ASSUME NEW i \in 1 .. Len(rows), NEW j \in 1 .. Len(rows), i < j PROVE AheadRow(rows[i], rows[j])
      BY <2>5
    <3>1. i + k \in DOMAIN s /\ j + k \in DOMAIN s /\ i + k < j + k
      BY <2>4, <2>6
    <3> QED  BY <2>2, <2>5, <3>1 DEF Ordered
  <2> QED  BY <2>10, <2>11, <2>12 DEF Ordered
<1> QED  BY <1>1, <1>2

ToCome == {r \in Matching(reader.filter) : Behind(r)}

(* What was shown when n more rows are. *)
Beyond(rows, n) == reader.shown \o SubSeq(rows, 1, n)

(* The rows of a page stand after what was shown. *)
LEMMA PageIndices ==
  ASSUME ListingsTypeOK, NEW rows, Ordered(rows, ToCome), NEW n \in 0 .. Len(rows)
  PROVE  /\ rows \in Seq(Rows) /\ Beyond(rows, n) \in Seq(Rows) /\ DOMAIN rows = 1 .. Len(rows)
         /\ DOMAIN reader.shown = 1 .. Len(reader.shown) /\ DOMAIN Beyond(rows, n) = 1 .. Len(reader.shown) + n
         /\ \A i \in DOMAIN reader.shown : i \in DOMAIN Beyond(rows, n) /\ Beyond(rows, n)[i] = reader.shown[i]
         /\ \A i \in 1 .. n : i \in DOMAIN rows /\ Len(reader.shown) + i \in DOMAIN Beyond(rows, n) /\ Beyond(rows, n)[Len(reader.shown) + i] = rows[i]
         /\ \A i \in DOMAIN Beyond(rows, n) : i \in DOMAIN reader.shown \/ \E k \in 1 .. n : i = Len(reader.shown) + k
<1> DEFINE after == Beyond(rows, n)
           old == reader.shown
           page == SubSeq(rows, 1, n)
<1>1. old \in Seq(Rows) /\ ToCome \subseteq Rows /\ rows \in Seq(ToCome)
  BY DEF ListingsTypeOK, ReaderStates, Ordered, ToCome, Matching
<1>2. rows \in Seq(Rows) /\ Len(rows) \in Nat /\ n \in Nat
  BY <1>1
<1>3. page \in Seq(Rows) /\ Len(page) = n /\ \A i \in 1 .. n : page[i] = rows[i]
  <2>1. 1 \in 1 .. Len(rows) + 1 /\ n \in 1 - 1 .. Len(rows) /\ n - 1 + 1 = n
    BY <1>2
  <2>2. page \in Seq(Rows) /\ Len(page) = n - 1 + 1 /\ \A i \in 1 .. n - 1 + 1 : page[i] = rows[1 + i - 1]
    BY <1>2, <2>1, SubSeqProperties
  <2> QED  BY <1>2, <2>1, <2>2
<1> HIDE DEF page, old, after
<1>4. /\ after \in Seq(Rows) /\ Len(after) = Len(old) + n /\ Len(old) \in Nat
      /\ \A i \in 1 .. Len(after) : after[i] = IF i <= Len(old) THEN old[i] ELSE page[i - Len(old)]
  <2>1. after = old \o page
    BY DEF old, page, after, Beyond
  <2>2. after \in Seq(Rows) /\ Len(after) = Len(old) + Len(page)
        /\ \A i \in 1 .. Len(old) + Len(page) : after[i] = IF i <= Len(old) THEN old[i] ELSE page[i - Len(old)]
    BY <1>1, <1>3, <2>1, ConcatProperties
  <2> QED  BY <1>1, <1>3, <2>2
<1>5. \A i \in 1 .. Len(old) : i \in 1 .. Len(after) /\ after[i] = old[i]
  BY <1>2, <1>4
<1>6. \A i \in 1 .. n : i \in 1 .. Len(rows) /\ Len(old) + i \in 1 .. Len(after) /\ after[Len(old) + i] = rows[i]
  <2> SUFFICES ASSUME NEW i \in 1 .. n
               PROVE  i \in 1 .. Len(rows) /\ Len(old) + i \in 1 .. Len(after) /\ after[Len(old) + i] = rows[i]
    OBVIOUS
  <2>1. i \in 1 .. Len(rows) /\ Len(old) + i \in 1 .. Len(after) /\ ~(Len(old) + i <= Len(old)) /\ (Len(old) + i) - Len(old) = i
    BY <1>2, <1>4
  <2>2. after[Len(old) + i] = page[(Len(old) + i) - Len(old)]
    BY <1>4, <2>1
  <2> QED  BY <1>3, <2>1, <2>2
<1>7. \A i \in 1 .. Len(after) : i \in 1 .. Len(old) \/ \E k \in 1 .. n : i = Len(old) + k
  <2> SUFFICES ASSUME NEW i \in 1 .. Len(after), i \notin 1 .. Len(old) PROVE \E k \in 1 .. n : i = Len(old) + k
    OBVIOUS
  <2>1. i - Len(old) \in 1 .. n /\ i = Len(old) + (i - Len(old))
    BY <1>2, <1>4
  <2> QED  BY <2>1
<1>8. DOMAIN old = 1 .. Len(old) /\ DOMAIN after = 1 .. Len(old) + n /\ DOMAIN rows = 1 .. Len(rows)
  BY <1>1, <1>2, <1>4
<1> QED  BY <1>2, <1>4, <1>5, <1>6, <1>7, <1>8 DEF old, after

(* A page shows no row twice, and leaves nothing behind the cursor that stayed. *)
LEMMA PageDivides ==
  ASSUME ListingsTypeOK, PagingFits, CursorDivides, ~reader.switched,
         NEW rows, Ordered(rows, ToCome), NEW n \in 0 .. Len(rows)
  PROVE  /\ IsInjective(Beyond(rows, n))
         /\ \A i \in DOMAIN Beyond(rows, n) : place[Beyond(rows, n)[i]] # 0 /\ (n # 0 => ~Ahead(Key(rows[n]), Key(Beyond(rows, n)[i])))
         /\ \A r \in reader.steady :
              r \in Range(Beyond(rows, n)) \/ (n < Len(rows) /\ (n # 0 => Ahead(Key(rows[n]), Key(r))))
<1> DEFINE after == Beyond(rows, n)
           old == reader.shown
           l == Len(reader.shown)
<1>1. /\ rows \in Seq(Rows) /\ after \in Seq(Rows) /\ DOMAIN rows = 1 .. Len(rows) /\ Len(rows) \in Nat
      /\ DOMAIN old = 1 .. l /\ DOMAIN after = 1 .. l + n /\ l \in Nat /\ old \in Seq(Rows)
      /\ \A i \in DOMAIN old : i \in DOMAIN after /\ after[i] = old[i]
      /\ \A i \in 1 .. n : i \in DOMAIN rows /\ l + i \in DOMAIN after /\ after[l + i] = rows[i]
      /\ \A i \in DOMAIN after : i \in DOMAIN old \/ \E k \in 1 .. n : i = l + k
  <2>1. old \in Seq(Rows)
    BY DEF ListingsTypeOK, ReaderStates
  <2>2. /\ rows \in Seq(Rows) /\ after \in Seq(Rows) /\ DOMAIN rows = 1 .. Len(rows)
        /\ DOMAIN old = 1 .. l /\ DOMAIN after = 1 .. l + n
        /\ \A i \in DOMAIN old : i \in DOMAIN after /\ after[i] = old[i]
        /\ \A i \in 1 .. n : i \in DOMAIN rows /\ l + i \in DOMAIN after /\ after[l + i] = rows[i]
        /\ \A i \in DOMAIN after : i \in DOMAIN old \/ \E k \in 1 .. n : i = l + k
    BY PageIndices, Zenon
  <2> HIDE DEF after
  <2>3. Len(rows) \in Nat /\ l \in Nat
    BY <2>1, <2>2
  <2> QED  BY <2>1, <2>2, <2>3
<1>2. \A i \in DOMAIN rows : rows[i] \in Matching(reader.filter) /\ Behind(rows[i]) /\ place[rows[i]] # 0
  <2>1. \A i \in DOMAIN rows : rows[i] \in ToCome
    BY <1>1 DEF Ordered
  <2> QED  BY <2>1 DEF ToCome, Matching, ListingsTypeOK
<1>3. \A i \in DOMAIN old : ~Behind(old[i]) /\ place[old[i]] # 0 /\ old[i] \in Rows
  BY <1>1 DEF CursorDivides
<1>4. /\ reader.cursor \in [place : Nat, row : Nat] /\ \A r \in Rows : Key(r) \in [place : Nat, row : Nat]
      /\ \A i, j \in DOMAIN rows : i < j => Ahead(Key(rows[i]), Key(rows[j]))
  BY KeyTypes DEF Ordered, AheadRow
<1> HIDE DEF old, l, after
<1>5. ASSUME NEW i \in DOMAIN rows, NEW j \in DOMAIN rows, rows[i] = rows[j] PROVE i = j
  <2>1. ~Ahead(Key(rows[i]), Key(rows[j])) /\ ~Ahead(Key(rows[j]), Key(rows[i]))
    BY <1>1, <1>4, <1>5, AheadOrder
  <2>2. ~(i < j) /\ ~(j < i)
    BY <1>4, <2>1
  <2> QED  BY <1>1, <2>2
<1>6. \A i \in DOMAIN old, k \in 1 .. n : old[i] # rows[k]
  BY <1>1, <1>2, <1>3
<1>7. IsInjective(after)
  <2> SUFFICES ASSUME NEW i \in DOMAIN after, NEW j \in DOMAIN after, after[i] = after[j] PROVE i = j
    BY DEF IsInjective
  <2>1. CASE i \in DOMAIN old /\ j \in DOMAIN old
    BY <1>1, <2>1 DEF CursorDivides, IsInjective, old
  <2>2. CASE i \in DOMAIN old /\ j \notin DOMAIN old
    <3>1. PICK k \in 1 .. n : j = l + k
      BY <1>1, <2>2
    <3> QED  BY <1>1, <1>6, <2>2, <3>1
  <2>3. CASE i \notin DOMAIN old /\ j \in DOMAIN old
    <3>1. PICK k \in 1 .. n : i = l + k
      BY <1>1, <2>3
    <3> QED  BY <1>1, <1>6, <2>3, <3>1
  <2>4. CASE i \notin DOMAIN old /\ j \notin DOMAIN old
    <3>1. PICK k \in 1 .. n : i = l + k
      BY <1>1, <2>4
    <3>2. PICK m \in 1 .. n : j = l + m
      BY <1>1, <2>4
    <3>3. rows[k] = rows[m] /\ k \in DOMAIN rows /\ m \in DOMAIN rows
      BY <1>1, <3>1, <3>2
    <3> QED  BY <1>5, <3>1, <3>2, <3>3
  <2> QED  BY <2>1, <2>2, <2>3, <2>4
<1>8. ASSUME NEW i \in DOMAIN after PROVE place[after[i]] # 0 /\ (n # 0 => ~Ahead(Key(rows[n]), Key(after[i])))
  <2>0. n # 0 => n \in DOMAIN rows /\ rows[n] \in Rows
    BY <1>1
  <2>1. CASE i \in DOMAIN old
    <3>1. after[i] = old[i] /\ place[old[i]] # 0 /\ ~Behind(old[i]) /\ old[i] \in Rows
      BY <1>1, <1>3, <2>1
    <3>2. ASSUME n # 0 PROVE ~Ahead(Key(rows[n]), Key(old[i]))
      <4>1. Ahead(reader.cursor, Key(rows[n])) /\ ~Ahead(reader.cursor, Key(old[i]))
        BY <1>2, <2>0, <3>1, <3>2 DEF Behind
      <4> QED  BY <1>4, <2>0, <3>1, <3>2, <4>1, AheadOrder
    <3> QED  BY <3>1, <3>2
  <2>2. CASE i \notin DOMAIN old
    <3>1. PICK k \in 1 .. n : i = l + k
      BY <1>1, <2>2
    <3>2. after[i] = rows[k] /\ k \in DOMAIN rows /\ n \in DOMAIN rows /\ n # 0 /\ (k = n \/ k < n)
      BY <1>1, <3>1
    <3>3. ~Ahead(Key(rows[n]), Key(rows[k]))
      <4>1. Key(rows[n]) \in [place : Nat, row : Nat] /\ Key(rows[k]) \in [place : Nat, row : Nat]
        BY <1>1, <1>4, <3>2
      <4>2. k < n => Ahead(Key(rows[k]), Key(rows[n]))
        BY <1>4, <3>2
      <4> QED  BY <3>2, <4>1, <4>2, AheadOrder
    <3> QED  BY <1>2, <3>2, <3>3
  <2> QED  BY <2>1, <2>2
<1>9. ASSUME NEW r \in reader.steady, r \notin Range(after)
      PROVE  n < Len(rows) /\ (n # 0 => Ahead(Key(rows[n]), Key(r)))
  <2>1. r \notin Range(old)
    BY <1>1, <1>9 DEF Range
  <2>2. r \in ToCome
    BY <2>1 DEF CursorDivides, PagingFits, ToCome, old
  <2>3. PICK k \in DOMAIN rows : rows[k] = r
    BY <2>2 DEF Ordered
  <2>4. k \notin 1 .. n
    BY <1>1, <1>9, <2>3 DEF Range
  <2>5. n < k /\ n < Len(rows) /\ (n # 0 => n \in DOMAIN rows)
    BY <1>1, <2>3, <2>4
  <2> QED  BY <1>4, <2>3, <2>5
<1> QED  BY <1>7, <1>8, <1>9 DEF after

(* The invariant after a page. *)
LEMMA AnswerPageIInv ==
  ASSUME ListingsIInv, reader.step = "paging", ~(reader.switched /\ list \in Contextual),
         NEW following, \A rows \in following : Ordered(rows, ToCome), AnswerPage(following)
  PROVE  ListingsIInv'
<1> DEFINE TheAnswer(rows, more) ==
             [reader EXCEPT !.shown = @ \o SubSeq(rows, 1, IF more THEN PageRows ELSE Len(rows)),
                            !.cursor = IF more THEN NextCursor(rows) ELSE @,
                            !.context = reader.filter,
                            !.step = IF more THEN "paging" ELSE "done"]
<1>1. PICK rows \in following : reader' = TheAnswer(rows, Len(rows) > PageRows)
  BY DEF AnswerPage
<1>2. /\ Ordered(rows, ToCome) /\ ListingsTypeOK /\ PagingFits /\ CursorDivides
      /\ UNCHANGED <<list, place, group, listed>> /\ PageRows \in Nat \ {0}
  BY <1>1, ListingsAssumption DEF ListingsIInv, AnswerPage
<1>3. rows \in Seq(Rows) /\ Len(rows) \in Nat /\ reader \in ReaderStates
  BY <1>2 DEF Ordered, ToCome, Matching, ListingsTypeOK
<1>4. CASE Len(rows) > PageRows
  <2> DEFINE after == Beyond(rows, PageRows)
             last == rows[PageRows]
  <2>1. reader' = [reader EXCEPT !.shown = after, !.cursor = Key(last), !.context = reader.filter, !.step = "paging"]
    BY <1>1, <1>4 DEF NextCursor, Beyond
  <2>2. PageRows \in 0 .. Len(rows) /\ PageRows \in DOMAIN rows /\ PageRows # 0
    BY <1>2, <1>3, <1>4
  <2>3. after \in Seq(Rows)
    BY <1>2, <2>2, PageIndices
  <2>4. last \in Rows /\ place[last] # 0 /\ Key(last) \in [place : Nat, row : Nat] /\ Key(last) # Start
    <3>1. last \in ToCome
      BY <1>2, <2>2 DEF Ordered
    <3> QED  BY <1>2, <3>1, KeyTypes DEF ToCome, Matching, ListingsTypeOK
  <2>5. ListingsTypeOK'
    BY <1>2, <2>1, <2>3, <2>4 DEF ListingsTypeOK, ReaderStates
  <2>6. PagingFits'
    BY <1>2, <1>3, <2>1, <2>4 DEF PagingFits, ReaderStates, Matching, Key, Start, Contextual
  <2>7. CursorDivides'
    <3> SUFFICES ASSUME ~reader.switched PROVE CursorDivides'
      BY <1>3, <2>1 DEF CursorDivides, ReaderStates
    <3>1. /\ IsInjective(after)
          /\ \A i \in DOMAIN after : place[after[i]] # 0 /\ ~Ahead(Key(last), Key(after[i]))
          /\ \A r \in reader.steady : r \in Range(after) \/ Ahead(Key(last), Key(r))
      BY <1>2, <2>2, PageDivides
    <3> HIDE DEF after, last
    <3>2. reader'.shown = after /\ reader'.cursor = Key(last) /\ reader'.steady = reader.steady
      BY <1>3, <2>1 DEF ReaderStates
    <3>3. \A r : Behind(r)' <=> Ahead(Key(last), Key(r))
      BY <1>2, <2>4, <3>2 DEF Behind, Key, Start
    <3> QED  BY <1>2, <3>1, <3>2, <3>3 DEF CursorDivides
  <2>8. reader'.step = "paging"
    BY <1>3, <2>1 DEF ReaderStates
  <2> QED  BY <2>5, <2>6, <2>7, <2>8 DEF ListingsIInv, PagesShowAll
<1>5. CASE ~(Len(rows) > PageRows)
  <2> DEFINE after == Beyond(rows, Len(rows))
  <2>1. reader' = [reader EXCEPT !.shown = after, !.context = reader.filter, !.step = "done"]
    BY <1>1, <1>3, <1>5 DEF ReaderStates, Beyond
  <2>2. Len(rows) \in 0 .. Len(rows)
    BY <1>3
  <2>3. after \in Seq(Rows)
    BY <1>2, <2>2, PageIndices
  <2>4. ListingsTypeOK'
    BY <1>2, <2>1, <2>3 DEF ListingsTypeOK, ReaderStates
  <2>5. ASSUME ~reader.switched PROVE IsInjective(after) /\ reader.steady \subseteq Range(after)
    BY <1>2, <1>3, <2>2, <2>5, PageDivides
  <2> HIDE DEF after
  <2>6. reader'.step = "done" /\ reader'.shown = after /\ reader'.steady = reader.steady /\ reader'.switched = reader.switched
    BY <1>3, <2>1 DEF ReaderStates
  <2>7. ~(reader'.switched /\ list' \in Contextual)
    BY <1>2, <2>6 DEF Contextual
  <2>8. PagesShowAll'
    BY <1>2, <2>5, <2>6, <2>7 DEF PagesShowAll
  <2> QED  BY <2>4, <2>6, <2>7, <2>8 DEF ListingsIInv
<1> QED  BY <1>4, <1>5

(* Nobody reads yet. *)
LEMMA ListingsInitIInv ==
  ASSUME ListingsInit
  PROVE  ListingsIInv
<1>1. ListingsTypeOK
  BY DEF ListingsInit, ListingsTypeOK, ReaderStates, Idle, Start
<1> QED  BY <1>1 DEF ListingsInit, ListingsIInv, PagesShowAll, Idle

(* A new row is in the place of no row that was shown or stays. *)
LEMMA AppearIInv ==
  ASSUME ListingsIInv, NEW r \in Rows, Appear(r)
  PROVE  ListingsIInv'
<1>1. PICK p \in 1 .. MaxPlace : place' = [place EXCEPT ![r] = p]
  BY DEF Appear
<1>2. place[r] = 0 /\ listed' = listed \cup {r} /\ UNCHANGED <<list, group, reader>> /\ p \in Nat \ {0} /\ ListingsTypeOK
  BY <1>1, ListingsAssumption DEF Appear, ListingsIInv
<1>3. ListingsTypeOK'
  BY <1>1, <1>2 DEF ListingsTypeOK
<1>4. \A s \in Rows : place[s] # 0 => place'[s] = place[s] /\ Key(s)' = Key(s) /\ Behind(s)' = Behind(s)
  BY <1>1, <1>2 DEF ListingsTypeOK, Key, Behind
<1>5. ASSUME reader.step = "paging" PROVE PagingFits' /\ CursorDivides'
  <2>1. PagingFits /\ CursorDivides
    BY <1>5 DEF ListingsIInv
  <2>2. PagingFits'
    BY <1>2, <1>4, <2>1 DEF PagingFits, Matching
  <2>3. \A s \in reader.steady : s \in Rows /\ place[s] # 0
    BY <1>2, <2>1 DEF PagingFits, Matching, ListingsTypeOK
  <2>4. \A i \in DOMAIN reader.shown : reader.shown[i] \in Rows
    BY <1>2 DEF ListingsTypeOK, ReaderStates
  <2> QED  BY <1>2, <1>4, <2>1, <2>2, <2>3, <2>4 DEF CursorDivides
<1> QED  BY <1>2, <1>3, <1>5 DEF ListingsIInv, PagesShowAll

(* A request that changes comes ahead of the cursor if it was not there, and what was shown stays shown. *)
LEMMA TouchIInv ==
  ASSUME ListingsIInv, NEW r \in Rows, TouchRequest(r)
  PROVE  ListingsIInv'
<1>1. PICK p \in place[r] + 1 .. MaxPlace, g \in Groups : place' = [place EXCEPT ![r] = p] /\ group' = [group EXCEPT ![r] = g]
  BY DEF TouchRequest
<1>2. /\ list = "requests" /\ r \in listed /\ UNCHANGED <<list, listed>> /\ ListingsTypeOK
      /\ reader' = [reader EXCEPT !.steady = @ \ {r}]
  BY <1>1 DEF TouchRequest, Disturbed, ListingsIInv
<1>3. place[r] \in Nat /\ p \in Nat /\ p > place[r] /\ reader \in ReaderStates
  BY <1>1, <1>2, ListingsAssumption DEF ListingsTypeOK
<1>4. ListingsTypeOK'
  <2>1. reader' \in ReaderStates
    BY <1>2, <1>3 DEF ReaderStates
  <2> QED  BY <1>1, <1>2, <1>3, <2>1 DEF ListingsTypeOK
<1>5. /\ reader'.steady = reader.steady \ {r} /\ reader'.step = reader.step /\ reader'.cursor = reader.cursor
      /\ reader'.shown = reader.shown /\ reader'.filter = reader.filter /\ reader'.context = reader.context
      /\ reader'.switched = reader.switched
  BY <1>2, <1>3 DEF ReaderStates
<1>6. \A s \in Rows : s # r => place'[s] = place[s] /\ group'[s] = group[s] /\ Key(s)' = Key(s) /\ Behind(s)' = Behind(s)
  BY <1>1, <1>2, <1>5 DEF ListingsTypeOK, Key, Behind
<1>7. ~Behind(r) => ~Behind(r)'
  <2>1. Key(r)' = [place |-> p, row |-> r] /\ Key(r) = [place |-> place[r], row |-> r]
    BY <1>1, <1>2 DEF ListingsTypeOK, Key
  <2>2. reader.cursor \in [place : Nat, row : Nat] /\ r \in Nat
    BY <1>2, KeyTypes, ListingsAssumption
  <2>3. Ahead(reader.cursor, Key(r)') => Ahead(reader.cursor, Key(r))
    BY <1>3, <2>1, <2>2 DEF Ahead
  <2> QED  BY <1>5, <2>3 DEF Behind
<1>8. ASSUME reader.step = "paging" PROVE PagingFits' /\ CursorDivides'
  <2>1. PagingFits /\ CursorDivides
    BY <1>8 DEF ListingsIInv
  <2>2. PagingFits'
    <3>1. reader'.steady \subseteq Matching(reader.filter)'
      <4> SUFFICES ASSUME NEW s \in reader.steady, s # r PROVE s \in listed' /\ group'[s] \in reader'.filter
        BY <1>5 DEF Matching
      <4>1. s \in listed /\ group[s] \in reader.filter /\ s \in Rows
        BY <1>2, <2>1 DEF PagingFits, Matching, ListingsTypeOK
      <4> QED  BY <1>2, <1>5, <1>6, <4>1
    <3> QED  BY <1>2, <1>5, <2>1, <3>1 DEF PagingFits, Matching
  <2>3. \A s \in reader.steady : s \in Rows
    BY <1>3 DEF ReaderStates
  <2>4. \A i \in DOMAIN reader.shown : reader.shown[i] \in Rows
    BY <1>3 DEF ReaderStates
  <2>5. place'[r] # 0
    BY <1>1, <1>2, <1>3 DEF ListingsTypeOK
  <2>6. ASSUME ~reader.switched, NEW s \in reader.steady, s # r PROVE s \in Range(reader.shown) \/ Behind(s)'
    BY <1>6, <2>1, <2>3, <2>6 DEF CursorDivides
  <2>7. ASSUME ~reader.switched, NEW i \in DOMAIN reader.shown, NEW s \in Rows, s = reader.shown[i]
        PROVE  place'[s] # 0 /\ ~Behind(s)'
    <3>1. place[s] # 0 /\ ~Behind(s)
      BY <2>1, <2>7 DEF CursorDivides
    <3>2. CASE s = r
      BY <1>7, <2>5, <3>1, <3>2
    <3>3. CASE s # r
      BY <1>6, <3>1, <3>3
    <3> QED  BY <3>2, <3>3
  <2>8. CursorDivides'
    BY <1>5, <2>1, <2>3, <2>4, <2>6, <2>7 DEF CursorDivides
  <2> QED  BY <2>2, <2>8
<1> QED  BY <1>2, <1>4, <1>5, <1>8 DEF ListingsIInv, PagesShowAll

(* What leaves is no longer among what stays. *)
LEMMA LeaveIInv ==
  ASSUME ListingsIInv, NEW r \in Rows, Leave(r)
  PROVE  ListingsIInv'
<1>1. /\ listed' = listed \ {r} /\ UNCHANGED <<list, place, group>> /\ reader' = [reader EXCEPT !.steady = @ \ {r}]
      /\ ListingsTypeOK /\ reader \in ReaderStates
  BY DEF Leave, Disturbed, ListingsIInv, ListingsTypeOK
<1>2. reader' \in ReaderStates
  BY <1>1 DEF ReaderStates
<1>3. ListingsTypeOK'
  BY <1>1, <1>2 DEF ListingsTypeOK
<1>4. /\ reader'.steady = reader.steady \ {r} /\ reader'.step = reader.step /\ reader'.cursor = reader.cursor
      /\ reader'.shown = reader.shown /\ reader'.filter = reader.filter /\ reader'.context = reader.context
      /\ reader'.switched = reader.switched
  BY <1>1 DEF ReaderStates
<1>5. \A s \in Rows : Key(s)' = Key(s) /\ Behind(s)' = Behind(s)
  BY <1>1, <1>4 DEF Key, Behind
<1>6. ASSUME reader.step = "paging" PROVE PagingFits' /\ CursorDivides'
  <2>1. PagingFits /\ CursorDivides
    BY <1>6 DEF ListingsIInv
  <2>2. PagingFits'
    BY <1>1, <1>4, <1>5, <2>1 DEF PagingFits, Matching
  <2>3. reader.steady \subseteq Rows /\ \A i \in DOMAIN reader.shown : reader.shown[i] \in Rows
    BY <1>1 DEF ReaderStates
  <2>4. CursorDivides'
    BY <1>1, <1>4, <1>5, <2>1, <2>3 DEF CursorDivides
  <2> QED  BY <2>2, <2>4
<1> QED  BY <1>1, <1>3, <1>4, <1>6 DEF ListingsIInv, PagesShowAll

(* A user who comes back is where the user was. *)
LEMMA ComeBackIInv ==
  ASSUME ListingsIInv, NEW r \in Rows, ComeBack(r)
  PROVE  ListingsIInv'
<1>1. listed' = listed \cup {r} /\ place[r] # 0 /\ UNCHANGED <<list, place, group, reader>> /\ ListingsTypeOK
  BY DEF ComeBack, ListingsIInv
<1>2. ListingsTypeOK'
  BY <1>1 DEF ListingsTypeOK
<1>3. ASSUME reader.step = "paging" PROVE PagingFits' /\ CursorDivides'
  <2>1. PagingFits /\ CursorDivides
    BY <1>3 DEF ListingsIInv
  <2>2. PagingFits'
    BY <1>1, <2>1 DEF PagingFits, Matching, Key
  <2>3. CursorDivides'
    BY <1>1, <2>1 DEF CursorDivides, Behind, Key
  <2> QED  BY <2>2, <2>3
<1> QED  BY <1>1, <1>2, <1>3 DEF ListingsIInv, PagesShowAll

(* Whoever opens a list has seen nothing of it. *)
LEMMA OpenListIInv ==
  ASSUME ListingsIInv, NEW filter \in Filters, OpenList(filter)
  PROVE  ListingsIInv'
<1>1. /\ reader' = [Idle EXCEPT !.step = "paging", !.filter = filter, !.steady = Matching(filter)]
      /\ UNCHANGED <<list, place, group, listed>> /\ ListingsTypeOK
  BY DEF OpenList, ListingsIInv
<1>2. /\ reader' \in ReaderStates /\ reader'.steady = Matching(filter) /\ reader'.filter = filter /\ reader'.step = "paging"
      /\ reader'.cursor = Start /\ ~reader'.switched /\ reader'.shown = <<>>
  <2>1. filter \in SUBSET Groups /\ Matching(filter) \in SUBSET Rows
    BY <1>1, ListingsAssumption DEF Matching, ListingsTypeOK
  <2>2. Start \in [place : Nat, row : Nat] /\ <<>> \in Seq(Rows) /\ {} \in SUBSET Groups
    BY DEF Start
  <2> QED  BY <1>1, <2>1, <2>2 DEF ReaderStates, Idle
<1>3. ListingsTypeOK'
  BY <1>1, <1>2 DEF ListingsTypeOK
<1>4. PagingFits'
  BY <1>1, <1>2 DEF PagingFits, Matching
<1>5. CursorDivides'
  BY <1>2 DEF CursorDivides, Behind, IsInjective
<1> QED  BY <1>2, <1>3, <1>4, <1>5 DEF ListingsIInv, PagesShowAll

(* Whoever switches is seen to have, where the cursor knows its filter. *)
LEMMA SwitchFilterIInv ==
  ASSUME ListingsIInv, NEW filter \in Filters, SwitchFilter(filter)
  PROVE  ListingsIInv'
<1>1. /\ reader' = [reader EXCEPT !.filter = filter, !.shown = <<>>, !.steady = Matching(filter), !.switched = TRUE]
      /\ UNCHANGED <<list, place, group, listed>> /\ ListingsTypeOK /\ PagingFits /\ reader \in ReaderStates
      /\ reader.step = "paging" /\ reader.cursor # Start /\ ~reader.switched /\ filter # reader.filter
  BY DEF SwitchFilter, ListingsIInv, ListingsTypeOK
<1>2. /\ reader' \in ReaderStates /\ reader'.steady = Matching(filter) /\ reader'.filter = filter /\ reader'.step = "paging"
      /\ reader'.cursor = reader.cursor /\ reader'.switched /\ reader'.context = reader.context
  <2>1. filter \in SUBSET Groups /\ Matching(filter) \in SUBSET Rows /\ <<>> \in Seq(Rows)
    BY <1>1, ListingsAssumption DEF Matching, ListingsTypeOK
  <2> QED  BY <1>1, <2>1 DEF ReaderStates
<1>3. ListingsTypeOK'
  BY <1>1, <1>2 DEF ListingsTypeOK
<1>4. PagingFits'
  BY <1>1, <1>2 DEF PagingFits, Matching, Key
<1>5. CursorDivides'
  BY <1>2 DEF CursorDivides
<1> QED  BY <1>2, <1>3, <1>4, <1>5 DEF ListingsIInv, PagesShowAll

(* Whoever is refused sees no end. *)
LEMMA RefusePageIInv ==
  ASSUME ListingsIInv, RefusePage
  PROVE  ListingsIInv'
<1>1. reader' = [reader EXCEPT !.step = "refused"] /\ UNCHANGED <<list, place, group, listed>> /\ ListingsTypeOK
  BY DEF RefusePage, ListingsIInv
<1>2. reader' \in ReaderStates /\ reader'.step = "refused"
  BY <1>1 DEF ListingsTypeOK, ReaderStates
<1>3. ListingsTypeOK'
  BY <1>1, <1>2 DEF ListingsTypeOK
<1> QED  BY <1>2, <1>3 DEF ListingsIInv, PagesShowAll

(* A cursor that was drawn with another filter brings no page. *)
LEMMA ContextualIInv ==
  ASSUME ListingsIInv, reader.step = "paging",
         IF FirstPage \/ reader.context = reader.filter THEN AnswerPage(Following) ELSE RefusePage
  PROVE  ListingsIInv'
<1>1. CASE FirstPage \/ reader.context = reader.filter
  <2>1. ListingsTypeOK /\ PagingFits /\ AnswerPage(Following)
    BY <1>1 DEF ListingsIInv
  <2>2. ~(reader.switched /\ list \in Contextual)
    BY <1>1, <2>1 DEF FirstPage, PagingFits
  <2> QED  BY <2>1, <2>2, FollowingOrdered, AnswerPageIInv DEF ToCome
<1>2. CASE ~(FirstPage \/ reader.context = reader.filter)
  BY <1>2, RefusePageIInv
<1> QED  BY <1>1, <1>2

(* Every page. *)
LEMMA PageIInv ==
  ASSUME ListingsIInv,
         PageOfRequests \/ PageOfAudit \/ PageOfCandidates \/ PageOfHistory \/ PageOfNotifications \/ PageOfAccess
  PROVE  ListingsIInv'
<1>1. CASE PageOfRequests
  BY <1>1, ContextualIInv DEF PageOfRequests, PageAsked, RequestContextHolds
<1>2. CASE PageOfAudit
  BY <1>2, ContextualIInv DEF PageOfAudit, PageAsked, AuditContextHolds
<1>3. CASE PageOfCandidates
  BY <1>3, ContextualIInv DEF PageOfCandidates, PageAsked, CandidateContextHolds
<1>4. CASE PageOfHistory \/ PageOfNotifications
  <2>1. AnswerPage(Following) /\ reader.step = "paging" /\ list \notin Contextual /\ ListingsTypeOK
    BY <1>4 DEF PageOfHistory, PageOfNotifications, PageAsked, Contextual, ListingsIInv
  <2> QED  BY <2>1, FollowingOrdered, AnswerPageIInv DEF ToCome
<1>5. CASE PageOfAccess
  <2>1. list = "access" /\ reader.step = "paging" /\ list \notin Contextual /\ ListingsTypeOK /\ PagingFits
    BY <1>5 DEF PageOfAccess, PageAsked, Contextual, ListingsIInv
  <2>2. CASE FirstPage \/ reader.cursor.row \in Matching(reader.filter)
    <3>1. AnswerPage(FollowingRow)
      BY <1>5, <2>2 DEF PageOfAccess
    <3> QED  BY <2>1, <2>2, <3>1, FollowingRowOrdered, AnswerPageIInv DEF ToCome
  <2>3. CASE ~(FirstPage \/ reader.cursor.row \in Matching(reader.filter))
    <3>1. RefusePage
      BY <1>5, <2>3 DEF PageOfAccess
    <3> QED  BY <3>1, RefusePageIInv
  <2> QED  BY <2>2, <2>3
<1> QED  BY <1>1, <1>2, <1>3, <1>4, <1>5

(* PagesShowAll: whoever comes to the end of a list has seen every row that was there all *)
(* the while, and none twice, whatever came, moved or left between two pages.             *)
THEOREM PagesShowWhatStays == ConsoleSpec => []PagesShowAll
<1>1. ConsoleInit => ListingsIInv
  BY ConsoleParts, ListingsInitIInv
<1>2. ASSUME ListingsIInv, [ConsoleNext]_consoleVars PROVE ListingsIInv'
  <2>1. [ListingsNext]_listingVars
    BY <1>2, ConsoleParts
  <2>2. CASE \E r \in Rows : Appear(r) \/ TouchRequest(r) \/ Leave(r) \/ ComeBack(r)
    BY <1>2, <2>2, AppearIInv, TouchIInv, LeaveIInv, ComeBackIInv
  <2>3. CASE \E f \in Filters : OpenList(f) \/ SwitchFilter(f)
    BY <1>2, <2>3, OpenListIInv, SwitchFilterIInv
  <2>4. CASE PageOfRequests \/ PageOfAudit \/ PageOfCandidates \/ PageOfHistory \/ PageOfNotifications \/ PageOfAccess
    BY <1>2, <2>4, PageIInv
  <2>5. CASE UNCHANGED listingVars
    BY <1>2, <2>5 DEF listingVars, ListingsIInv, ListingsTypeOK, PagingFits, CursorDivides, PagesShowAll, Behind, Matching, Key
  <2> QED  BY <2>1, <2>2, <2>3, <2>4, <2>5 DEF ListingsNext
<1>3. ListingsIInv => PagesShowAll
  BY DEF ListingsIInv
<1> QED  BY <1>1, <1>2, <1>3, PTL DEF ConsoleSpec

=============================================================================
