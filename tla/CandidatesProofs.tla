---------------------------- MODULE CandidatesProofs ----------------------------
(***************************************************************************)
(* A request has one version that can still be deployed, and its versions  *)
(* lose nothing they have accumulated: for any Applications, contents,     *)
(* bindings, plans and editors.                                            *)
(***************************************************************************)
EXTENDS Candidates, TLAPS

Final == {"Superseded", "Terminated"}

Execution == {"none", "Preflight", "Blocked", "Running", "Succeeded", "Failed", "PartialFailed", "Terminated"}

(* What a version carries: observations, by Application. *)
Carriable == UNION {[S -> Nat] : S \in SUBSET Applications}

VersionState ==
  [request : Nat, number : Nat, binding : Bindings, content : Carriable,
   status : Status, execution : Execution, lock : Nat]

PassFits ==
  \/ pass = Idle
  \/ /\ pass.stage = "next"
     /\ pass.todo \subseteq Applications /\ pass.binding \in Bindings
  \/ /\ pass.stage = "diff"
     /\ pass.todo \subseteq Applications /\ pass.todo # {} /\ pass.binding \in Bindings
     /\ pass.manifests \in Contents
  \/ /\ pass.stage = "persist"
     /\ pass.todo \subseteq Applications /\ pass.binding \in Bindings
     /\ pass.observation \in Observations

OutsideTypeOK ==
  /\ target \in [Applications -> Contents]
  /\ live \in [Applications -> Contents]
  /\ managed \subseteq Applications
  /\ binding \in Bindings
  /\ changes \in 0..MaxChanges

RecordsTypeOK ==
  /\ seen \in Seq(Observations)
  /\ versions \in Seq(VersionState)
  /\ edit \in [Editors -> [version : Nat, lock : Nat]]

(* A version names observations there are and a request there is, and is   *)
(* deploying while its execution has not ended.                            *)
VersionFits(i) ==
  /\ \A a \in DOMAIN versions[i].content : versions[i].content[a] \in DOMAIN seen
  /\ versions[i].request <= Len(versions)
  /\ versions[i].execution \in {"Preflight", "Running"} => versions[i].status = "Deploying"

VersionsFit == \A i \in Indices : VersionFits(i)

(* The later of two versions of a request carries what the earlier carries. *)
Grows ==
  \A i, j \in Indices :
    SameRequest(i, j) /\ i < j =>
      /\ versions[i].binding = versions[j].binding
      /\ DOMAIN versions[i].content \subseteq DOMAIN versions[j].content
      /\ \A a \in DOMAIN versions[i].content : versions[i].content[a] <= versions[j].content[a]

PagesFit == \A e \in Editors : edit[e] # NoPage => edit[e].version \in Indices

RecordsFit == RecordsTypeOK /\ VersionsFit /\ OnlyNewestIsAlive /\ Grows /\ PagesFit

IInv == OutsideTypeOK /\ PassFits /\ RecordsFit

-----------------------------------------------------------------------------
(* Changes of a version *)

(* A change of version i leaves the others, and what version i carries. *)
LEMMA ChangedVersions ==
  ASSUME RecordsTypeOK, NEW i \in Indices, NEW status \in Status, NEW execution \in Execution, NEW lock \in Nat
  PROVE  LET new == Changed(i, status, execution, lock)
         IN  /\ new \in Seq(VersionState)
             /\ Len(new) = Len(versions) /\ DOMAIN new = Indices
             /\ \A j \in Indices :
                  /\ new[j].request = versions[j].request /\ new[j].number = versions[j].number
                  /\ new[j].binding = versions[j].binding /\ new[j].content = versions[j].content
                  /\ new[j].status = IF j = i THEN status ELSE versions[j].status
                  /\ new[j].execution = IF j = i THEN execution ELSE versions[j].execution
<1> DEFINE old == versions[i]
           row == [request |-> old.request, number |-> old.number, binding |-> old.binding,
                   content |-> old.content, status |-> status, execution |-> execution, lock |-> lock]
           new == [versions EXCEPT ![i] = row]
<1>1. versions \in Seq(VersionState) /\ Indices = 1..Len(versions) /\ Len(versions) \in Nat
  BY DEF RecordsTypeOK, Indices
<1>2. old \in VersionState
  BY <1>1
<1>3. row \in VersionState
  BY <1>2 DEF VersionState
<1>4. new \in Seq(VersionState) /\ Len(new) = Len(versions) /\ DOMAIN new = Indices
  BY <1>1, <1>3
<1>5. /\ row.request = old.request /\ row.number = old.number /\ row.binding = old.binding
      /\ row.content = old.content /\ row.status = status /\ row.execution = execution
  OBVIOUS
<1>6. \A j \in Indices : new[j] = IF j = i THEN row ELSE versions[j]
  BY <1>1
<1> HIDE DEF row, new
<1>7. Changed(i, status, execution, lock) = new
  BY DEF Changed, new, row
<1> QED  BY <1>4, <1>5, <1>6, <1>7

(* No version of the request comes after one that is still alive. *)
LEMMA AliveIsNewest ==
  ASSUME RecordsFit, NEW i \in Indices, versions[i].status \notin Final
  PROVE  \A j \in Indices : SameRequest(i, j) => j <= i
<1> QED  BY DEF RecordsFit, RecordsTypeOK, OnlyNewestIsAlive, Indices, Final, SameRequest

(* A version may change its status while it is alive, and may end at any time. *)
LEMMA ChangedFits ==
  ASSUME RecordsFit, UNCHANGED <<seen, edit>>,
         NEW i \in Indices, NEW status \in Status, NEW execution \in Execution, NEW lock \in Nat,
         versions' = Changed(i, status, execution, lock),
         status \in Final \/ versions[i].status \notin Final,
         execution \in {"Preflight", "Running"} => status = "Deploying"
  PROVE  RecordsFit'
<1>1. /\ versions' \in Seq(VersionState)
      /\ Len(versions') = Len(versions) /\ Indices' = Indices
      /\ \A j \in Indices :
           /\ versions'[j].request = versions[j].request /\ versions'[j].number = versions[j].number
           /\ versions'[j].binding = versions[j].binding /\ versions'[j].content = versions[j].content
           /\ versions'[j].status = IF j = i THEN status ELSE versions[j].status
           /\ versions'[j].execution = IF j = i THEN execution ELSE versions[j].execution
  BY ChangedVersions DEF RecordsFit, Indices
<1>2. RecordsTypeOK'
  BY <1>1 DEF RecordsFit, RecordsTypeOK
<1>3. VersionsFit'
  BY <1>1 DEF RecordsFit, VersionsFit, VersionFits
<1>4. OnlyNewestIsAlive'
  <2> SUFFICES ASSUME NEW j \in Indices, NEW k \in Indices, SameRequest(j, k), j < k
               PROVE  versions[j].number < versions[k].number /\ versions'[j].status \in Final
    BY <1>1 DEF OnlyNewestIsAlive, SameRequest, Final
  <2>1. versions[j].number < versions[k].number /\ versions[j].status \in Final
    BY DEF RecordsFit, OnlyNewestIsAlive, Final
  <2> QED  BY <1>1, <2>1
<1>5. Grows'
  BY <1>1 DEF RecordsFit, Grows, SameRequest
<1>6. PagesFit'
  BY <1>1 DEF RecordsFit, PagesFit
<1> QED  BY <1>2, <1>3, <1>4, <1>5, <1>6 DEF RecordsFit

-----------------------------------------------------------------------------
(* New versions *)

(* A new version is well-formed when what it carries is. *)
LEMMA NewVersionType ==
  ASSUME NEW request \in Nat, NEW number \in Nat, NEW b \in Bindings, NEW content \in Carriable
  PROVE  LET new == NewVersion(request, number, b, content)
         IN  /\ new \in VersionState
             /\ new.request = request /\ new.number = number /\ new.binding = b
             /\ new.content = content /\ new.status = "Candidate" /\ new.execution = "none"
<1> QED  BY DEF NewVersion, VersionState, Status, Execution

(* The first version of a request that is not there. *)
LEMMA FirstVersionFits ==
  ASSUME RecordsFit, UNCHANGED edit, NEW b \in Bindings, NEW content \in Carriable,
         seen' \in Seq(Observations), DOMAIN seen \subseteq DOMAIN seen',
         \A a \in DOMAIN content : content[a] \in DOMAIN seen',
         versions' = Append(versions, NewVersion(NextRequest, 1, b, content))
  PROVE  RecordsFit'
<1> DEFINE n == Len(versions)
           new == NewVersion(NextRequest, 1, b, content)
<1>1. versions \in Seq(VersionState) /\ n \in Nat /\ Indices = 1..n
  BY DEF RecordsFit, RecordsTypeOK, Indices
<1>2. /\ new \in VersionState
      /\ new.request = n + 1 /\ new.content = content /\ new.execution = "none"
  BY <1>1, NewVersionType DEF NextRequest
<1>3. \A i \in Indices : versions[i].request <= n
  BY DEF RecordsFit, VersionsFit, VersionFits
<1> HIDE DEF new
<1>4. /\ versions' \in Seq(VersionState) /\ Len(versions') = n + 1
      /\ \A i \in Indices : versions'[i] = versions[i]
      /\ versions'[n + 1] = new
  BY <1>1, <1>2 DEF new
<1>5. Indices' = Indices \cup {n + 1}
  BY <1>1, <1>4 DEF Indices
<1>6. \A i, j \in Indices' : SameRequest(i, j)' /\ i < j => i \in Indices /\ j \in Indices /\ SameRequest(i, j)
  <2> SUFFICES ASSUME NEW i \in Indices', NEW j \in Indices', SameRequest(i, j)', i < j
               PROVE  i \in Indices /\ j \in Indices /\ SameRequest(i, j)
    OBVIOUS
  <2>1. i \in Indices
    BY <1>1, <1>5
  <2>2. versions'[j].request <= n
    BY <1>3, <1>4, <2>1 DEF SameRequest
  <2>3. j \in Indices
    BY <1>1, <1>2, <1>4, <1>5, <2>2
  <2> QED  BY <1>4, <2>1, <2>3 DEF SameRequest
<1>7. RecordsTypeOK'
  BY <1>4 DEF RecordsFit, RecordsTypeOK
<1>8. VersionsFit'
  <2> SUFFICES ASSUME NEW i \in Indices' PROVE VersionFits(i)'
    BY DEF VersionsFit
  <2>1. CASE i \in Indices
    <3>1. VersionFits(i)
      BY <2>1 DEF RecordsFit, VersionsFit
    <3>2. versions[i] \in VersionState
      BY <1>1, <2>1
    <3>3. versions[i].request \in Nat
      BY <3>2 DEF VersionState
    <3> QED  BY <1>1, <1>3, <1>4, <2>1, <3>1, <3>3 DEF VersionFits
  <2>2. CASE i = n + 1
    BY <1>1, <1>2, <1>4, <2>2 DEF VersionFits
  <2> QED  BY <1>5, <2>1, <2>2
<1>9. OnlyNewestIsAlive' /\ Grows'
  <2> SUFFICES ASSUME NEW i \in Indices', NEW j \in Indices', SameRequest(i, j)', i < j
               PROVE  /\ versions'[i].number < versions'[j].number
                      /\ versions'[i].status \in {"Superseded", "Terminated"}
                      /\ versions'[i].binding = versions'[j].binding
                      /\ DOMAIN versions'[i].content \subseteq DOMAIN versions'[j].content
                      /\ \A a \in DOMAIN versions'[i].content : versions'[i].content[a] <= versions'[j].content[a]
    BY DEF OnlyNewestIsAlive, Grows
  <2>1. i \in Indices /\ j \in Indices /\ SameRequest(i, j)
    BY <1>6
  <2>2. versions'[i] = versions[i] /\ versions'[j] = versions[j]
    BY <1>4, <2>1
  <2>3. OnlyNewestIsAlive /\ Grows
    BY DEF RecordsFit
  <2> QED  BY <2>1, <2>2, <2>3 DEF OnlyNewestIsAlive, Grows
<1>10. PagesFit'
  BY <1>5 DEF RecordsFit, PagesFit
<1> QED  BY <1>7, <1>8, <1>9, <1>10 DEF RecordsFit

(* A version that is superseded by another stays where it is. *)
LEMMA SupersededVersions ==
  ASSUME RecordsTypeOK, NEW i \in Indices, NEW new \in VersionState
  PROVE  LET later == Superseded(i, new)
         IN  /\ later \in Seq(VersionState)
             /\ DOMAIN later = Indices \cup {Len(versions) + 1} /\ Len(later) = Len(versions) + 1
             /\ \A j \in Indices :
                  /\ later[j].request = versions[j].request /\ later[j].number = versions[j].number
                  /\ later[j].binding = versions[j].binding /\ later[j].content = versions[j].content
                  /\ later[j].status = IF j = i THEN "Superseded" ELSE versions[j].status
                  /\ later[j].execution = versions[j].execution
             /\ later[Len(versions) + 1] = new
<1> DEFINE old == Changed(i, "Superseded", versions[i].execution, versions[i].lock)
<1>1. /\ versions \in Seq(VersionState) /\ Len(versions) \in Nat /\ Indices = 1..Len(versions)
      /\ versions[i].execution \in Execution /\ versions[i].lock \in Nat /\ "Superseded" \in Status
  <2>1. versions[i] \in VersionState
    BY DEF RecordsTypeOK, Indices
  <2> QED  BY <2>1 DEF RecordsTypeOK, VersionState, Indices, Status
<1>2. /\ old \in Seq(VersionState) /\ Len(old) = Len(versions)
      /\ \A j \in Indices :
           /\ old[j].request = versions[j].request /\ old[j].number = versions[j].number
           /\ old[j].binding = versions[j].binding /\ old[j].content = versions[j].content
           /\ old[j].status = IF j = i THEN "Superseded" ELSE versions[j].status
           /\ old[j].execution = versions[j].execution
  BY <1>1, ChangedVersions
<1>3. Superseded(i, new) = Append(old, new)
  BY DEF Superseded
<1> HIDE DEF old
<1>4. /\ Append(old, new) \in Seq(VersionState) /\ Len(Append(old, new)) = Len(versions) + 1
      /\ DOMAIN Append(old, new) = Indices \cup {Len(versions) + 1}
      /\ \A j \in Indices : Append(old, new)[j] = old[j]
      /\ Append(old, new)[Len(versions) + 1] = new
  BY <1>1, <1>2
<1> QED  BY <1>2, <1>3, <1>4

(* A version that takes the place of an open one, and carries what that carried. *)
LEMMA NextVersionFits ==
  ASSUME RecordsFit, NEW i \in Indices, versions[i].status \in Open, NEW content \in Carriable,
         edit' \in [Editors -> [version : Nat, lock : Nat]],
         \A e \in Editors : edit'[e] \in {edit[e], NoPage},
         seen' \in Seq(Observations), DOMAIN seen \subseteq DOMAIN seen',
         DOMAIN versions[i].content \subseteq DOMAIN content,
         \A a \in DOMAIN content : content[a] \in DOMAIN seen',
         \A a \in DOMAIN versions[i].content : versions[i].content[a] <= content[a],
         versions' = Superseded(i, NewVersion(versions[i].request, versions[i].number + 1,
                                              versions[i].binding, content))
  PROVE  RecordsFit'
<1> DEFINE new == NewVersion(versions[i].request, versions[i].number + 1, versions[i].binding, content)
<1>1. /\ RecordsTypeOK /\ versions \in Seq(VersionState)
      /\ \A j \in Indices : versions[j].number \in Nat /\ versions[j].request \in Nat
      /\ versions[i].binding \in Bindings
  <2>1. \A j \in Indices : versions[j] \in VersionState
    BY DEF RecordsFit, RecordsTypeOK, Indices
  <2> QED  BY <2>1 DEF RecordsFit, RecordsTypeOK, VersionState
<1>2. PICK n \in Nat : n = Len(versions) /\ Indices = 1..n
  BY <1>1 DEF Indices
<1>3. /\ new \in VersionState
      /\ new.request = versions[i].request /\ new.number = versions[i].number + 1
      /\ new.binding = versions[i].binding /\ new.content = content /\ new.execution = "none"
  <2>1. versions[i].number + 1 \in Nat
    BY <1>1
  <2> QED  BY <1>1, <2>1, NewVersionType
<1>4. versions' = Superseded(i, new)
  OBVIOUS
<1> HIDE DEF new
<1>5. LET later == Superseded(i, new)
      IN  /\ later \in Seq(VersionState)
          /\ DOMAIN later = Indices \cup {n + 1} /\ Len(later) = n + 1
          /\ \A j \in Indices :
               /\ later[j].request = versions[j].request /\ later[j].number = versions[j].number
               /\ later[j].binding = versions[j].binding /\ later[j].content = versions[j].content
               /\ later[j].status = IF j = i THEN "Superseded" ELSE versions[j].status
               /\ later[j].execution = versions[j].execution
          /\ later[n + 1] = new
  <2>1. LET later == Superseded(i, new)
        IN  /\ later \in Seq(VersionState)
            /\ DOMAIN later = Indices \cup {Len(versions) + 1} /\ Len(later) = Len(versions) + 1
            /\ \A j \in Indices :
                 /\ later[j].request = versions[j].request /\ later[j].number = versions[j].number
                 /\ later[j].binding = versions[j].binding /\ later[j].content = versions[j].content
                 /\ later[j].status = IF j = i THEN "Superseded" ELSE versions[j].status
                 /\ later[j].execution = versions[j].execution
            /\ later[Len(versions) + 1] = new
    BY <1>1, <1>3, SupersededVersions
  <2> QED  BY <1>2, <2>1
<1>6. /\ versions' \in Seq(VersionState) /\ Len(versions') = n + 1
      /\ \A j \in Indices :
           /\ versions'[j].request = versions[j].request /\ versions'[j].number = versions[j].number
           /\ versions'[j].binding = versions[j].binding /\ versions'[j].content = versions[j].content
           /\ versions'[j].status = IF j = i THEN "Superseded" ELSE versions[j].status
           /\ versions'[j].execution = versions[j].execution
      /\ versions'[n + 1] = new
  BY <1>4, <1>5
<1>7. Indices' = Indices \cup {n + 1}
  BY <1>4, <1>5 DEF Indices
<1>8. versions[i].execution \notin {"Preflight", "Running"}
  BY DEF RecordsFit, VersionsFit, VersionFits, Open
<1>9. \A j \in Indices : SameRequest(i, j) => j <= i
  BY AliveIsNewest DEF Open, Final
<1>10. \A j \in Indices : SameRequest(j, n + 1)' => SameRequest(j, i) /\ j <= i
  <2> SUFFICES ASSUME NEW j \in Indices, SameRequest(j, n + 1)' PROVE SameRequest(j, i) /\ j <= i
    OBVIOUS
  <2>1. versions'[j].request = versions[j].request /\ versions'[n + 1].request = versions[i].request
    BY <1>3, <1>6
  <2>2. versions[j].request = versions[i].request
    BY <2>1 DEF SameRequest
  <2> QED  BY <1>9, <2>2 DEF SameRequest
<1>11. RecordsTypeOK'
  BY <1>6 DEF RecordsFit, RecordsTypeOK
<1>12. VersionsFit'
  <2> SUFFICES ASSUME NEW j \in Indices' PROVE VersionFits(j)'
    BY DEF VersionsFit
  <2>1. \A k \in Indices : VersionFits(k)
    BY DEF RecordsFit, VersionsFit
  <2>2. CASE j \in Indices
    <3>1. /\ versions'[j].request = versions[j].request /\ versions'[j].content = versions[j].content
          /\ versions'[j].status = IF j = i THEN "Superseded" ELSE versions[j].status
          /\ versions'[j].execution = versions[j].execution
      BY <1>6, <2>2
    <3>2. VersionFits(j) /\ versions[j].request \in Nat
      BY <1>1, <2>1, <2>2
    <3>3. \A a \in DOMAIN versions'[j].content : versions'[j].content[a] \in DOMAIN seen'
      BY <3>1, <3>2 DEF VersionFits
    <3>4. versions'[j].request <= Len(versions')
      BY <1>2, <1>6, <3>1, <3>2 DEF VersionFits
    <3>5. versions'[j].execution \in {"Preflight", "Running"} => versions'[j].status = "Deploying"
      BY <1>8, <3>1, <3>2 DEF VersionFits
    <3> QED  BY <3>3, <3>4, <3>5 DEF VersionFits
  <2>3. CASE j = n + 1
    BY <1>1, <1>2, <1>3, <1>6, <2>1, <2>3 DEF VersionFits
  <2> QED  BY <1>7, <2>2, <2>3
<1>13. OnlyNewestIsAlive'
  <2> SUFFICES ASSUME NEW j \in Indices', NEW k \in Indices', SameRequest(j, k)', j < k
               PROVE  versions'[j].number < versions'[k].number /\ versions'[j].status \in {"Superseded", "Terminated"}
    BY DEF OnlyNewestIsAlive
  <2>1. j \in Indices
    BY <1>2, <1>7
  <2>2. \A x, y \in Indices : SameRequest(x, y) /\ x < y =>
          versions[x].number < versions[y].number /\ versions[x].status \in {"Superseded", "Terminated"}
    BY DEF RecordsFit, OnlyNewestIsAlive
  <2>3. CASE k \in Indices
    <3>1. SameRequest(j, k)
      BY <1>6, <2>1, <2>3 DEF SameRequest
    <3>2. versions[j].number < versions[k].number /\ versions[j].status \in {"Superseded", "Terminated"}
      BY <2>1, <2>2, <2>3, <3>1
    <3> QED  BY <1>6, <2>1, <2>3, <3>2
  <2>4. CASE k = n + 1
    <3>1. SameRequest(j, i) /\ j <= i
      BY <1>10, <2>1, <2>4 DEF SameRequest
    <3>2. \/ j = i
          \/ versions[j].number < versions[i].number /\ versions[j].status \in {"Superseded", "Terminated"}
      <4>1. j = i \/ j < i
        BY <1>2, <2>1, <3>1
      <4>2. CASE j < i
        BY <2>1, <2>2, <3>1, <4>2
      <4> QED  BY <4>1, <4>2
    <3> QED  BY <1>1, <1>3, <1>6, <2>1, <2>4, <3>2
  <2> QED  BY <1>7, <2>3, <2>4
<1>14. Grows'
  <2> SUFFICES ASSUME NEW j \in Indices', NEW k \in Indices', SameRequest(j, k)', j < k
               PROVE  /\ versions'[j].binding = versions'[k].binding
                      /\ DOMAIN versions'[j].content \subseteq DOMAIN versions'[k].content
                      /\ \A a \in DOMAIN versions'[j].content : versions'[j].content[a] <= versions'[k].content[a]
    BY DEF Grows
  <2>1. j \in Indices
    BY <1>2, <1>7
  <2>2. \A x, y \in Indices : SameRequest(x, y) /\ x < y =>
          /\ versions[x].binding = versions[y].binding
          /\ DOMAIN versions[x].content \subseteq DOMAIN versions[y].content
          /\ \A a \in DOMAIN versions[x].content : versions[x].content[a] <= versions[y].content[a]
    BY DEF RecordsFit, Grows
  <2>3. CASE k \in Indices
    <3>1. SameRequest(j, k)
      BY <1>6, <2>1, <2>3 DEF SameRequest
    <3>2. /\ versions'[j].binding = versions[j].binding /\ versions'[j].content = versions[j].content
          /\ versions'[k].binding = versions[k].binding /\ versions'[k].content = versions[k].content
      BY <1>6, <2>1, <2>3
    <3> QED  BY <2>1, <2>2, <2>3, <3>1, <3>2
  <2>4. CASE k = n + 1
    <3>1. SameRequest(j, i) /\ j <= i
      BY <1>10, <2>1, <2>4 DEF SameRequest
    <3>2. versions'[j].binding = versions[j].binding /\ versions'[j].content = versions[j].content
      BY <1>6, <2>1
    <3>3. versions'[k].binding = versions[i].binding /\ versions'[k].content = content
      BY <1>3, <1>6, <2>4
    <3>4. CASE j = i
      BY <3>2, <3>3, <3>4
    <3>5. CASE j < i
      <4>1. /\ versions[j].binding = versions[i].binding
            /\ DOMAIN versions[j].content \subseteq DOMAIN versions[i].content
            /\ \A a \in DOMAIN versions[j].content : versions[j].content[a] <= versions[i].content[a]
        BY <2>1, <2>2, <3>1, <3>5
      <4>2. \A a \in DOMAIN versions[j].content :
              /\ versions[j].content[a] \in Int /\ versions[i].content[a] \in Int /\ content[a] \in Int
        <5>1. \A x \in Indices : \A a \in DOMAIN versions[x].content : versions[x].content[a] \in DOMAIN seen
          BY DEF RecordsFit, VersionsFit, VersionFits
        <5>2. DOMAIN seen \subseteq Int /\ DOMAIN seen' \subseteq Int
          BY DEF RecordsFit, RecordsTypeOK
        <5> QED  BY <2>1, <4>1, <5>1, <5>2
      <4>3. \A a \in DOMAIN versions[j].content : versions[j].content[a] <= content[a]
        BY <4>1, <4>2
      <4> QED  BY <3>2, <3>3, <4>1, <4>3
    <3> QED  BY <1>2, <2>1, <3>1, <3>4, <3>5
  <2> QED  BY <1>7, <2>3, <2>4
<1>15. PagesFit'
  BY <1>7 DEF RecordsFit, PagesFit
<1> QED  BY <1>11, <1>12, <1>13, <1>14, <1>15 DEF RecordsFit

-----------------------------------------------------------------------------
(* Invariance *)

(* Initially there is no version and no pass. *)
LEMMA InitIInv == Init => IInv
<1> SUFFICES ASSUME Init PROVE IInv
  OBVIOUS
<1>1. OutsideTypeOK /\ PassFits
  BY CandidatesAssumption DEF Init, OutsideTypeOK, PassFits
<1>2. seen = <<>> /\ versions = <<>> /\ Indices = {}
  BY DEF Init, Indices
<1>3. RecordsTypeOK /\ PagesFit
  BY <1>2 DEF Init, RecordsTypeOK, PagesFit, NoPage
<1>4. VersionsFit /\ OnlyNewestIsAlive /\ Grows
  BY <1>2 DEF VersionsFit, OnlyNewestIsAlive, Grows
<1> QED  BY <1>1, <1>3, <1>4 DEF IInv, RecordsFit

(* The records are untouched by all but the transactions. *)
LEMMA UnchangedFits == RecordsFit /\ UNCHANGED <<seen, versions, edit>> => RecordsFit'
BY DEF RecordsFit, RecordsTypeOK, VersionsFit, VersionFits, OnlyNewestIsAlive, Grows, PagesFit, Indices, SameRequest

(* What leaves the pass alone leaves it fitting. *)
LEMMA PassFitsKept == PassFits /\ UNCHANGED pass => PassFits'
BY DEF PassFits

(* What leaves the Applications, the binding and what is managed alone     *)
(* leaves their shapes.                                                    *)
LEMMA OutsideTypeKept ==
  OutsideTypeOK /\ UNCHANGED <<target, live, managed, binding, changes>> => OutsideTypeOK'
BY DEF OutsideTypeOK

(* Changes outside are counted up to their bound. *)
LEMMA ChangeCounts == OutsideTypeOK /\ Change => changes' \in 0..MaxChanges
BY CandidatesAssumption DEF OutsideTypeOK, Change

(* A pass that goes on with the next Application is a pass. *)
LEMMA LeftFits ==
  ASSUME PassFits, pass # Idle, NEW a, pass' = Left(a)
  PROVE  PassFits'
<1> QED  BY DEF PassFits, Left

-----------------------------------------------------------------------------
(* Steps *)

(* What happens outside of the program changes none of its records. *)
LEMMA OutsideIInv == IInv /\ Outside => IInv'
<1> SUFFICES ASSUME IInv, Outside PROVE IInv'
  OBVIOUS
<1>1. UNCHANGED <<seen, versions, edit, pass>>
  BY DEF Outside, Push, SyncByHand, Gate, Rebind
<1>2. OutsideTypeOK'
  <2>1. OutsideTypeOK /\ changes' \in 0..MaxChanges
    BY ChangeCounts DEF IInv, Outside, Push, SyncByHand, Gate, Rebind
  <2>2. CASE \E a \in Applications, content \in Contents : Push(a, content)
    BY <2>1, <2>2 DEF OutsideTypeOK, Push
  <2>3. CASE \E a \in Applications : SyncByHand(a)
    BY <2>1, <2>3 DEF OutsideTypeOK, SyncByHand
  <2>4. CASE \E a \in Applications : Gate(a)
    BY <2>1, <2>4 DEF OutsideTypeOK, Gate
  <2>5. CASE \E b \in Bindings : Rebind(b)
    BY <2>1, <2>5 DEF OutsideTypeOK, Rebind
  <2> QED  BY <2>2, <2>3, <2>4, <2>5 DEF Outside
<1> QED  BY <1>1, <1>2, UnchangedFits, PassFitsKept DEF IInv

(* What the worker reads, skips, finishes and loses. *)
LEMMA ReadingIInv ==
  ASSUME IInv,
         \/ Begin \/ Finish \/ Restart
         \/ \E a \in Applications : ReadTarget(a) \/ ReadDiff(a) \/ Skip(a)
  PROVE  IInv'
<1>1. UNCHANGED <<target, live, managed, binding, seen, versions, edit>>
  BY DEF Begin, Finish, Restart, ReadTarget, ReadDiff, Skip
<1>2. changes' \in 0..MaxChanges
  BY ChangeCounts DEF IInv, OutsideTypeOK, Begin, Finish, Restart, ReadTarget, ReadDiff, Skip
<1>3. OutsideTypeOK'
  BY <1>1, <1>2 DEF IInv, OutsideTypeOK
<1>4. PassFits /\ OutsideTypeOK
  BY DEF IInv
<1>5. PassFits'
  <2>1. CASE Begin
    BY <1>4, <2>1 DEF Begin, PassFits, OutsideTypeOK
  <2>2. CASE Finish \/ Restart
    BY <2>2 DEF Finish, Restart, PassFits
  <2>3. ASSUME NEW a \in Applications, ReadTarget(a) PROVE PassFits'
    <3>1. CASE a \in managed /\ live[a] # target[a]
      <4>1. pass' = [stage |-> "diff", todo |-> pass.todo, binding |-> pass.binding, manifests |-> target[a]]
        BY <2>3, <3>1 DEF ReadTarget
      <4>2. pass.todo \subseteq Applications /\ pass.binding \in Bindings /\ pass.todo # {}
        BY <1>4, <2>3 DEF PassFits, ReadTarget, Current, Idle
      <4>3. target[a] \in Contents
        BY <1>4 DEF OutsideTypeOK
      <4> QED  BY <4>1, <4>2, <4>3 DEF PassFits
    <3>2. CASE ~(a \in managed /\ live[a] # target[a])
      BY <1>4, <2>3, <3>2, LeftFits DEF ReadTarget, Idle
    <3> QED  BY <3>1, <3>2
  <2>4. ASSUME NEW a \in Applications, ReadDiff(a) PROVE PassFits'
    <3>1. CASE live[a] # target[a]
      <4> DEFINE observation == [application |-> a, binding |-> pass.binding, manifests |-> pass.manifests,
                                 diff |-> [to |-> target[a], from |-> live[a]]]
      <4>1. pass' = [stage |-> "persist", todo |-> pass.todo, binding |-> pass.binding,
                     observation |-> observation]
        BY <2>4, <3>1 DEF ReadDiff
      <4>2. pass.todo \subseteq Applications /\ pass.binding \in Bindings /\ pass.manifests \in Contents
        BY <1>4, <2>4 DEF PassFits, ReadDiff, Idle
      <4>3. target[a] \in Contents /\ live[a] \in Contents
        BY <1>4 DEF OutsideTypeOK
      <4>4. observation \in Observations
        BY <4>2, <4>3 DEF Observations
      <4> HIDE DEF observation
      <4> QED  BY <4>1, <4>2, <4>4 DEF PassFits
    <3>2. CASE ~(live[a] # target[a])
      BY <1>4, <2>4, <3>2, LeftFits DEF ReadDiff, Idle
    <3> QED  BY <3>1, <3>2
  <2>5. ASSUME NEW a \in Applications, Skip(a) PROVE PassFits'
    BY <1>4, <2>5, LeftFits DEF Skip, Idle
  <2> QED  BY <2>1, <2>2, <2>3, <2>4, <2>5
<1> QED  BY <1>1, <1>3, <1>5, UnchangedFits DEF IInv

(* The transaction of the worker. *)
LEMMA PersistIInv ==
  ASSUME IInv, Persist
  PROVE  IInv'
<1> DEFINE observation == pass.observation
           a == observation.application
           b == observation.binding
           content == [x \in {a} |-> Len(seen) + 1]
<1>1. /\ PassFits /\ OutsideTypeOK /\ RecordsFit /\ pass # Idle /\ pass.stage = "persist"
      /\ pass' = Left(a) /\ UNCHANGED <<target, live, managed, binding, edit, changes>>
  BY DEF IInv, Persist, Idle
<1>2. observation \in Observations
  BY <1>1 DEF PassFits, Idle
<1>3. a \in Applications /\ b \in Bindings
  BY <1>2 DEF Observations
<1>4. seen \in Seq(Observations) /\ Len(seen) \in Nat /\ DOMAIN seen = 1..Len(seen)
  BY <1>1 DEF RecordsFit, RecordsTypeOK
<1>5. DOMAIN content = {a} /\ content[a] = Len(seen) + 1 /\ content \in [{a} -> Nat]
  BY <1>4
<1>6. PassFits' /\ OutsideTypeOK'
  BY <1>1, LeftFits, OutsideTypeKept
<1>7. CASE Known(observation) \/ a \notin Planned[b]
  <2>1. UNCHANGED <<seen, versions>>
    BY <1>7 DEF Persist
  <2> QED  BY <1>1, <1>6, <2>1, UnchangedFits DEF IInv
<1>8. CASE ~(Known(observation) \/ a \notin Planned[b])
  <2>1. /\ seen' = Append(seen, observation)
        /\ IF Matching(b) = {}
             THEN versions' = Append(versions, NewVersion(NextRequest, 1, b, content))
             ELSE \E i \in Matching(b) :
                    /\ \A j \in Matching(b) : j <= i
                    /\ versions' = Superseded(i, NewVersion(versions[i].request, versions[i].number + 1,
                                                           b, Carried(i, content)))
    BY <1>8 DEF Persist
  <2> HIDE DEF observation, content, b
  <2>2. seen' \in Seq(Observations) /\ DOMAIN seen' = 1..(Len(seen) + 1)
    BY <1>2, <1>4, <2>1
  <2>3. DOMAIN seen \subseteq DOMAIN seen' /\ Len(seen) + 1 \in DOMAIN seen'
    BY <1>4, <2>2
  <2>4. CASE Matching(b) = {}
    <3>1. content \in Carriable
      BY <1>3, <1>5 DEF Carriable
    <3>2. \A x \in DOMAIN content : content[x] \in DOMAIN seen'
      BY <1>5, <2>3
    <3>3. UNCHANGED edit
      BY <1>1
    <3>4. versions' = Append(versions, NewVersion(NextRequest, 1, b, content))
      BY <2>1, <2>4
    <3>5. RecordsFit'
      BY <1>1, <1>3, <2>2, <2>3, <3>1, <3>2, <3>3, <3>4, FirstVersionFits
    <3> QED  BY <1>6, <3>5 DEF IInv
  <2>5. ASSUME NEW i \in Matching(b),
               versions' = Superseded(i, NewVersion(versions[i].request, versions[i].number + 1,
                                                    b, Carried(i, content)))
        PROVE  IInv'
    <3> DEFINE carried == Carried(i, content)
    <3>1. i \in Indices /\ versions[i].binding = b /\ versions[i].status \in Open
      BY DEF Matching
    <3>2. versions[i].content \in Carriable
      <4>1. versions[i] \in VersionState
        BY <1>1, <3>1 DEF RecordsFit, RecordsTypeOK, Indices
      <4> QED  BY <4>1 DEF VersionState
    <3>3. \A x \in DOMAIN versions[i].content :
            versions[i].content[x] \in DOMAIN seen /\ versions[i].content[x] \in Nat
      BY <1>1, <1>4, <3>1 DEF RecordsFit, VersionsFit, VersionFits
    <3>4. /\ DOMAIN carried = {a} \cup DOMAIN versions[i].content
          /\ \A x \in DOMAIN carried :
               carried[x] = IF x = a THEN Len(seen) + 1 ELSE versions[i].content[x]
      BY <1>5 DEF Carried
    <3>5. carried \in Carriable
      <4>1. DOMAIN versions[i].content \subseteq Applications
        BY <3>2 DEF Carriable
      <4>2. {a} \cup DOMAIN versions[i].content \in SUBSET Applications
        BY <1>3, <4>1
      <4>3. \A x \in {a} \cup DOMAIN versions[i].content : carried[x] \in Nat
        BY <1>4, <3>3, <3>4
      <4>4. carried = [x \in {a} \cup DOMAIN versions[i].content |-> carried[x]]
        BY <1>5 DEF Carried
      <4> HIDE DEF carried
      <4>5. carried \in [({a} \cup DOMAIN versions[i].content) -> Nat]
        BY <4>3, <4>4
      <4> QED  BY <4>2, <4>5 DEF Carriable
    <3> HIDE DEF carried
    <3>6. DOMAIN versions[i].content \subseteq DOMAIN carried
      BY <3>4
    <3>7. \A x \in DOMAIN carried : carried[x] \in DOMAIN seen'
      BY <2>3, <3>3, <3>4
    <3>8. \A x \in DOMAIN versions[i].content : versions[i].content[x] <= carried[x]
      BY <1>4, <3>3, <3>4
    <3>9. versions' = Superseded(i, NewVersion(versions[i].request, versions[i].number + 1,
                                               versions[i].binding, carried))
      BY <2>5, <3>1 DEF carried
    <3>10. /\ edit' \in [Editors -> [version : Nat, lock : Nat]]
           /\ \A e \in Editors : edit'[e] \in {edit[e], NoPage}
      BY <1>1 DEF RecordsFit, RecordsTypeOK
    <3>11. RecordsFit'
      BY <1>1, <2>2, <2>3, <3>1, <3>5, <3>6, <3>7, <3>8, <3>9, <3>10, NextVersionFits
    <3> QED  BY <1>6, <3>11 DEF IInv
  <2> QED  BY <2>1, <2>4, <2>5
<1> QED  BY <1>7, <1>8

(* Pages are opened on versions there are, and a save takes the place of an open one. *)
LEMMA EditorIInv ==
  ASSUME IInv, NEW e \in Editors, Editor(e)
  PROVE  IInv'
<1>1. /\ RecordsFit /\ RecordsTypeOK /\ OutsideTypeOK' /\ PassFits'
      /\ UNCHANGED seen
  <2>1. UNCHANGED <<target, live, managed, binding, seen, pass, changes>>
    BY DEF Editor, OpenPage, Save, Refuse
  <2> QED  BY <2>1, OutsideTypeKept, PassFitsKept DEF IInv, RecordsFit
<1>2. NoPage \in [version : Nat, lock : Nat]
  BY DEF NoPage
<1>3. ASSUME UNCHANGED versions, edit' \in [Editors -> [version : Nat, lock : Nat]],
             \A f \in Editors : edit'[f] \in {edit[f], NoPage} \/ edit'[f].version \in Indices
      PROVE  RecordsFit'
  <2>1. RecordsTypeOK' /\ PagesFit'
    BY <1>1, <1>3 DEF RecordsFit, RecordsTypeOK, PagesFit, Indices
  <2>2. VersionsFit' /\ OnlyNewestIsAlive' /\ Grows'
    BY <1>1, <1>3 DEF RecordsFit, VersionsFit, VersionFits, OnlyNewestIsAlive, Grows, Indices, SameRequest
  <2> QED  BY <2>1, <2>2 DEF RecordsFit
<1>4. ASSUME NEW i \in Indices, OpenPage(e, i) PROVE RecordsFit'
  <2> DEFINE page == [version |-> i, lock |-> versions[i].lock]
  <2>1. versions[i] \in VersionState /\ i \in Nat
    BY <1>1 DEF RecordsTypeOK, Indices
  <2>2. page \in [version : Nat, lock : Nat] /\ page.version = i
    BY <2>1 DEF VersionState
  <2>3. UNCHANGED versions /\ edit' = [edit EXCEPT ![e] = page]
    BY <1>4 DEF OpenPage
  <2> HIDE DEF page
  <2>4. /\ edit' \in [Editors -> [version : Nat, lock : Nat]]
        /\ \A f \in Editors : edit'[f] = IF f = e THEN page ELSE edit[f]
    BY <1>1, <2>2, <2>3 DEF RecordsTypeOK
  <2> QED  BY <1>3, <2>2, <2>3, <2>4
<1>5. ASSUME edit' = [edit EXCEPT ![e] = NoPage]
      PROVE  /\ edit' \in [Editors -> [version : Nat, lock : Nat]]
             /\ \A f \in Editors : edit'[f] \in {edit[f], NoPage}
  BY <1>1, <1>2, <1>5 DEF RecordsTypeOK
<1>6. CASE Save(e)
  <2> DEFINE i == edit[e].version
  <2>1. /\ edit[e] # NoPage /\ versions[i].status \in Open
        /\ versions' = Superseded(i, NewVersion(versions[i].request, versions[i].number + 1,
                                               versions[i].binding, versions[i].content))
        /\ edit' = [edit EXCEPT ![e] = NoPage]
    BY <1>6 DEF Save, StillShown
  <2>2. i \in Indices
    BY <1>1, <2>1 DEF RecordsFit, PagesFit
  <2> HIDE DEF i
  <2>3. versions[i] \in VersionState
    BY <1>1, <2>2 DEF RecordsTypeOK, Indices
  <2>4. versions[i].content \in Carriable
    BY <2>3 DEF VersionState
  <2>5. \A a \in DOMAIN versions[i].content :
          versions[i].content[a] \in DOMAIN seen /\ versions[i].content[a] <= versions[i].content[a]
    <3>1. \A a \in DOMAIN versions[i].content : versions[i].content[a] \in DOMAIN seen
      BY <1>1, <2>2 DEF RecordsFit, VersionsFit, VersionFits
    <3>2. DOMAIN seen \subseteq Int
      BY <1>1 DEF RecordsTypeOK
    <3> QED  BY <3>1, <3>2
  <2>6. seen' \in Seq(Observations) /\ DOMAIN seen' = DOMAIN seen
    BY <1>1 DEF RecordsTypeOK
  <2>7. /\ edit' \in [Editors -> [version : Nat, lock : Nat]]
        /\ \A f \in Editors : edit'[f] \in {edit[f], NoPage}
    BY <1>5, <2>1
  <2> DEFINE content == versions[i].content
  <2>8. /\ content \in Carriable /\ DOMAIN versions[i].content \subseteq DOMAIN content
        /\ \A a \in DOMAIN content : content[a] \in DOMAIN seen'
        /\ \A a \in DOMAIN versions[i].content : versions[i].content[a] <= content[a]
        /\ DOMAIN seen \subseteq DOMAIN seen'
    BY <2>4, <2>5, <2>6
  <2>9. versions' = Superseded(i, NewVersion(versions[i].request, versions[i].number + 1,
                                             versions[i].binding, content))
    BY <2>1
  <2>10. versions[i].status \in Open /\ seen' \in Seq(Observations) /\ RecordsFit
    BY <1>1, <2>1, <2>6
  <2> HIDE DEF content
  <2>11. RecordsFit'
    BY <2>2, <2>7, <2>8, <2>9, <2>10, NextVersionFits
  <2> QED  BY <1>1, <2>11 DEF IInv
<1>7. CASE Refuse(e)
  <2>1. UNCHANGED versions /\ edit' = [edit EXCEPT ![e] = NoPage]
    BY <1>7 DEF Refuse
  <2>2. /\ edit' \in [Editors -> [version : Nat, lock : Nat]]
        /\ \A f \in Editors : edit'[f] \in {edit[f], NoPage}
    BY <1>5, <2>1
  <2>3. UNCHANGED versions
    BY <2>1
  <2>4. RecordsFit'
    BY <1>3, <2>2, <2>3
  <2> QED  BY <1>1, <2>4 DEF IInv
<1> QED  BY <1>1, <1>4, <1>6, <1>7 DEF Editor, IInv

(* A deployment begins with a version that is alive, and keeps it deploying *)
(* until it ends.                                                           *)
LEMMA DeploymentIInv ==
  ASSUME IInv, Deployment
  PROVE  IInv'
<1>1. /\ RecordsFit /\ OutsideTypeOK
      /\ UNCHANGED <<target, managed, binding, seen, pass, edit>>
  BY DEF IInv, Deployment, Deploy, Retry, Block, PassPreflight, Sync, Complete, Terminate
<1>2. changes' \in 0..MaxChanges
  BY <1>1, ChangeCounts DEF OutsideTypeOK, Deployment, Deploy, Retry, Block, PassPreflight, Sync, Complete, Terminate
<1>3. PassFits'
  BY <1>1, PassFitsKept DEF IInv
<1>4. \A i \in Indices :
        /\ versions[i].lock \in Nat /\ versions[i].lock + 1 \in Nat
        /\ versions[i].status \in Status
        /\ versions[i].execution \in {"Preflight", "Running"} => versions[i].status = "Deploying"
  <2>1. \A i \in Indices : versions[i] \in VersionState
    BY <1>1 DEF RecordsFit, RecordsTypeOK, Indices
  <2>2. \A i \in Indices : versions[i].execution \in {"Preflight", "Running"} => versions[i].status = "Deploying"
    BY <1>1 DEF RecordsFit, VersionsFit, VersionFits
  <2> QED  BY <2>1, <2>2 DEF VersionState
<1>5. ASSUME NEW i \in Indices, NEW status \in Status, NEW execution \in Execution, NEW lock \in Nat,
             versions' = Changed(i, status, execution, lock), UNCHANGED live,
             status \in Final \/ versions[i].status \notin Final,
             execution \in {"Preflight", "Running"} => status = "Deploying"
      PROVE  IInv'
  <2>1. RecordsFit'
    BY <1>1, <1>5, ChangedFits
  <2>2. OutsideTypeOK'
    BY <1>1, <1>2, <1>5 DEF OutsideTypeOK
  <2> QED  BY <1>3, <2>1, <2>2 DEF IInv
<1>6. ASSUME NEW i \in Indices, Deploy(i) \/ Retry(i) PROVE IInv'
  <2>1. versions' = Changed(i, "Deploying", "Preflight", versions[i].lock + 1) /\ UNCHANGED live
    BY <1>6 DEF Deploy, Retry, Becomes
  <2>2. versions[i].status \notin Final
    BY <1>6 DEF Deploy, Retry, Final
  <2>3. "Deploying" \in Status /\ "Preflight" \in Execution
    BY DEF Status, Execution
  <2> QED  BY <1>4, <1>5, <2>1, <2>2, <2>3
<1>7. ASSUME NEW i \in Indices, Block(i) PROVE IInv'
  <2>1. versions' = Changed(i, "Superseded", "Blocked", versions[i].lock + 1) /\ UNCHANGED live
    BY <1>7 DEF Block, Becomes
  <2>2. "Superseded" \in Status /\ "Blocked" \in Execution /\ "Superseded" \in Final
    BY DEF Status, Execution, Final
  <2> QED  BY <1>4, <1>5, <2>1, <2>2
<1>8. ASSUME NEW i \in Indices, PassPreflight(i) PROVE IInv'
  <2>1. versions' = Changed(i, versions[i].status, "Running", versions[i].lock) /\ UNCHANGED live
    BY <1>8 DEF PassPreflight
  <2>2. versions[i].status = "Deploying"
    BY <1>4, <1>8 DEF PassPreflight
  <2>3. "Running" \in Execution /\ "Deploying" \notin Final
    BY DEF Execution, Final
  <2> QED  BY <1>4, <1>5, <2>1, <2>2, <2>3
<1>9. ASSUME NEW i \in Indices, NEW a \in DOMAIN versions[i].content, Sync(i, a) PROVE IInv'
  <2>1. UNCHANGED <<versions, changes>>
    BY <1>9 DEF Sync
  <2>2. live' \in [Applications -> Contents]
    <3>1. seen[versions[i].content[a]] \in Observations
      BY <1>1 DEF RecordsFit, RecordsTypeOK, VersionsFit, VersionFits
    <3>2. seen[versions[i].content[a]].manifests \in Contents
      BY <3>1 DEF Observations
    <3> QED  BY <1>1, <1>9, <3>2 DEF OutsideTypeOK, Sync
  <2>3. OutsideTypeOK'
    BY <1>1, <2>1, <2>2 DEF OutsideTypeOK
  <2> QED  BY <1>1, <1>3, <2>1, <2>3, UnchangedFits DEF IInv
<1>10. ASSUME NEW i \in Indices, Complete(i) PROVE IInv'
  <2>1. PICK status \in {"Succeeded", "Failed", "PartialFailed"} :
          versions' = Changed(i, status, status, versions[i].lock + 1)
    BY <1>10 DEF Complete, Becomes
  <2>2. versions[i].status = "Deploying" /\ UNCHANGED live
    BY <1>4, <1>10 DEF Complete
  <2>3. status \in Status /\ status \in Execution /\ status \notin {"Preflight", "Running"} /\ "Deploying" \notin Final
    BY <2>1 DEF Status, Execution, Final
  <2> QED  BY <1>4, <1>5, <2>1, <2>2, <2>3
<1>11. ASSUME NEW i \in Indices, Terminate(i) PROVE IInv'
  <2>1. versions' = Changed(i, "Terminated", "Terminated", versions[i].lock + 1) /\ UNCHANGED live
    BY <1>11 DEF Terminate, Becomes
  <2>2. "Terminated" \in Status /\ "Terminated" \in Execution /\ "Terminated" \in Final
    BY DEF Status, Execution, Final
  <2> QED  BY <1>4, <1>5, <2>1, <2>2
<1> QED  BY <1>6, <1>7, <1>8, <1>9, <1>10, <1>11 DEF Deployment

(* Every step keeps the invariant. *)
LEMMA NextIInv == IInv /\ [Next]_vars => IInv'
<1> SUFFICES ASSUME IInv, [Next]_vars PROVE IInv'
  OBVIOUS
<1>1. CASE Outside
  BY <1>1, OutsideIInv
<1>2. CASE Worker \/ Restart \/ \E a \in Applications : Skip(a)
  BY <1>2, ReadingIInv, PersistIInv DEF Worker
<1>3. CASE Deployment
  BY <1>3, DeploymentIInv
<1>4. CASE \E e \in Editors : Editor(e)
  BY <1>4, EditorIInv
<1>5. CASE UNCHANGED vars
  BY <1>5, UnchangedFits, PassFitsKept, OutsideTypeKept DEF IInv, vars
<1> QED  BY <1>1, <1>2, <1>3, <1>4, <1>5 DEF Next

(* The records of requests, versions and the pass fit each other in every  *)
(* state.                                                                  *)
LEMMA Invariance == Spec => []IInv
BY InitIInv, NextIInv, PTL DEF Spec

-----------------------------------------------------------------------------
(* Theorems *)

(* The records of the candidate worker, of the editors and of the          *)
(* executions stay well-formed.                                            *)
THEOREM TypeCorrect == Spec => []TypeOK
<1>1. IInv => TypeOK
  <2> SUFFICES ASSUME IInv PROVE TypeOK
    OBVIOUS
  <2>1. OutsideTypeOK /\ RecordsTypeOK /\ VersionsFit
    BY DEF IInv, RecordsFit
  <2>2. ASSUME NEW i \in Indices
        PROVE  /\ versions[i].status \in Status /\ versions[i].binding \in Bindings
               /\ DOMAIN versions[i].content \subseteq Applications
               /\ \A a \in DOMAIN versions[i].content : versions[i].content[a] \in DOMAIN seen
    <3>1. versions[i] \in VersionState
      BY <2>1 DEF RecordsTypeOK, Indices
    <3>2. versions[i].content \in Carriable /\ versions[i].status \in Status /\ versions[i].binding \in Bindings
      BY <3>1 DEF VersionState
    <3>3. DOMAIN versions[i].content \subseteq Applications
      BY <3>2 DEF Carriable
    <3> QED  BY <2>1, <3>2, <3>3 DEF VersionsFit, VersionFits
  <2> QED  BY <2>1, <2>2 DEF TypeOK, OutsideTypeOK, RecordsTypeOK
<1> QED  BY <1>1, Invariance, PTL

(* However the worker, editors and deployments interleave, only the newest *)
(* version of a request can still be deployed, and no number is used twice. *)
THEOREM OnlyTheNewestIsAlive == Spec => []OnlyNewestIsAlive
<1>1. IInv => OnlyNewestIsAlive
  BY DEF IInv, RecordsFit
<1> QED  BY <1>1, Invariance, PTL

(* A later version of a request carries all that an earlier one carried,   *)
(* under the same binding, and nothing older.                              *)
THEOREM NothingAccumulatedIsLost == Spec => []AccumulationIsMonotone
<1>1. IInv => AccumulationIsMonotone
  <2> SUFFICES ASSUME IInv, NEW i \in Indices, NEW j \in Indices,
                      SameRequest(i, j), versions[i].number < versions[j].number
               PROVE  /\ versions[i].binding = versions[j].binding
                      /\ DOMAIN versions[i].content \subseteq DOMAIN versions[j].content
                      /\ \A a \in DOMAIN versions[i].content : versions[i].content[a] <= versions[j].content[a]
    BY DEF AccumulationIsMonotone
  <2>1. RecordsTypeOK /\ OnlyNewestIsAlive /\ Grows
    BY DEF IInv, RecordsFit
  <2>2. versions[i] \in VersionState /\ versions[j] \in VersionState /\ i \in Nat /\ j \in Nat
    BY <2>1 DEF RecordsTypeOK, Indices
  <2>3. versions[i].number \in Nat /\ versions[j].number \in Nat
    BY <2>2 DEF VersionState
  <2>4. i < j
    <3>1. SameRequest(j, i) /\ i # j
      BY <2>3 DEF SameRequest
    <3>2. ~(j < i)
      BY <2>1, <2>3, <3>1 DEF OnlyNewestIsAlive
    <3> QED  BY <2>2, <3>1, <3>2
  <2> QED  BY <2>1, <2>4 DEF Grows
<1> QED  BY <1>1, Invariance, PTL

=============================================================================
