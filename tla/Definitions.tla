------------------------------ MODULE Definitions ------------------------------
(***************************************************************************)
(* A workflow or a plan is defined by versions that are drafted, published *)
(* and disabled, and an environment is bound to a published version of     *)
(* each.  Authors work from pages that may be old: every command says what *)
(* it saw, and is checked when it is loaded and again when it is written.  *)
(*                                                                         *)
(* One definition is edited; the environment's other one stays as it is.   *)
(* Every change of a version's lifecycle counts its lock version up, so    *)
(* to compare lock versions is to compare lifecycles.  Whether a draft's   *)
(* document is valid is the matter of PlanCycle; here it may be refused.   *)
(***************************************************************************)
EXTENDS Integers, Sequences

CONSTANTS
  Authors,      \* administrators and their requests
  MaxVersions,  \* bounds the versions of the definition
  MaxBindings   \* bounds the changes of the binding

ASSUME DefinitionsAssumption ==
  MaxVersions \in Nat \ {0} /\ MaxBindings \in Nat \ {0} /\ "nobody" \notin Authors

VARIABLES
  subject,   \* "workflow" or "plan"
  versions,  \* versions[n]: the lifecycle of version n
  gone,      \* the versions as they were deleted with their workflow
  owner,     \* whose transaction has locked the row of the definition
  binding,   \* the version the environment is bound to, 0 for none, and the lock version
  binder,    \* whose transaction has locked the row of the environment
  desk       \* desk[a]: the command of a, and what a saw when giving it

definitionVars == <<subject, versions, gone, owner, binding, binder, desk>>

Free == [step |-> "free", seen |-> <<>>, bound |-> 0, number |-> 0]

DefinitionsInit ==
  /\ subject \in {"workflow", "plan"}
  /\ versions = <<"Draft">>
  /\ gone = <<>>
  /\ owner = "nobody"
  /\ binding = [number |-> 0, version |-> 0]
  /\ binder = "nobody"
  /\ desk = [a \in Authors |-> Free]

(* A definition without versions has been deleted. *)
Exists == versions # <<>>

After(lifecycle) == IF lifecycle = "Draft" THEN "Published" ELSE "Disabled"

Drop(a) == desk' = [desk EXCEPT ![a] = Free]

Carry(a, step, n) ==
  desk' = [desk EXCEPT ![a] = [step |-> step, seen |-> desk[a].seen, bound |-> desk[a].bound, number |-> n]]

-----------------------------------------------------------------------------
(* Pages *)

Open(a) ==
  /\ desk[a].step = "free" /\ Exists
  /\ desk' = [desk EXCEPT ![a] = [step |-> "page", seen |-> versions, bound |-> binding.version, number |-> 0]]
  /\ UNCHANGED <<subject, versions, gone, owner, binding, binder>>

(* The request is cancelled or its process dies: its transaction is undone. *)
Abandon(a) ==
  /\ desk[a].step # "free"
  /\ Drop(a)
  /\ owner' = IF owner = a THEN "nobody" ELSE owner
  /\ binder' = IF binder = a THEN "nobody" ELSE binder
  /\ UNCHANGED <<subject, versions, gone, binding>>

-----------------------------------------------------------------------------
(* Versions *)

(* A new version follows the one the author saw as the latest, and no draft. *)
MayFollow(list, expected) ==
  /\ list # <<>> /\ Len(list) = expected
  /\ \A n \in DOMAIN list : list[n] # "Draft"

(* The document is refused, or the draft is on its way. *)
CreateVersion(a) ==
  /\ desk[a].step = "page" /\ Len(versions) < MaxVersions
  /\ \/ /\ MayFollow(versions, Len(desk[a].seen))
        /\ Carry(a, "append", Len(versions) + 1)
     \/ Drop(a)
  /\ UNCHANGED <<subject, versions, gone, owner, binding, binder>>

(* One transaction that locks the definition. *)
AppendVersion(a) ==
  /\ desk[a].step = "append" /\ owner = "nobody"
  /\ versions' = IF MayFollow(versions, desk[a].number - 1) THEN Append(versions, "Draft") ELSE versions
  /\ Drop(a)
  /\ UNCHANGED <<subject, gone, owner, binding, binder>>

(* A version is published or disabled from the page that showed it. *)
ChangeLifecycle(a, n) ==
  /\ desk[a].step = "page" /\ n \in DOMAIN desk[a].seen
  /\ IF n \in DOMAIN versions /\ versions[n] = desk[a].seen[n] /\ versions[n] # "Disabled"
       THEN Carry(a, "change", n)
       ELSE Drop(a)
  /\ UNCHANGED <<subject, versions, gone, owner, binding, binder>>

(* Mutant of IsAsSeen: the update does not compare the lock version. *)
IsThere(a) == desk[a].number \in DOMAIN versions

IsAsSeen(a) ==
  desk[a].number \in DOMAIN versions /\ versions[desk[a].number] = desk[a].seen[desk[a].number]

(* The row of the version is updated; that of the definition is not locked. *)
UpdateLifecycle(a) ==
  /\ desk[a].step = "change"
  /\ versions' = IF IsAsSeen(a)
                   THEN [versions EXCEPT ![desk[a].number] = After(desk[a].seen[desk[a].number])]
                   ELSE versions
  /\ Drop(a)
  /\ UNCHANGED <<subject, gone, owner, binding, binder>>

-----------------------------------------------------------------------------
(* Deletion of a workflow *)

(* The workflow is locked, its versions are read and their uses are counted. *)
LockUnused(a) ==
  /\ subject = "workflow"
  /\ desk[a].step = "page" /\ owner = "nobody"
  /\ IF /\ Exists /\ Len(versions) = Len(desk[a].seen)
        /\ \A n \in DOMAIN versions : versions[n] = "Draft"
        /\ binding.number = 0
       THEN /\ owner' = a
            /\ Carry(a, "delete", 0)
       ELSE Drop(a) /\ UNCHANGED owner
  /\ UNCHANGED <<subject, versions, gone, binding, binder>>

(* Whatever versions there are by now go; a binding keeps its own. *)
DeleteRecords(a) ==
  /\ desk[a].step = "delete"
  /\ IF binding.number = 0
       THEN versions' = <<>> /\ gone' = versions
       ELSE UNCHANGED <<versions, gone>>
  /\ owner' = "nobody" /\ Drop(a)
  /\ UNCHANGED <<subject, binding, binder>>

-----------------------------------------------------------------------------
(* The binding of the environment *)

(* The environment is locked, and the version must be published. *)
CheckPublished(a, n) ==
  /\ desk[a].step = "page" /\ n \in DOMAIN desk[a].seen
  /\ binder = "nobody" /\ binding.version < MaxBindings
  /\ IF n \in DOMAIN versions /\ versions[n] = "Published"
       THEN /\ binder' = a
            /\ Carry(a, "bind", n)
       ELSE Drop(a) /\ UNCHANGED binder
  /\ UNCHANGED <<subject, versions, gone, owner, binding>>

(* The version must still be there, and the binding be the one of the page. *)
Bind(a) ==
  /\ desk[a].step = "bind"
  /\ binding' = IF desk[a].number \in DOMAIN versions /\ binding.version = desk[a].bound
                  THEN [number |-> desk[a].number, version |-> binding.version + 1]
                  ELSE binding
  /\ binder' = "nobody" /\ Drop(a)
  /\ UNCHANGED <<subject, versions, gone, owner>>

-----------------------------------------------------------------------------

DefinitionsNext ==
  \E a \in Authors :
    \/ Open(a) \/ Abandon(a) \/ CreateVersion(a) \/ AppendVersion(a) \/ UpdateLifecycle(a)
    \/ LockUnused(a) \/ DeleteRecords(a) \/ Bind(a)
    \/ \E n \in 1 .. MaxVersions : ChangeLifecycle(a, n) \/ CheckPublished(a, n)

-----------------------------------------------------------------------------
(* Properties *)

(* A version is drafted, published and disabled, in this order and each    *)
(* once, however old the page is from which somebody commands it.          *)
LifecycleGoesForward ==
  [][\A n \in DOMAIN versions \cap DOMAIN versions' :
       versions'[n] \in {versions[n], After(versions[n])}
         /\ (versions[n] = "Disabled" => versions'[n] = "Disabled")]_definitionVars

(* Two authors do not work on a draft each: only the latest can be one.    *)
OneDraft == \A n \in DOMAIN versions : versions[n] = "Draft" => n = Len(versions)

(* A workflow is deleted only while all its versions are drafts.  It does  *)
(* not hold: the versions are not locked between the check and the end.    *)
OnlyDraftsAreDeleted == \A n \in DOMAIN gone : gone[n] = "Draft"

=============================================================================
