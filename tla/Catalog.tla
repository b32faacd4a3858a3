-------------------------------- MODULE Catalog --------------------------------
(***************************************************************************)
(* The upper part of the catalog: organizations and their projects.  An    *)
(* organization is deleted by making it inactive, once it has no project   *)
(* any more; projects are created under an active one.  Environments,      *)
(* Applications and label mappings are plain inserts below a project and   *)
(* are never taken away; they are left out.                                *)
(***************************************************************************)
EXTENDS Integers, FiniteSets

CONSTANTS
  Operators,            \* administrators and their requests
  Organizations,
  DefaultOrganization,
  Projects,
  MaxRevision           \* bounds the versions of an organization

ASSUME CatalogAssumption == DefaultOrganization \in Organizations /\ MaxRevision \in Nat \ {0}

VARIABLES
  organization,  \* organization[o]: whether it is active, and its version; 0 before it is there
  projects,      \* projects[o]: the projects of o
  command        \* command[c]: what the request of c is doing, and the row lock it holds

catalogVars == <<organization, projects, command>>

NoCommand == [step |-> "none", organization |-> DefaultOrganization, version |-> 0, holds |-> "nothing"]

CatalogInit ==
  /\ organization =
       [o \in Organizations |-> [active |-> o = DefaultOrganization, version |-> IF o = DefaultOrganization THEN 1 ELSE 0]]
  /\ projects = [o \in Organizations |-> {}]
  /\ command = [c \in Operators |-> NoCommand]

(* Mutant of Excludes: the deletion takes the weaker lock of an update of  *)
(* columns that no other table refers to.                                  *)
ExcludesUpdates(held, wanted) == "share" \notin {held, wanted} /\ "nothing" \notin {held, wanted}

(* FOR UPDATE waits for every lock of the row and FOR KEY SHARE for that   *)
(* one; an update of columns that are no key passes FOR KEY SHARE.         *)
Excludes(held, wanted) ==
  \/ held = "update" /\ wanted # "nothing"
  \/ held = "share" /\ wanted = "update"

Lockable(c, o, wanted) ==
  \A d \in Operators \ {c} : command[d].organization = o => ~Excludes(command[d].holds, wanted)

EndCommand(c) == command' = [command EXCEPT ![c] = NoCommand]

Continue(c, step) == command' = [command EXCEPT ![c].step = step]

-----------------------------------------------------------------------------

CreateOrganization(o) ==
  /\ organization[o].version = 0
  /\ organization' = [organization EXCEPT ![o] = [active |-> TRUE, version |-> 1]]
  /\ UNCHANGED <<projects, command>>

(* A rename or a deletion from a page that shows the current version. *)
FindOrganization(c, o) ==
  /\ command[c].step = "none" /\ organization[o].active
  /\ organization[o].version < MaxRevision
  /\ command' = [command EXCEPT ![c] = [step |-> "found", organization |-> o, version |-> organization[o].version, holds |-> "nothing"]]
  /\ UNCHANGED <<organization, projects>>

IsAsFound(c) ==
  LET o == command[c].organization
  IN organization[o].active /\ organization[o].version = command[c].version

RenameOrganization(c) ==
  /\ command[c].step = "found" /\ Lockable(c, command[c].organization, "change")
  /\ organization' = IF IsAsFound(c) THEN [organization EXCEPT ![command[c].organization].version = @ + 1] ELSE organization
  /\ EndCommand(c)
  /\ UNCHANGED projects

(* A deletion: the row is locked, the projects are counted, the row is changed. *)
LockOrganization(c) ==
  /\ command[c].step = "found" /\ command[c].organization # DefaultOrganization
  /\ Lockable(c, command[c].organization, "update")
  /\ IF IsAsFound(c)
       THEN command' = [command EXCEPT ![c].step = "locked", ![c].holds = "update"]
       ELSE EndCommand(c)
  /\ UNCHANGED <<organization, projects>>

CountProjects(c) ==
  /\ command[c].step = "locked"
  /\ IF projects[command[c].organization] = {} THEN Continue(c, "empty") ELSE EndCommand(c)
  /\ UNCHANGED <<organization, projects>>

DeactivateOrganization(c) ==
  /\ command[c].step = "empty"
  /\ organization' = [organization EXCEPT ![command[c].organization] = [active |-> FALSE, version |-> @.version + 1]]
  /\ EndCommand(c)
  /\ UNCHANGED projects

(* A new project: its organization is kept from being deleted meanwhile. *)
LockParent(c, o) ==
  /\ command[c].step = "none" /\ organization[o].active
  /\ Lockable(c, o, "share")
  /\ command' = [command EXCEPT ![c] = [step |-> "parent", organization |-> o, version |-> 0, holds |-> "share"]]
  /\ UNCHANGED <<organization, projects>>

InsertProject(c) ==
  /\ command[c].step = "parent"
  /\ \E p \in Projects :
       /\ \A o \in Organizations : p \notin projects[o]
       /\ projects' = [projects EXCEPT ![command[c].organization] = @ \cup {p}]
  /\ EndCommand(c)
  /\ UNCHANGED organization

AbandonCommand(c) ==
  /\ command[c].step # "none"
  /\ EndCommand(c)
  /\ UNCHANGED <<organization, projects>>

CatalogNext ==
  \/ \E o \in Organizations : CreateOrganization(o)
  \/ \E c \in Operators :
       \/ RenameOrganization(c) \/ LockOrganization(c) \/ CountProjects(c) \/ DeactivateOrganization(c)
       \/ InsertProject(c) \/ AbandonCommand(c)
       \/ \E o \in Organizations : FindOrganization(c, o) \/ LockParent(c, o)

-----------------------------------------------------------------------------
(* Properties *)

(* No project is left behind in an organization that was deleted while it  *)
(* was being created; the default organization stays.                      *)
NoOrphans ==
  \A o \in Organizations :
    ~organization[o].active => projects[o] = {} /\ o # DefaultOrganization

=============================================================================
