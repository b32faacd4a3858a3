--------------------------------- MODULE Access ---------------------------------
(***************************************************************************)
(* Who may do what: users, groups, roles, bindings and denials in the      *)
(* database, the policy cache of each API process, browser sessions, and   *)
(* the requests that change access.  A request proves its session, has the *)
(* cache checked against the revision of the committed policy, decides     *)
(* from the cache, and then changes the tables in a transaction of its     *)
(* own, so the right it was granted may be gone when it commits.           *)
(*                                                                         *)
(* Steps are statements, transactions and calls of the identity provider.  *)
(* Every write to an authorization table updates the revision row by       *)
(* trigger, and that row stays locked until the transaction ends; the      *)
(* disabling of a user does not touch it.  Checks that a command makes     *)
(* before it asks for its right are repeated by its transaction, so they   *)
(* are modelled there.                                                     *)
(***************************************************************************)
EXTENDS Integers, FiniteSets

CONSTANTS
  Users,
  Local,         \* users who sign in with a password; the others come from the provider
  Groups, Roles, \* groups and roles there are or will be created
  System,        \* system groups and roles, which nobody removes
  Managing,      \* the system role that only platform managers bind
  Viewers,       \* groups filled from the provider's claims
  Delegated,     \* groups and roles owned by the project
  Grants,        \* Grants[r]: the permissions of a role
  Permissions,
  PlatformOnly,  \* permissions that only a platform binding can grant
  PlatformWide,  \* permissions that a platform binding grants on every scope
  Delegable,     \* permissions that a role of the project may have
  Scopes,        \* a scope is the set of the resources on its path
  Platform, Project,
  Seed,          \* the tables after installation
  Workloads,     \* sets of commands: what is asked of the API in one behaviour
  Clients,       \* browsers
  ProcessOf,     \* ProcessOf[c]: the API process that serves the browser
  Free,          \* nobody: the value of a lock that is free
  MaxRequests    \* bound on requests and sign-ins

Processes == {ProcessOf[c] : c \in Clients}

(* The rows of the authorization tables, of users that are disabled, and   *)
(* of platform bindings there ever were.  Below the platform alone can     *)
(* something be denied.                                                    *)
Tables ==
  [group : [Groups -> {"absent", "open", "disabled"}],
   role : [Roles -> {"absent", "active", "inactive"}],
   members : SUBSET [group : Groups, user : Users, source : {"manual", "oidc"}],
   bindings : SUBSET [group : Groups, role : Roles, scope : Scopes, copy : Nat],
   bound : SUBSET (Groups \X Roles),
   denials : SUBSET [group : Groups, permission : Permissions, scope : Scopes \ {Platform}, copy : Nat],
   disabled : SUBSET Users]

(* Requests that only concern the user's own session. *)
Own == {"Logout", "ChangePassword"}

Commands ==
  [kind : {"CreateGroup", "DisableGroup"}, group : Groups]
    \cup [kind : {"CreateRole", "DisableRole"}, role : Roles]
    \cup [kind : {"AddMembership", "RevokeMembership"}, group : Groups, user : Users]
    \cup [kind : {"CreateBinding", "RevokeBinding"}, group : Groups, role : Roles, scope : Scopes, copy : Nat]
    \cup [kind : {"CreateBindings"}, group : Groups, roles : SUBSET Roles, scope : Scopes, copy : Nat]
    \cup [kind : {"CreateDeny", "RevokeDeny"}, group : Groups, permission : Permissions,
          scope : Scopes \ {Platform}, copy : Nat]
    \cup [kind : {"DisableUser"}, user : Users]
    \cup [kind : {"View"}, scope : Scopes]
    \cup [kind : Own]

ASSUME AccessAssumption ==
  /\ Local \subseteq Users /\ Viewers \subseteq Groups
  /\ System \subseteq Groups \cup Roles /\ Delegated \subseteq Groups \cup Roles
  /\ Grants \in [Roles -> SUBSET Permissions]
  /\ Platform \in Scopes /\ Project \in Scopes /\ {} \notin Scopes
  /\ Platform \cap UNION (Scopes \ {Platform}) = {}
  /\ Seed \in Tables /\ \A m \in Seed.members : m.source = "oidc" => m.group \in Viewers
  /\ \A commands \in Workloads : commands \subseteq Commands
  /\ Free \notin Users \cup Clients \cup Processes
  /\ MaxRequests \in Nat

VARIABLES
  facts,     \* the authorization tables and the disabled users
  revision,  \* the revision of the committed policy
  cache,     \* cache[p]: rules of a process, the revision it takes them for, that they are of
  writer,    \* writer[p]: who holds the write lock of the cache
  session,   \* session[c]: the session row that the client's cookie names
  password,  \* password[u]: how often it was changed
  offered,   \* the commands of this behaviour
  request,   \* request[c]: what the client's present request has come to
  held,      \* held[c]: whether its user had the right at any time since it began
  guard,     \* holder of the advisory lock on platform management
  row,       \* holder of the revision row
  requests   \* requests and sign-ins so far

vars == <<facts, revision, cache, writer, session, password, offered, request, held, guard, row, requests>>

-----------------------------------------------------------------------------
(* Effective rules *)

IsOpen(f, g) == f.group[g] = "open"

(* Provider memberships give nothing but views, and never the platform. *)
Counts(m, scope, permission) ==
  m.source = "manual" \/ (scope # Platform /\ m.group \in Viewers /\ permission = "resource.view")

ActiveMembers(f) == {m \in f.members : m.user \notin f.disabled /\ IsOpen(f, m.group)}

ActiveBindings(f, m) == {b \in f.bindings : b.group = m.group /\ f.role[b.role] = "active"}

Allowing(m, b) ==
  {[user |-> m.user, permission |-> p, scope |-> b.scope, effect |-> "allow"] :
     p \in {q \in Grants[b.role] : Counts(m, b.scope, q)}}

Denying(f, m) ==
  {[user |-> m.user, permission |-> d.permission, scope |-> d.scope, effect |-> "deny"] :
     d \in {e \in f.denials : e.group = m.group}}

AllowRules(f) == UNION {UNION {Allowing(m, b) : b \in ActiveBindings(f, m)} : m \in ActiveMembers(f)}

DenyRules(f) == UNION {Denying(f, m) : m \in ActiveMembers(f)}

(* What the tables grant and deny, user by user. *)
EffectiveRules(f) == AllowRules(f) \cup DenyRules(f)

(* A scope includes those whose path begins with its own. *)
Matches(x, user, permission, scope) ==
  /\ x.user = user /\ x.permission = permission
  /\ x.scope \subseteq scope \/ (permission \in PlatformWide /\ x.scope = Platform)

(* Some rule allows it and none denies it. *)
Allowed(rules, user, permission, scope) ==
  LET Rules(effect) == {x \in rules : x.effect = effect /\ Matches(x, user, permission, scope)}
  IN Rules("allow") # {} /\ Rules("deny") = {}

Manages(rules, user) == Allowed(rules, user, "platform.manage", Platform)

(* The installation leaves someone who manages the platform. *)
ASSUME ManagedAssumption == \E u \in Users : Manages(EffectiveRules(Seed), u)

(* The users the continuity guard counts: members of any source. *)
Paths(f) ==
  {u \in Users \ f.disabled : \E m \in f.members, b \in f.bindings :
     /\ m.user = u /\ m.group = b.group /\ IsOpen(f, b.group) /\ b.scope = Platform
     /\ f.role[b.role] = "active" /\ "platform.manage" \in Grants[b.role]}

-----------------------------------------------------------------------------
(* Commands.  An operator gives the tables after the command, as a set     *)
(* that is empty when a check or the database refuses it; by tells who     *)
(* asks and whether as a platform manager.                                 *)

Manual(k) == [group |-> k.group, user |-> k.user, source |-> "manual"]

Binding(k) == [group |-> k.group, role |-> k.role, scope |-> k.scope, copy |-> k.copy]

Denial(k) == [group |-> k.group, permission |-> k.permission, scope |-> k.scope, copy |-> k.copy]

Only(holds, f) == IF holds THEN {f} ELSE {}

CreateGroup(f, k) == Only(f.group[k.group] = "absent", [f EXCEPT !.group[k.group] = "open"])

(* A trigger deactivates the bindings and denials of the group. *)
DisableGroup(f, k) ==
  Only(k.group \notin System /\ IsOpen(f, k.group),
       [f EXCEPT !.group[k.group] = "disabled",
                 !.bindings = {b \in @ : b.group # k.group},
                 !.denials = {d \in @ : d.group # k.group}])

(* A role of the project grants only what its creator may do there. *)
CreateRole(f, k, by) ==
  Only(/\ f.role[k.role] = "absent"
       /\ k.role \in Delegated =>
            \A p \in Grants[k.role] : p \in Delegable /\ Allowed(by.rules, by.user, p, Project),
       [f EXCEPT !.role[k.role] = "active"])

DisableRole(f, k) ==
  Only(k.role \notin System /\ f.role[k.role] = "active", [f EXCEPT !.role[k.role] = "inactive"])

(* Neither a disabled user nor a disabled group is refused. *)
AddMembership(f, k) ==
  Only(f.group[k.group] # "absent" /\ Manual(k) \notin f.members,
       [f EXCEPT !.members = @ \cup {Manual(k)}])

RevokeMembership(f, k) ==
  Only(Manual(k) \in f.members, [f EXCEPT !.members = @ \ {Manual(k)}])

(* What a group may be bound to on a scope. *)
Bindable(f, k, by) ==
  /\ IsOpen(f, k.group) /\ f.role[k.role] = "active"
  /\ IF k.scope = Platform
     THEN {k.group, k.role} \cap Delegated = {} /\ Grants[k.role] \cap PlatformOnly # {}
     ELSE /\ by.platform \/ (k.group \in Delegated /\ k.role # Managing)
          /\ Grants[k.role] \ PlatformOnly # {}

(* One role: below the platform nothing keeps a second row of the same     *)
(* binding out; a platform binding has one row for ever.                   *)
CreateBinding(f, k, by) ==
  Only(/\ Bindable(f, k, by) /\ Binding(k) \notin f.bindings
       /\ k.scope = Platform => <<k.group, k.role>> \notin f.bound,
       [f EXCEPT !.bindings = @ \cup {Binding(k)},
                 !.bound = IF k.scope = Platform THEN @ \cup {<<k.group, k.role>>} ELSE @])

IsBound(f, k, r) == \E b \in f.bindings : b.group = k.group /\ b.role = r /\ b.scope = k.scope

(* Several roles, each looked for before it is bound. *)
CreateBindings(f, k, by) ==
  LET Row(r) == [group |-> k.group, role |-> r, scope |-> k.scope]
      New == {[group |-> k.group, role |-> r, scope |-> k.scope, copy |-> k.copy] : r \in k.roles}
  IN Only(\A r \in k.roles :
            /\ Bindable(f, Row(r), by) /\ ~IsBound(f, k, r)
            /\ k.scope = Platform => <<k.group, r>> \notin f.bound,
          [f EXCEPT !.bindings = @ \cup New,
                    !.bound = IF k.scope = Platform THEN @ \cup ({k.group} \X k.roles) ELSE @])

RevokeBinding(f, k) ==
  Only(Binding(k) \in f.bindings, [f EXCEPT !.bindings = @ \ {Binding(k)}])

CreateDeny(f, k, by) ==
  Only(IsOpen(f, k.group) /\ Denial(k) \notin f.denials /\ (by.platform \/ k.group \in Delegated),
       [f EXCEPT !.denials = @ \cup {Denial(k)}])

RevokeDeny(f, k) == Only(Denial(k) \in f.denials, [f EXCEPT !.denials = @ \ {Denial(k)}])

DisableUser(f, k, by) ==
  Only(k.user # by.user /\ k.user \notin f.disabled, [f EXCEPT !.disabled = @ \cup {k.user}])

Outcome(f, k, by) ==
  CASE k.kind = "CreateGroup" -> CreateGroup(f, k)
    [] k.kind = "DisableGroup" -> DisableGroup(f, k)
    [] k.kind = "CreateRole" -> CreateRole(f, k, by)
    [] k.kind = "DisableRole" -> DisableRole(f, k)
    [] k.kind = "AddMembership" -> AddMembership(f, k)
    [] k.kind = "RevokeMembership" -> RevokeMembership(f, k)
    [] k.kind = "CreateBinding" -> CreateBinding(f, k, by)
    [] k.kind = "CreateBindings" -> CreateBindings(f, k, by)
    [] k.kind = "RevokeBinding" -> RevokeBinding(f, k)
    [] k.kind = "CreateDeny" -> CreateDeny(f, k, by)
    [] k.kind = "RevokeDeny" -> RevokeDeny(f, k)
    [] k.kind = "DisableUser" -> DisableUser(f, k, by)

(* Commands whose transaction makes sure that a manager remains. *)
Protected == {"DisableGroup", "DisableRole", "RevokeMembership", "RevokeBinding", "DisableUser"}

(* The scope on which a permission other than platform management gives    *)
(* the right to a command; {} when none does.                              *)
DelegatedScope(k) ==
  IF k.kind \in {"CreateGroup", "DisableGroup", "AddMembership", "RevokeMembership"}
  THEN IF k.group \in Delegated THEN Project ELSE {}
  ELSE IF k.kind \in {"CreateRole", "DisableRole"}
  THEN IF k.role \in Delegated THEN Project ELSE {}
  ELSE IF k.kind = "DisableUser" \/ k.scope = Platform THEN {} ELSE k.scope

DelegatedPermission(k) ==
  IF k.kind = "View" THEN "resource.view"
  ELSE IF k.kind \in {"CreateRole", "DisableRole"} THEN "role.manage" ELSE "group.manage"

AsDelegate(rules, user, k) ==
  DelegatedScope(k) # {} /\ Allowed(rules, user, DelegatedPermission(k), DelegatedScope(k))

(* Below the platform these ask for the right on the scope and then, as it  *)
(* decides what they may name, for platform management.                    *)
AsksBoth(k) == k.kind \in {"CreateBinding", "RevokeBinding", "CreateDeny", "RevokeDeny"} /\ k.scope # Platform

FirstAsked(k) == IF k.kind = "View" \/ AsksBoth(k) THEN "scope" ELSE "platform"

(* Whether rules give a user the right to a command. *)
Right(rules, user, k) ==
  k.kind \in Own \/ (k.kind # "View" /\ Manages(rules, user)) \/ AsDelegate(rules, user, k)

-----------------------------------------------------------------------------
(* Requests *)

NoSession == [user |-> Free, live |-> FALSE, typed |-> 0]

NoCommand == [kind |-> "none"]

(* asks: the right that is decided next; allowed: what the scope said first. *)
(* History: late, of a disabled user; torn, allowed by a torn cache.        *)
Idle == [step |-> "none", user |-> Free, command |-> NoCommand, asks |-> "platform", allowed |-> FALSE,
         typed |-> 0, late |-> FALSE, torn |-> FALSE]

Step(c) == request[c].step

(* The rules of a process after it has started. *)
Init ==
  /\ facts = Seed
  /\ revision = 0
  /\ cache = [p \in Processes |-> [rules |-> EffectiveRules(Seed), revision |-> 0, asOf |-> 0]]
  /\ writer = [p \in Processes |-> Free]
  /\ session \in [Clients -> {NoSession} \cup [user : Users, live : {TRUE}, typed : {0}]]
  /\ password = [u \in Users |-> 0]
  /\ offered \in Workloads
  /\ request = [c \in Clients |-> Idle]
  /\ held = [c \in Clients |-> FALSE]
  /\ guard = Free /\ row = Free
  /\ requests = 0

Store == <<facts, revision, offered, held, guard, row>>
Cached == <<cache, writer>>
Rows == <<session, password>>

Goto(c, step) == request' = [request EXCEPT ![c].step = step]

Finish(c) == request' = [request EXCEPT ![c] = Idle]

(* A change of the tables.  The bookkeeping of held is not in the code. *)
Write(f) ==
  /\ facts' = f
  /\ held' = [c \in Clients |->
               held[c] \/ (Step(c) # "none" /\ request[c].command # NoCommand
                           /\ Right(EffectiveRules(f), request[c].user, request[c].command))]

Count == requests < MaxRequests /\ requests' = requests + 1

(* The session row is ended, wherever its cookie is. *)
Ended(c) == session' = [session EXCEPT ![c].live = FALSE]

EndedOf(u) == session' = [c \in Clients |->
                           IF session[c].user = u THEN [session[c] EXCEPT !.live = FALSE] ELSE session[c]]

-----------------------------------------------------------------------------
(* Signing in *)

(* The credential is compared with the password as it is now. *)
Login(c, u) ==
  /\ Count
  /\ Step(c) = "none" /\ ~session[c].live
  /\ u \in Local \ facts.disabled
  /\ request' = [request EXCEPT ![c] = [Idle EXCEPT !.step = "creating", !.user = u, !.typed = password[u]]]
  /\ UNCHANGED <<Store, Cached, Rows>>

(* The provider has vouched for a user, whose account is not disabled. *)
CompleteCallback(c, u) ==
  /\ Count
  /\ Step(c) = "none" /\ ~session[c].live
  /\ u \in (Users \ Local) \ facts.disabled
  /\ request' = [request EXCEPT ![c] = [Idle EXCEPT !.step = "syncing", !.user = u]]
  /\ UNCHANGED <<Store, Cached, Rows>>

(* The provider's groups replace those it named before. *)
SyncGroups(c, groups) ==
  LET r == request[c]
      Named == [group : groups, user : {r.user}, source : {"oidc"}]
      New == {m \in facts.members : m.user # r.user \/ m.source = "manual"} \cup Named
  IN /\ r.step = "syncing"
     /\ \A g \in groups : IsOpen(facts, g)
     /\ IF New = facts.members
        THEN UNCHANGED <<facts, held, revision>>
        ELSE row = Free /\ Write([facts EXCEPT !.members = New]) /\ revision' = revision + 1
     /\ Goto(c, IF r.command = NoCommand THEN "creating" ELSE "rotating")
     /\ UNCHANGED <<offered, guard, row, Cached, Rows, requests>>

CreateSession(c) ==
  /\ Step(c) = "creating"
  /\ session' = [session EXCEPT ![c] = [user |-> request[c].user, live |-> TRUE, typed |-> request[c].typed]]
  /\ Finish(c)
  /\ UNCHANGED <<Store, Cached, password, requests>>

-----------------------------------------------------------------------------
(* Proving the session *)

(* Whether the user is disabled already is not looked at. *)
Start(c, k) ==
  LET u == session[c].user
  IN /\ Count
     /\ Step(c) = "none" /\ u # Free
     /\ k.kind = "ChangePassword" => u \in Local
     /\ request' = [request EXCEPT ![c] = [Idle EXCEPT !.step = "proving", !.user = u, !.command = k,
                                           !.asks = FirstAsked(k), !.late = u \in facts.disabled]]
     /\ held' = [held EXCEPT ![c] = Right(EffectiveRules(facts), u, k)]
     /\ UNCHANGED <<facts, revision, offered, guard, row, Cached, Rows>>

(* The row is active when it is read and when it is touched. *)
Touch(c) ==
  /\ Step(c) = "proving"
  /\ IF session[c].live THEN Goto(c, "finding") ELSE Finish(c)
  /\ UNCHANGED <<Store, Cached, Rows, requests>>

(* The account of the session.  Mutant of FindUser: a disabled account is  *)
(* left to the revocation of its sessions.                                 *)
FindAnyUser(c) ==
  /\ Step(c) = "finding"
  /\ IF request[c].user \in Local
     THEN Goto(c, "proved")
     ELSE Goto(c, "proved") \/ Goto(c, "refreshing")
  /\ UNCHANGED <<Store, Cached, Rows, requests>>

(* The account of the session; a session of the provider may be due for a  *)
(* refresh.                                                                *)
FindUser(c) ==
  /\ Step(c) = "finding"
  /\ IF request[c].user \in facts.disabled
     THEN Ended(c) /\ Finish(c)
     ELSE /\ UNCHANGED session
          /\ IF request[c].user \in Local
             THEN Goto(c, "proved")
             ELSE Goto(c, "proved") \/ Goto(c, "refreshing")
  /\ UNCHANGED <<Store, Cached, password, requests>>

(* The provider answers, and the account is looked up again. *)
Refresh(c) ==
  /\ Step(c) = "refreshing"
  /\ request[c].user \notin facts.disabled
  /\ Goto(c, "syncing")
  /\ UNCHANGED <<Store, Cached, Rows, requests>>

(* The provider refuses the refresh token, or the account is disabled. *)
RefuseRefresh(c) ==
  /\ Step(c) = "refreshing"
  /\ Ended(c) /\ Finish(c)
  /\ UNCHANGED <<Store, Cached, password, requests>>

(* The new refresh token is stored with a session that is not revoked. *)
RotateCredential(c) ==
  /\ Step(c) = "rotating"
  /\ IF session[c].live THEN Goto(c, "proved") ELSE Finish(c)
  /\ UNCHANGED <<Store, Cached, Rows, requests>>

(* The time limits of a session pass, or the provider ends the user's sessions. *)
Expire(c) ==
  /\ session[c].live
  /\ Ended(c)
  /\ UNCHANGED <<Store, Cached, password, request, requests>>

BackchannelLogout(u) ==
  /\ u \in Users \ Local
  /\ \E c \in Clients : session[c].user = u /\ session[c].live
  /\ EndedOf(u)
  /\ UNCHANGED <<Store, Cached, password, request, requests>>

Logout(c) ==
  /\ Step(c) = "proved" /\ request[c].command.kind = "Logout"
  /\ Ended(c) /\ Finish(c)
  /\ UNCHANGED <<Store, Cached, password, requests>>

(* The user types the present password and a new one. *)
UpdatePassword(c) ==
  LET u == request[c].user
  IN /\ Step(c) = "proved" /\ request[c].command.kind = "ChangePassword"
     /\ password' = [password EXCEPT ![u] = @ + 1]
     /\ Goto(c, "revoking")
     /\ UNCHANGED <<Store, Cached, session, requests>>

RevokeUserSessions(c) ==
  /\ Step(c) = "revoking"
  /\ EndedOf(request[c].user)
  /\ Finish(c)
  /\ UNCHANGED <<Store, Cached, password, requests>>

-----------------------------------------------------------------------------
(* Deciding *)

Process(c) == ProcessOf[c]

(* Mutant of ReadRevision: a cache that is one revision behind passes. *)
ReadRevisionLoosely(c) ==
  /\ Step(c) = "proved" /\ request[c].command.kind \notin Own
  /\ Goto(c, IF revision <= cache[Process(c)].revision + 1 THEN "deciding" ELSE "loading")
  /\ UNCHANGED <<Store, Cached, Rows, requests>>

(* The revision is compared with the one of the cache. *)
ReadRevision(c) ==
  /\ Step(c) = "proved" /\ request[c].command.kind \notin Own
  /\ Goto(c, IF revision <= cache[Process(c)].revision THEN "deciding" ELSE "loading")
  /\ UNCHANGED <<Store, Cached, Rows, requests>>

(* Reload, under the write lock: the rules first... *)
LoadRules(p, who) ==
  /\ writer[p] = Free
  /\ writer' = [writer EXCEPT ![p] = who]
  /\ cache' = [cache EXCEPT ![p].rules = EffectiveRules(facts), ![p].asOf = revision]

(* ...then the revision, which may have moved on. *)
StampRevision(p) ==
  /\ cache' = [cache EXCEPT ![p].revision = revision]
  /\ writer' = [writer EXCEPT ![p] = Free]

Reload(c) ==
  /\ Step(c) = "loading"
  /\ LoadRules(Process(c), c)
  /\ Goto(c, "stamping")
  /\ UNCHANGED <<Store, Rows, requests>>

Stamp(c) ==
  /\ Step(c) = "stamping"
  /\ StampRevision(Process(c))
  /\ Goto(c, "deciding")
  /\ UNCHANGED <<Store, Rows, requests>>

(* The listener reloads when it is told of a revision it does not have. *)
Listen(p) ==
  /\ revision > cache[p].revision
  /\ LoadRules(p, p)
  /\ UNCHANGED <<Store, Rows, request, requests>>

ListenerStamps(p) ==
  /\ writer[p] = p
  /\ StampRevision(p)
  /\ UNCHANGED <<Store, Rows, request, requests>>

(* The rules of a process are older than the revision it takes them for. *)
Torn(p) == cache[p].asOf < cache[p].revision

(* Most commands ask for platform management, and then for the right on    *)
(* the scope if it is refused; each time the cache is checked again.       *)
Decide(c) ==
  LET r == request[c]
      rules == cache[Process(c)].rules
      yes == IF r.asks = "platform" THEN Manages(rules, r.user) ELSE AsDelegate(rules, r.user, r.command)
      again == IF r.asks = "scope" THEN AsksBoth(r.command)
               ELSE ~yes /\ ~AsksBoth(r.command) /\ DelegatedScope(r.command) # {}
      other == IF r.asks = "scope" THEN "platform" ELSE "scope"
  IN /\ r.step = "deciding" /\ writer[Process(c)] = Free
     /\ IF again
        THEN request' = [request EXCEPT ![c].step = "proved", ![c].asks = other, ![c].allowed = yes,
                                        ![c].torn = yes /\ Torn(Process(c))]
        ELSE IF yes \/ r.allowed
        THEN request' = [request EXCEPT ![c].step = "granted", ![c].asks = IF yes THEN @ ELSE "scope"]
        ELSE Finish(c)
     /\ UNCHANGED <<Store, Cached, Rows, requests>>

View(c) ==
  /\ Step(c) = "granted" /\ request[c].command.kind = "View"
  /\ Finish(c)
  /\ UNCHANGED <<Store, Cached, Rows, requests>>

-----------------------------------------------------------------------------
(* Changing the tables *)

By(c) == [user |-> request[c].user, platform |-> request[c].asks = "platform",
          rules |-> cache[Process(c)].rules]

Changes(c) == Step(c) = "granted" /\ request[c].command.kind # "View"

Refuse(c) ==
  /\ Changes(c)
  /\ \A f \in Outcome(facts, request[c].command, By(c)) :
       request[c].command.kind \in Protected /\ Paths(f) = {}
  /\ Finish(c)
  /\ UNCHANGED <<Store, Cached, Rows, requests>>

(* A command that cannot take a manager away. *)
Mutate(c) ==
  /\ Changes(c) /\ request[c].command.kind \notin Protected
  /\ row = Free
  /\ \E f \in Outcome(facts, request[c].command, By(c)) : Write(f)
  /\ revision' = revision + 1
  /\ Finish(c)
  /\ UNCHANGED <<offered, guard, row, Cached, Rows, requests>>

(* The row that a protected command writes, other than the user's. *)
RowOf(c) == IF request[c].command.kind = "DisableUser" THEN row ELSE c

(* Mutant of MutateProtected: without the advisory lock. *)
MutateUnguarded(c) ==
  /\ Changes(c) /\ request[c].command.kind \in Protected
  /\ request[c].command.kind # "DisableUser" => row = Free
  /\ \E f \in Outcome(facts, request[c].command, By(c)) : Paths(f) # {}
  /\ row' = RowOf(c)
  /\ Goto(c, "committing")
  /\ UNCHANGED <<facts, revision, offered, held, guard, Cached, Rows, requests>>

(* Under the advisory lock the change is made and the managers that remain *)
(* are counted, before anyone else sees the change.                        *)
MutateProtected(c) ==
  /\ Changes(c) /\ request[c].command.kind \in Protected
  /\ guard = Free
  /\ request[c].command.kind # "DisableUser" => row = Free
  /\ \E f \in Outcome(facts, request[c].command, By(c)) : Paths(f) # {}
  /\ guard' = c /\ row' = RowOf(c)
  /\ Goto(c, "committing")
  /\ UNCHANGED <<facts, revision, offered, held, Cached, Rows, requests>>

Released(c) ==
  /\ guard' = IF guard = c THEN Free ELSE guard
  /\ row' = IF row = c THEN Free ELSE row

(* The commit of a protected command; with a user go the user's sessions. *)
Commit(c) ==
  LET k == request[c].command
  IN /\ Step(c) = "committing"
     /\ \E f \in Outcome(facts, k, By(c)) : Write(f)
     /\ IF k.kind = "DisableUser"
        THEN EndedOf(k.user) /\ UNCHANGED revision
        ELSE UNCHANGED session /\ revision' = revision + 1
     /\ Released(c)
     /\ Finish(c)
     /\ UNCHANGED <<offered, Cached, password, requests>>

(* A statement, a call or the connection fails: the request ends and its   *)
(* transaction with it; a reload leaves the rules under the old revision.  *)
Fail(c) ==
  /\ Step(c) # "none"
  /\ writer' = [p \in Processes |-> IF writer[p] = c THEN Free ELSE writer[p]]
  /\ Released(c)
  /\ Finish(c)
  /\ UNCHANGED <<facts, revision, offered, held, cache, Rows, requests>>

-----------------------------------------------------------------------------

Next ==
  \/ \E c \in Clients, u \in Users : Login(c, u) \/ CompleteCallback(c, u)
  \/ \E c \in Clients, groups \in SUBSET Viewers : SyncGroups(c, groups)
  \/ \E c \in Clients, k \in offered : Start(c, k)
  \/ \E c \in Clients :
       \/ CreateSession(c) \/ Touch(c) \/ FindUser(c) \/ Refresh(c) \/ RefuseRefresh(c)
       \/ RotateCredential(c) \/ Expire(c) \/ Logout(c) \/ UpdatePassword(c) \/ RevokeUserSessions(c)
       \/ ReadRevision(c) \/ Reload(c) \/ Stamp(c) \/ Decide(c) \/ View(c)
       \/ Refuse(c) \/ Mutate(c) \/ MutateProtected(c) \/ Commit(c) \/ Fail(c)
  \/ \E u \in Users : BackchannelLogout(u)
  \/ \E p \in Processes : Listen(p) \/ ListenerStamps(p)

Spec == Init /\ [][Next]_vars

-----------------------------------------------------------------------------
(* Properties *)

(* Someone can always manage the platform: no interleaving of the commands *)
(* that take a right away removes the last effective path to it.           *)
ManagerRemains == \E u \in Users : Manages(EffectiveRules(facts), u)

(* A request that began after its user was disabled is never served, also  *)
(* on a session that a sign-in created beside the disabling.               *)
DisabledIsOut ==
  \A c \in Clients :
    Step(c) \in {"proved", "revoking", "loading", "stamping", "deciding", "granted", "committing"} => ~request[c].late

(* A right that was taken away before a request began is not granted to    *)
(* it, however old the cache: unless a commit came between the two reads   *)
(* of a reload that the decision rests on.                                 *)
RevokedStaysOut ==
  [][\A c \in Clients :
       Step(c) = "deciding" /\ Step(c)' = "granted" =>
         held[c] \/ Torn(Process(c)) \/ request[c].torn]_vars

(* The code's promise of a reload: what a process holds is what it takes   *)
(* it for.  It does not hold.                                              *)
CacheIsWhatItSays == \A p \in Processes : writer[p] = Free => ~Torn(p)

(* After a change of password no session that the old one opened is left.  *)
(* It does not hold: a sign-in beside the change, or a failure between its *)
(* two statements, leaves one.                                             *)
OldPasswordIsOut ==
  \A c \in Clients :
    session[c].live /\ session[c].typed < password[session[c].user] =>
      \E x \in Clients : Step(x) = "revoking" /\ request[x].user = session[c].user

=============================================================================
