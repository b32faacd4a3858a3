------------------------------ MODULE AccessProofs ------------------------------
(***************************************************************************)
(* What holds of access for every set of users, groups, roles, processes   *)
(* and commands: whom a decision may let in, and who remains to manage the *)
(* platform.  A request rests on three things it read at different times:  *)
(* the account, the cached policy and the tables.                          *)
(***************************************************************************)
EXTENDS Access, TLAPS

-----------------------------------------------------------------------------
(* The shapes of everything *)

Rules == [user : Users, permission : Permissions, scope : Scopes, effect : {"allow", "deny"}]

(* What a request that names a command may be doing. *)
Asking == {"proving", "finding", "refreshing", "rotating", "proved", "revoking", "loading", "stamping",
           "deciding", "granted", "committing"}

(* What it does after it was found that its command needs a right. *)
Checked == {"loading", "stamping", "deciding", "granted", "committing"}

Steps == {"none", "creating", "syncing"} \cup Asking

Requests ==
  [step : Steps, user : Users \cup {Free}, command : Commands \cup {NoCommand},
   asks : {"platform", "scope"}, allowed : BOOLEAN, typed : Nat, late : BOOLEAN, torn : BOOLEAN]

Sessions == [user : Users \cup {Free}, live : BOOLEAN, typed : Nat]

Caches == [rules : SUBSET Rules, revision : Nat, asOf : Nat]

FactsOK(f) == f \in Tables /\ \A m \in f.members : m.source = "oidc" => m.group \in Viewers

RequestOK(r) ==
  /\ r.step # "none" => r.user \in Users
  /\ r.step = "none" => r = Idle
  /\ r.step \in Asking => r.command \in Commands
  /\ r.step = "creating" => r.command = NoCommand
  /\ r.step \in Checked => r.command.kind \notin Own
  /\ r.step = "committing" => r.command.kind \in Protected
  /\ r.command.kind = "View" => r.asks = "scope"

TypeIInv ==
  /\ FactsOK(facts)
  /\ revision \in Nat /\ requests \in Nat
  /\ cache \in [Processes -> Caches]
  /\ writer \in [Processes -> Clients \cup Processes \cup {Free}]
  /\ session \in [Clients -> Sessions]
  /\ password \in [Users -> Nat]
  /\ offered \in Workloads
  /\ request \in [Clients -> Requests] /\ \A c \in Clients : RequestOK(request[c])
  /\ held \in [Clients -> BOOLEAN]
  /\ guard \in Clients \cup {Free} /\ row \in Clients \cup {Free}

-----------------------------------------------------------------------------
(* Rules *)

Allows(f, x) ==
  \E m \in f.members, b \in f.bindings : \E p \in Grants[b.role] :
    /\ m.user \notin f.disabled /\ IsOpen(f, m.group)
    /\ b.group = m.group /\ f.role[b.role] = "active" /\ Counts(m, b.scope, p)
    /\ x = [user |-> m.user, permission |-> p, scope |-> b.scope, effect |-> "allow"]

Denies(f, x) ==
  \E m \in f.members, d \in f.denials :
    /\ m.user \notin f.disabled /\ IsOpen(f, m.group) /\ d.group = m.group
    /\ x = [user |-> m.user, permission |-> d.permission, scope |-> d.scope, effect |-> "deny"]

(* A rule that is in effect is one that some membership allows or denies. *)
LEMMA RulesAre ==
  ASSUME NEW f, NEW x
  PROVE  x \in EffectiveRules(f) <=> Allows(f, x) \/ Denies(f, x)
<1>1. x \in AllowRules(f) <=>
        \E m \in ActiveMembers(f) : \E b \in ActiveBindings(f, m) : x \in Allowing(m, b)
  <2>1. \A m : x \in UNION {Allowing(m, b) : b \in ActiveBindings(f, m)}
                 <=> \E b \in ActiveBindings(f, m) : x \in Allowing(m, b)
    BY Zenon
  <2>2. x \in AllowRules(f) <=>
          \E m \in ActiveMembers(f) : x \in UNION {Allowing(m, b) : b \in ActiveBindings(f, m)}
    BY Zenon DEF AllowRules
  <2> QED  BY <2>1, <2>2, Zenon
<1>2. x \in DenyRules(f) <=> \E m \in ActiveMembers(f) : x \in Denying(f, m)
  BY Zenon DEF DenyRules
<1>3. (\E m \in ActiveMembers(f) : \E b \in ActiveBindings(f, m) : x \in Allowing(m, b)) <=> Allows(f, x)
  BY DEF ActiveMembers, ActiveBindings, Allowing, Allows
<1>4. (\E m \in ActiveMembers(f) : x \in Denying(f, m)) <=> Denies(f, x)
  BY DEF ActiveMembers, Denying, Denies
<1> QED  BY <1>1, <1>2, <1>3, <1>4 DEF EffectiveRules

(* The rules of whole tables are whole. *)
LEMMA RulesShape ==
  ASSUME NEW f \in Tables
  PROVE  EffectiveRules(f) \subseteq Rules
<1>1. ASSUME NEW x, Allows(f, x) PROVE x \in Rules
  BY <1>1, AccessAssumption DEF Allows, Rules, Tables
<1>2. ASSUME NEW x, Denies(f, x) PROVE x \in Rules
  BY <1>2 DEF Denies, Rules, Tables
<1> QED  BY <1>1, <1>2, RulesAre

(* What rules say of a user, they say by the rules of the user. *)
LEMMA RightIsTheUsers ==
  ASSUME NEW R, NEW S, NEW u, NEW k, \A x : x.user = u => (x \in R <=> x \in S)
  PROVE  Right(R, u, k) <=> Right(S, u, k)
<1>1. ASSUME NEW permission, NEW scope
      PROVE  Allowed(R, u, permission, scope) <=> Allowed(S, u, permission, scope)
  <2>1. \A effect : {x \in R : x.effect = effect /\ Matches(x, u, permission, scope)}
                    = {x \in S : x.effect = effect /\ Matches(x, u, permission, scope)}
    BY DEF Matches
  <2> QED  BY <2>1 DEF Allowed
<1> QED  BY <1>1 DEF Right, Manages, AsDelegate

(* Disabling a user changes the rules of that user only. *)
LEMMA DisablingIsPersonal ==
  ASSUME NEW f \in Tables, NEW g \in Tables, NEW v, g = [f EXCEPT !.disabled = @ \cup {v}],
         NEW x, x.user # v
  PROVE  x \in EffectiveRules(f) <=> x \in EffectiveRules(g)
<1>1. g.members = f.members /\ g.bindings = f.bindings /\ g.denials = f.denials /\ g.role = f.role
      /\ g.group = f.group /\ g.disabled = f.disabled \cup {v}
  BY DEF Tables
<1>2. Allows(f, x) <=> Allows(g, x)
  BY <1>1 DEF Allows, IsOpen
<1>3. Denies(f, x) <=> Denies(g, x)
  BY <1>1 DEF Denies, IsOpen
<1> QED  BY <1>2, <1>3, RulesAre

-----------------------------------------------------------------------------
(* Commands *)

(* What a command names, by its kind. *)
LEMMA CommandFacts ==
  ASSUME NEW k \in Commands
  PROVE  /\ k.kind # "none"
         /\ k.kind \in {"CreateGroup", "DisableGroup", "AddMembership", "RevokeMembership", "CreateBinding",
                        "RevokeBinding", "CreateBindings", "CreateDeny", "RevokeDeny"} => k.group \in Groups
         /\ k.kind \in {"CreateRole", "DisableRole", "CreateBinding", "RevokeBinding"} => k.role \in Roles
         /\ k.kind \in {"AddMembership", "RevokeMembership", "DisableUser"} => k.user \in Users
         /\ k.kind \in {"CreateBinding", "RevokeBinding", "CreateBindings"} => k.scope \in Scopes /\ k.copy \in Nat
         /\ k.kind = "CreateBindings" => k.roles \subseteq Roles
         /\ k.kind \in {"CreateDeny", "RevokeDeny"} =>
              k.permission \in Permissions /\ k.scope \in Scopes \ {Platform} /\ k.copy \in Nat
BY DEF Commands, Own

(* What writes nobody's rights away: no manual membership, no binding, no  *)
(* group and no role is taken, and nobody is disabled.                     *)
Extends(f, g) ==
  /\ \A m \in f.members : m.source = "manual" => m \in g.members
  /\ f.bindings \subseteq g.bindings
  /\ g.disabled = f.disabled
  /\ \A x \in Groups : IsOpen(f, x) => IsOpen(g, x)
  /\ \A r \in Roles : f.role[r] = "active" => g.role[r] = "active"

(* What a command makes of whole tables is whole; one that is not          *)
(* protected takes nothing, and one that is adds no binding.               *)
Follows(f, k, g) ==
  /\ FactsOK(g)
  /\ IF k.kind = "DisableUser" THEN g = [f EXCEPT !.disabled = @ \cup {k.user}] ELSE g.disabled = f.disabled
  /\ IF k.kind \in Protected THEN g.bindings \subseteq f.bindings ELSE Extends(f, g)

(* The commands on groups and roles. *)
LEMMA GroupOutcome ==
  ASSUME NEW f, FactsOK(f), NEW k \in Commands, NEW by, NEW g \in Outcome(f, k, by),
         k.kind \in {"CreateGroup", "DisableGroup", "CreateRole", "DisableRole"}
  PROVE  Follows(f, k, g)
<1>1. f \in Tables /\ \A m \in f.members : m.source = "oidc" => m.group \in Viewers
  BY DEF FactsOK
<1>2. CASE k.kind = "CreateGroup"
  <2>1. g = [f EXCEPT !.group[k.group] = "open"] /\ k.group \in Groups
    BY <1>2, CommandFacts DEF Outcome, CreateGroup, Only
  <2> QED  BY <1>1, <1>2, <2>1 DEF Follows, FactsOK, Tables, Protected, Extends, IsOpen
<1>3. CASE k.kind = "DisableGroup"
  <2>1. g = [f EXCEPT !.group[k.group] = "disabled",
                      !.bindings = {b \in @ : b.group # k.group},
                      !.denials = {d \in @ : d.group # k.group}] /\ k.group \in Groups
    BY <1>3, CommandFacts DEF Outcome, DisableGroup, Only
  <2> QED  BY <1>1, <1>3, <2>1 DEF Follows, FactsOK, Tables, Protected
<1>4. CASE k.kind = "CreateRole"
  <2>1. g = [f EXCEPT !.role[k.role] = "active"] /\ k.role \in Roles
    BY <1>4, CommandFacts DEF Outcome, CreateRole, Only
  <2> QED  BY <1>1, <1>4, <2>1 DEF Follows, FactsOK, Tables, Protected, Extends, IsOpen
<1>5. CASE k.kind = "DisableRole"
  <2>1. g = [f EXCEPT !.role[k.role] = "inactive"] /\ k.role \in Roles
    BY <1>5, CommandFacts DEF Outcome, DisableRole, Only
  <2> QED  BY <1>1, <1>5, <2>1 DEF Follows, FactsOK, Tables, Protected
<1> QED  BY <1>2, <1>3, <1>4, <1>5

(* The commands on memberships, denials and users. *)
LEMMA MemberOutcome ==
  ASSUME NEW f, FactsOK(f), NEW k \in Commands, NEW by, NEW g \in Outcome(f, k, by),
         k.kind \in {"AddMembership", "RevokeMembership", "CreateDeny", "RevokeDeny", "DisableUser"}
  PROVE  Follows(f, k, g)
<1>1. f \in Tables /\ \A m \in f.members : m.source = "oidc" => m.group \in Viewers
  BY DEF FactsOK
<1>2. CASE k.kind = "AddMembership"
  <2>1. g = [f EXCEPT !.members = @ \cup {Manual(k)}] /\ k.group \in Groups /\ k.user \in Users
    BY <1>2, CommandFacts DEF Outcome, AddMembership, Only
  <2> QED  BY <1>1, <1>2, <2>1 DEF Follows, FactsOK, Tables, Protected, Extends, IsOpen, Manual
<1>3. CASE k.kind = "RevokeMembership"
  <2>1. g = [f EXCEPT !.members = @ \ {Manual(k)}]
    BY <1>3 DEF Outcome, RevokeMembership, Only
  <2> QED  BY <1>1, <1>3, <2>1 DEF Follows, FactsOK, Tables, Protected
<1>4. CASE k.kind = "CreateDeny"
  <2>1. g = [f EXCEPT !.denials = @ \cup {Denial(k)}]
        /\ k.group \in Groups /\ k.permission \in Permissions /\ k.scope \in Scopes \ {Platform} /\ k.copy \in Nat
    BY <1>4, CommandFacts DEF Outcome, CreateDeny, Only
  <2> QED  BY <1>1, <1>4, <2>1 DEF Follows, FactsOK, Tables, Protected, Extends, IsOpen, Denial
<1>5. CASE k.kind = "RevokeDeny"
  <2>1. g = [f EXCEPT !.denials = @ \ {Denial(k)}]
    BY <1>5 DEF Outcome, RevokeDeny, Only
  <2> QED  BY <1>1, <1>5, <2>1 DEF Follows, FactsOK, Tables, Protected, Extends, IsOpen
<1>6. CASE k.kind = "DisableUser"
  <2>1. g = [f EXCEPT !.disabled = @ \cup {k.user}] /\ k.user \in Users
    BY <1>6, CommandFacts DEF Outcome, DisableUser, Only
  <2> QED  BY <1>1, <1>6, <2>1 DEF Follows, FactsOK, Tables, Protected
<1> QED  BY <1>2, <1>3, <1>4, <1>5, <1>6

(* The commands on bindings. *)
LEMMA BindingOutcome ==
  ASSUME NEW f, FactsOK(f), NEW k \in Commands, NEW by, NEW g \in Outcome(f, k, by),
         k.kind \in {"CreateBinding", "CreateBindings", "RevokeBinding"}
  PROVE  Follows(f, k, g)
<1>1. f \in Tables /\ \A m \in f.members : m.source = "oidc" => m.group \in Viewers
  BY DEF FactsOK
<1>2. k.group \in Groups /\ k.scope \in Scopes /\ k.copy \in Nat
  BY CommandFacts
<1>3. CASE k.kind = "CreateBinding"
  <2>1. /\ g = [f EXCEPT !.bindings = @ \cup {Binding(k)},
                        !.bound = IF k.scope = Platform THEN @ \cup {<<k.group, k.role>>} ELSE @]
        /\ k.role \in Roles
    BY <1>3, CommandFacts DEF Outcome, CreateBinding, Only
  <2>2. Binding(k) \in [group : Groups, role : Roles, scope : Scopes, copy : Nat]
        /\ {<<k.group, k.role>>} \subseteq Groups \X Roles
    BY <1>2, <2>1 DEF Binding
  <2> HIDE DEF Binding
  <2> QED  BY <1>1, <1>3, <2>1, <2>2 DEF Follows, FactsOK, Tables, Protected, Extends, IsOpen
<1>4. CASE k.kind = "CreateBindings"
  <2> DEFINE New == {[group |-> k.group, role |-> r, scope |-> k.scope, copy |-> k.copy] : r \in k.roles}
  <2>1. /\ g = [f EXCEPT !.bindings = @ \cup New,
                        !.bound = IF k.scope = Platform THEN @ \cup ({k.group} \X k.roles) ELSE @]
        /\ k.roles \subseteq Roles
    BY <1>4, CommandFacts DEF Outcome, CreateBindings, Only
  <2>2. New \subseteq [group : Groups, role : Roles, scope : Scopes, copy : Nat]
    BY <1>2, <2>1
  <2> HIDE DEF New
  <2> QED  BY <1>1, <1>2, <1>4, <2>1, <2>2 DEF Follows, FactsOK, Tables, Protected, Extends, IsOpen
<1>5. CASE k.kind = "RevokeBinding"
  <2>1. g = [f EXCEPT !.bindings = @ \ {Binding(k)}]
    BY <1>5 DEF Outcome, RevokeBinding, Only
  <2> QED  BY <1>1, <1>5, <2>1 DEF Follows, FactsOK, Tables, Protected
<1> QED  BY <1>3, <1>4, <1>5

(* Every command on whole tables leaves whole tables. *)
LEMMA OutcomeFollows ==
  ASSUME NEW f, FactsOK(f), NEW k \in Commands, k.kind \notin Own, k.kind # "View",
         NEW by, NEW g \in Outcome(f, k, by)
  PROVE  Follows(f, k, g)
<1>1. k.kind \in {"CreateGroup", "DisableGroup", "CreateRole", "DisableRole", "AddMembership", "RevokeMembership",
                  "CreateDeny", "RevokeDeny", "DisableUser", "CreateBinding", "CreateBindings", "RevokeBinding"}
  BY DEF Commands
<1> QED  BY <1>1, GroupOutcome, MemberOutcome, BindingOutcome

-----------------------------------------------------------------------------
(* Requests *)

(* What the request of a client may go on with. *)
GoesOn(r, to) ==
  \/ r.step = "syncing" /\ to = IF r.command = NoCommand THEN "creating" ELSE "rotating"
  \/ r.step = "proving" /\ to = "finding"
  \/ r.step = "finding" /\ to \in {"proved", "refreshing"} /\ r.user \notin facts.disabled
  \/ r.step = "refreshing" /\ to = "syncing"
  \/ r.step = "rotating" /\ to = "proved"
  \/ r.step = "proved" /\ to = "revoking"
  \/ r.step = "proved" /\ to \in {"deciding", "loading"} /\ r.command.kind \notin Own
  \/ r.step = "loading" /\ to = "stamping"
  \/ r.step = "stamping" /\ to = "deciding"
  \/ r.step = "granted" /\ to = "committing" /\ r.command.kind \in Protected

SignsIn(c) ==
  \E u \in Users :
    \/ \E typed \in Nat : request'[c] = [Idle EXCEPT !.step = "creating", !.user = u, !.typed = typed]
    \/ request'[c] = [Idle EXCEPT !.step = "syncing", !.user = u]

Begins(c) ==
  \E k \in offered :
    /\ session[c].user \in Users
    /\ request'[c] = [Idle EXCEPT !.step = "proving", !.user = session[c].user, !.command = k,
                                 !.asks = FirstAsked(k), !.late = session[c].user \in facts.disabled]

MovesTo(c) == \E to \in Steps : GoesOn(request[c], to) /\ request'[c] = [request[c] EXCEPT !.step = to]

AsksAgain(c) ==
  \E a \in {"platform", "scope"}, yes \in BOOLEAN :
    /\ Step(c) = "deciding" /\ (request[c].command.kind = "View" => a = "scope")
    /\ yes => Right(cache[Process(c)].rules, request[c].user, request[c].command)
    /\ request'[c] = [request[c] EXCEPT !.step = "proved", !.asks = a, !.allowed = yes,
                                        !.torn = yes /\ Torn(Process(c))]

IsGranted(c) ==
  \E a \in {"platform", "scope"} :
    /\ Step(c) = "deciding" /\ (request[c].command.kind = "View" => a = "scope")
    /\ request'[c] = [request[c] EXCEPT !.step = "granted", !.asks = a]

Becomes(c) ==
  \/ request'[c] = request[c] \/ request'[c] = Idle
  \/ Step(c) = "none" /\ (SignsIn(c) \/ Begins(c))
  \/ MovesTo(c) \/ AsksAgain(c) \/ IsGranted(c)

(* What a client does. *)
Acts(c) ==
  \/ \E u \in Users : Login(c, u) \/ CompleteCallback(c, u)
  \/ \E groups \in SUBSET Viewers : SyncGroups(c, groups)
  \/ \E k \in offered : Start(c, k)
  \/ CreateSession(c) \/ Touch(c) \/ FindUser(c) \/ Refresh(c) \/ RefuseRefresh(c)
  \/ RotateCredential(c) \/ Expire(c) \/ Logout(c) \/ UpdatePassword(c) \/ RevokeUserSessions(c)
  \/ ReadRevision(c) \/ Reload(c) \/ Stamp(c) \/ Decide(c) \/ View(c)
  \/ Refuse(c) \/ Mutate(c) \/ MutateProtected(c) \/ Commit(c) \/ Fail(c)

(* A step is a client's, the provider's or a listener's. *)
LEMMA StepCases ==
  ASSUME [Next]_vars
  PROVE  \/ UNCHANGED vars
         \/ \E c \in Clients : Acts(c)
         \/ \E u \in Users : BackchannelLogout(u)
         \/ \E p \in Processes : Listen(p) \/ ListenerStamps(p)
BY DEF Next, Acts

(* What a decision comes to. *)
LEMMA DecideCases ==
  ASSUME TypeIInv, NEW c \in Clients, Decide(c)
  PROVE  /\ AsksAgain(c) \/ IsGranted(c) \/ request'[c] = Idle
         /\ \A x \in Clients \ {c} : request'[x] = request[x]
         /\ IsGranted(c) => \/ Right(cache[Process(c)].rules, request[c].user, request[c].command)
                            \/ request[c].allowed
<1> DEFINE r == request[c]
           rules == cache[Process(c)].rules
           yes == IF r.asks = "platform" THEN Manages(rules, r.user) ELSE AsDelegate(rules, r.user, r.command)
           other == IF r.asks = "scope" THEN "platform" ELSE "scope"
           torn == yes /\ Torn(Process(c))
           then == IF yes THEN r.asks ELSE "scope"
<1>1. request \in [Clients -> Requests] /\ r.step = "deciding" /\ r \in Requests /\ RequestOK(r)
  BY DEF TypeIInv, Decide
<1>2. \/ /\ r.asks = "scope" => AsksBoth(r.command)
         /\ request' = [request EXCEPT ![c].step = "proved", ![c].asks = other, ![c].allowed = yes, ![c].torn = torn]
      \/ /\ yes \/ r.allowed
         /\ request' = [request EXCEPT ![c].step = "granted", ![c].asks = then]
      \/ request' = [request EXCEPT ![c] = Idle]
  BY Zenon DEF Decide, Finish
<1>3. yes \in BOOLEAN /\ other \in {"platform", "scope"} /\ then \in {"platform", "scope"}
  <2>1. r.asks \in {"platform", "scope"}
    BY <1>1 DEF Requests
  <2>2. yes \in BOOLEAN
    BY Zenon DEF Manages, Allowed, AsDelegate
  <2> QED  BY <2>1, <2>2
<1>4. yes => Right(rules, r.user, r.command)
  <2>1. r.asks = "platform" => r.command.kind # "View"
    BY <1>1 DEF RequestOK
  <2> QED  BY <2>1 DEF Right
<1> HIDE DEF yes, other, then, torn
<1>5. CASE /\ r.asks = "scope" => AsksBoth(r.command)
           /\ request' = [request EXCEPT ![c].step = "proved", ![c].asks = other, ![c].allowed = yes, ![c].torn = torn]
  <2>1. r.command.kind = "View" => r.asks = "scope" /\ ~AsksBoth(r.command)
    BY <1>1 DEF RequestOK, AsksBoth
  <2>2. request'[c] = [r EXCEPT !.step = "proved", !.asks = other, !.allowed = yes, !.torn = torn]
        /\ \A x \in Clients \ {c} : request'[x] = request[x]
    BY <1>1, <1>5
  <2>3. request'[c].step = "proved"
    BY <1>1, <2>2 DEF Requests
  <2>4. AsksAgain(c)
    BY <1>1, <1>3, <1>4, <1>5, <2>1, <2>2, Zenon DEF AsksAgain, Step, torn
  <2> QED  BY <1>1, <2>2, <2>3, <2>4 DEF IsGranted, Requests
<1>6. CASE (yes \/ r.allowed) /\ request' = [request EXCEPT ![c].step = "granted", ![c].asks = then]
  <2>1. request'[c] = [r EXCEPT !.step = "granted", !.asks = then]
        /\ \A x \in Clients \ {c} : request'[x] = request[x]
    BY <1>1, <1>6
  <2>2. r.command.kind = "View" => then = "scope"
    BY <1>1 DEF RequestOK, then
  <2> QED  BY <1>1, <1>3, <1>4, <1>6, <2>1, <2>2 DEF IsGranted, Step
<1>7. CASE request' = [request EXCEPT ![c] = Idle]
  BY <1>1, <1>7 DEF IsGranted, Idle, Requests
<1> QED  BY <1>2, <1>5, <1>6, <1>7

(* A client that acts moves its own request on, and no other. *)
LEMMA ActsOnItsOwn ==
  ASSUME TypeIInv, NEW c \in Clients, Acts(c)
  PROVE  Becomes(c) /\ \A x \in Clients \ {c} : request'[x] = request[x]
<1> USE DEF Goto, Finish, Step
<1>1. /\ request \in [Clients -> Requests] /\ password \in [Users -> Nat] /\ session \in [Clients -> Sessions]
  BY DEF TypeIInv
<1>2. ASSUME NEW u \in Users, Login(c, u) \/ CompleteCallback(c, u)
      PROVE  Becomes(c) /\ \A x \in Clients \ {c} : request'[x] = request[x]
  <2>1. password[u] \in Nat /\ Step(c) = "none"
    BY <1>1, <1>2 DEF Login, CompleteCallback
  <2> QED  BY <1>1, <1>2, <2>1 DEF Login, CompleteCallback, Becomes, SignsIn
<1>3. ASSUME NEW groups \in SUBSET Viewers, SyncGroups(c, groups)
      PROVE  Becomes(c) /\ \A x \in Clients \ {c} : request'[x] = request[x]
  BY <1>1, <1>3 DEF SyncGroups, Becomes, MovesTo, GoesOn, Steps, Asking
<1>4. ASSUME NEW k \in offered, Start(c, k)
      PROVE  Becomes(c) /\ \A x \in Clients \ {c} : request'[x] = request[x]
  <2>1. session[c].user \in Users
    BY <1>1, <1>4 DEF Start, Sessions
  <2> QED  BY <1>1, <1>4, <2>1 DEF Start, Becomes, Begins
<1>5. CASE CreateSession(c) \/ RefuseRefresh(c) \/ Expire(c) \/ Logout(c) \/ RevokeUserSessions(c)
           \/ View(c) \/ Refuse(c) \/ Mutate(c) \/ Commit(c) \/ Fail(c)
  BY <1>1, <1>5 DEF CreateSession, RefuseRefresh, Expire, Logout, RevokeUserSessions, View, Refuse, Mutate,
                    Commit, Fail, Becomes
<1>6. CASE Touch(c) \/ FindUser(c) \/ Refresh(c) \/ RotateCredential(c) \/ UpdatePassword(c)
  BY <1>1, <1>6 DEF Touch, FindUser, Refresh, RotateCredential, UpdatePassword,
                    Becomes, MovesTo, GoesOn, Steps, Asking
<1>7. CASE ReadRevision(c) \/ Reload(c) \/ Stamp(c) \/ MutateProtected(c)
  BY <1>1, <1>7 DEF ReadRevision, Reload, Stamp, MutateProtected, Changes,
                    Becomes, MovesTo, GoesOn, Steps, Asking
<1>8. CASE Decide(c)
  BY <1>8, DecideCases DEF Becomes
<1> QED  BY <1>2, <1>3, <1>4, <1>5, <1>6, <1>7, <1>8 DEF Acts

(* Every request becomes what its client makes of it. *)
LEMMA RequestSteps ==
  ASSUME TypeIInv, [Next]_vars, NEW c \in Clients
  PROVE  Becomes(c)
<1>1. CASE UNCHANGED vars
  BY <1>1 DEF vars, Becomes
<1>2. ASSUME NEW x \in Clients, Acts(x) PROVE Becomes(c)
  BY <1>2, ActsOnItsOwn DEF Becomes
<1>3. ASSUME NEW u \in Users, BackchannelLogout(u) PROVE Becomes(c)
  BY <1>3 DEF BackchannelLogout, Becomes
<1>4. ASSUME NEW p \in Processes, Listen(p) \/ ListenerStamps(p) PROVE Becomes(c)
  BY <1>4 DEF Listen, ListenerStamps, Becomes
<1> QED  BY <1>1, <1>2, <1>3, <1>4, StepCases

(* A request stays well formed. *)
LEMMA RequestsStay ==
  ASSUME TypeIInv, NEW c \in Clients, Becomes(c)
  PROVE  request'[c] \in Requests /\ RequestOK(request'[c])
<1>1. request[c] \in Requests /\ RequestOK(request[c]) /\ offered \subseteq Commands
  BY AccessAssumption DEF TypeIInv
<1>2. Idle \in Requests /\ RequestOK(Idle)
  BY DEF Idle, NoCommand, Requests, RequestOK, Steps, Asking, Checked
<1>3. CASE request'[c] = request[c] \/ request'[c] = Idle
  BY <1>1, <1>2, <1>3
<1>4. CASE SignsIn(c)
  <2>1. Idle.command = NoCommand
    BY DEF Idle
  <2>2. /\ request'[c] \in Requests /\ request'[c].step \in {"creating", "syncing"}
        /\ request'[c].user \in Users /\ request'[c].command = NoCommand
    BY <1>2, <1>4, <2>1 DEF SignsIn, Requests, Steps
  <2> QED  BY <2>2 DEF RequestOK, Asking, Checked, NoCommand
<1>5. CASE Begins(c)
  <2>1. PICK k \in offered :
          /\ session[c].user \in Users
          /\ request'[c] = [Idle EXCEPT !.step = "proving", !.user = session[c].user, !.command = k,
                                       !.asks = FirstAsked(k), !.late = session[c].user \in facts.disabled]
    BY <1>5 DEF Begins
  <2>2. (session[c].user \in facts.disabled) \in BOOLEAN
    OBVIOUS
  <2>3. k \in Commands
    BY <1>1
  <2>4. FirstAsked(k) \in {"platform", "scope"} /\ (k.kind = "View" => FirstAsked(k) = "scope")
    BY DEF FirstAsked
  <2>5. request'[c] \in Requests /\ request'[c].step = "proving" /\ request'[c].asks = FirstAsked(k)
        /\ request'[c].user = session[c].user /\ request'[c].command = k
    BY <1>2, <2>1, <2>2, <2>3, <2>4 DEF Requests, Steps, Asking
  <2> QED  BY <2>1, <2>3, <2>4, <2>5 DEF RequestOK, Asking, Checked
<1>6. CASE MovesTo(c)
  <2>1. PICK to \in Steps : GoesOn(request[c], to) /\ request'[c] = [request[c] EXCEPT !.step = to]
    BY <1>6 DEF MovesTo
  <2>2. request'[c] \in Requests /\ request'[c].step = to /\ request'[c].user = request[c].user
        /\ request'[c].command = request[c].command
    BY <1>1, <2>1 DEF Requests
  <2>3. request[c].step # "none" /\ to # "none"
    BY <2>1 DEF GoesOn
  <2>4. request[c].command \in Commands \cup {NoCommand}
    BY <1>1 DEF Requests
  <2> QED  BY <1>1, <2>1, <2>2, <2>3, <2>4 DEF GoesOn, RequestOK, Asking, Checked
<1>7. CASE AsksAgain(c)
  <2>1. PICK a \in {"platform", "scope"}, yes \in BOOLEAN :
          /\ Step(c) = "deciding" /\ (request[c].command.kind = "View" => a = "scope")
          /\ request'[c] = [request[c] EXCEPT !.step = "proved", !.asks = a, !.allowed = yes,
                                              !.torn = yes /\ Torn(Process(c))]
    BY <1>7 DEF AsksAgain
  <2>2. (yes /\ Torn(Process(c))) \in BOOLEAN
    OBVIOUS
  <2>3. /\ request'[c] \in Requests /\ request'[c].step = "proved" /\ request'[c].asks = a
        /\ request'[c].user = request[c].user /\ request'[c].command = request[c].command
    BY <1>1, <2>1, <2>2 DEF Requests, Steps, Asking
  <2> QED  BY <1>1, <2>1, <2>3 DEF RequestOK, Asking, Checked, Step
<1>8. CASE IsGranted(c)
  BY <1>1, <1>8 DEF IsGranted, Requests, RequestOK, Steps, Asking, Checked, Step
<1> QED  BY <1>3, <1>4, <1>5, <1>6, <1>7, <1>8 DEF Becomes

-----------------------------------------------------------------------------
(* Tables and caches *)

(* A change of the tables advances the revision, except that of a user who *)
(* is disabled.                                                            *)
Changed ==
  /\ Write(facts') /\ FactsOK(facts')
  /\ \/ revision' = revision + 1 /\ facts'.disabled = facts.disabled
     \/ revision' = revision /\ \E u \in Users : facts' = [facts EXCEPT !.disabled = @ \cup {u}]

Loaded(p) == cache' = [cache EXCEPT ![p].rules = EffectiveRules(facts), ![p].asOf = revision]

Stamped(p) == cache' = [cache EXCEPT ![p].revision = revision]

(* The command of a request that was granted is one on the tables. *)
LEMMA GrantedCommand ==
  ASSUME TypeIInv, NEW c \in Clients, Changes(c) \/ Step(c) = "committing"
  PROVE  /\ request[c].command \in Commands /\ request[c].command.kind \notin Own
         /\ request[c].command.kind # "View"
         /\ Step(c) = "committing" => request[c].command.kind \in Protected
  BY DEF TypeIInv, RequestOK, Checked, Asking, Changes, Step, Protected

(* The provider's groups replace provider memberships by others of the     *)
(* kind.                                                                   *)
LEMMA SyncChanges ==
  ASSUME TypeIInv, NEW c \in Clients, NEW groups \in SUBSET Viewers, SyncGroups(c, groups)
  PROVE  \/ UNCHANGED <<facts, revision, held>>
         \/ /\ Changed /\ Extends(facts, facts') /\ facts'.bindings = facts.bindings
            /\ row = Free /\ revision' = revision + 1
<1> DEFINE r == request[c]
           Named == [group : groups, user : {r.user}, source : {"oidc"}]
           New == {m \in facts.members : m.user # r.user \/ m.source = "manual"} \cup Named
<1>1. r.user \in Users /\ facts \in Tables /\ groups \subseteq Viewers /\ Viewers \subseteq Groups
      /\ \A m \in facts.members : m.source = "oidc" => m.group \in Viewers
  BY AccessAssumption DEF SyncGroups, TypeIInv, RequestOK, FactsOK
<1>2. \/ UNCHANGED <<facts, revision, held>>
      \/ /\ row = Free /\ revision' = revision + 1
         /\ Write([facts EXCEPT !.members = New])
  BY DEF SyncGroups
<1>3. New \subseteq [group : Groups, user : Users, source : {"manual", "oidc"}]
      /\ (\A m \in New : m.source = "oidc" => m.group \in Viewers)
      /\ \A m \in facts.members : m.source = "manual" => m \in New
  BY <1>1 DEF Tables
<1> HIDE DEF New
<1>4. ASSUME Write([facts EXCEPT !.members = New]), revision' = revision + 1
      PROVE  Changed /\ Extends(facts, facts') /\ facts'.bindings = facts.bindings
  <2>1. facts' = [facts EXCEPT !.members = New] /\ Write(facts')
    BY <1>4 DEF Write
  <2>2. FactsOK(facts') /\ facts'.disabled = facts.disabled /\ facts'.bindings = facts.bindings
    BY <1>1, <1>3, <2>1 DEF FactsOK, Tables
  <2>3. Extends(facts, facts')
    BY <1>1, <1>3, <2>1 DEF Extends, Tables, IsOpen
  <2> QED  BY <1>4, <2>1, <2>2, <2>3 DEF Changed
<1> QED  BY <1>2, <1>4

(* A command that is written changes the tables as it should. *)
LEMMA CommandChanges ==
  ASSUME TypeIInv, NEW c \in Clients, Mutate(c) \/ Commit(c)
  PROVE  /\ Changed /\ facts' \in Outcome(facts, request[c].command, By(c))
         /\ Follows(facts, request[c].command, facts')
<1> DEFINE k == request[c].command
<1>1. PICK f \in Outcome(facts, k, By(c)) : Write(f)
  BY DEF Mutate, Commit
<1>2. facts' = f
  BY <1>1 DEF Write
<1>3. FactsOK(facts) /\ k \in Commands /\ k.kind \notin Own /\ k.kind # "View"
  BY GrantedCommand DEF TypeIInv, Mutate, Commit
<1>4. Follows(facts, k, facts')
  BY <1>1, <1>2, <1>3, OutcomeFollows
<1>5. IF k.kind = "DisableUser" THEN revision' = revision ELSE revision' = revision + 1
  BY DEF Mutate, Commit, Protected
<1>6. k.kind = "DisableUser" => k.user \in Users
  BY <1>3, CommandFacts
<1> QED  BY <1>1, <1>2, <1>4, <1>5, <1>6 DEF Changed, Follows

(* A step changes the tables, or the cache of one process, or neither.     *)
LEMMA WorldSteps ==
  ASSUME TypeIInv, [Next]_vars
  PROVE  \/ Changed /\ UNCHANGED cache
         \/ UNCHANGED <<facts, revision>> /\ \E p \in Processes : Loaded(p) \/ Stamped(p)
         \/ UNCHANGED <<facts, revision, cache>>
<1>1. CASE UNCHANGED vars
  BY <1>1 DEF vars
<1>2. ASSUME NEW c \in Clients, Acts(c)
      PROVE  \/ Changed /\ UNCHANGED cache
             \/ UNCHANGED <<facts, revision>> /\ \E p \in Processes : Loaded(p) \/ Stamped(p)
             \/ UNCHANGED <<facts, revision, cache>>
  <2>1. ASSUME NEW groups \in SUBSET Viewers, SyncGroups(c, groups)
        PROVE  (Changed \/ UNCHANGED <<facts, revision>>) /\ UNCHANGED cache
    BY <2>1, SyncChanges DEF SyncGroups, Cached
  <2>2. CASE Mutate(c) \/ Commit(c)
    BY <2>2, CommandChanges DEF Mutate, Commit, Cached
  <2>3. CASE Reload(c) \/ Stamp(c)
    <3>1. Process(c) \in Processes
      BY DEF Process, Processes
    <3> QED  BY <2>3, <3>1 DEF Reload, Stamp, LoadRules, StampRevision, Loaded, Stamped, Store
  <2>4. ASSUME NEW u \in Users, Login(c, u) \/ CompleteCallback(c, u)
        PROVE  UNCHANGED <<facts, revision, cache>>
    BY <2>4 DEF Login, CompleteCallback, Store, Cached
  <2>5. ASSUME NEW k \in offered, Start(c, k)
        PROVE  UNCHANGED <<facts, revision, cache>>
    BY <2>5 DEF Start, Cached
  <2>6. CASE CreateSession(c) \/ Touch(c) \/ FindUser(c) \/ Refresh(c) \/ RefuseRefresh(c) \/ RotateCredential(c)
             \/ Expire(c) \/ Logout(c) \/ UpdatePassword(c) \/ RevokeUserSessions(c)
    BY <2>6 DEF CreateSession, Touch, FindUser, Refresh, RefuseRefresh, RotateCredential,
                Expire, Logout, UpdatePassword, RevokeUserSessions, Store, Cached
  <2>7. CASE ReadRevision(c) \/ Decide(c) \/ View(c) \/ Refuse(c) \/ MutateProtected(c) \/ Fail(c)
    BY <2>7 DEF ReadRevision, Decide, View, Refuse, MutateProtected, Fail, Store, Cached
  <2> QED  BY <1>2, <2>1, <2>2, <2>3, <2>4, <2>5, <2>6, <2>7 DEF Acts
<1>3. ASSUME NEW u \in Users, BackchannelLogout(u) PROVE UNCHANGED <<facts, revision, cache>>
  BY <1>3 DEF BackchannelLogout, Store, Cached
<1>4. ASSUME NEW p \in Processes, Listen(p) \/ ListenerStamps(p)
      PROVE  UNCHANGED <<facts, revision>> /\ (Loaded(p) \/ Stamped(p))
  BY <1>4 DEF Listen, ListenerStamps, LoadRules, StampRevision, Loaded, Stamped, Store
<1> QED  BY <1>1, <1>2, <1>3, <1>4, StepCases

-----------------------------------------------------------------------------
(* Types *)

(* The tables, the revision and the cache keep their shapes. *)
LEMMA WorldTypes ==
  ASSUME TypeIInv, [Next]_vars
  PROVE  FactsOK(facts') /\ revision' \in Nat /\ cache' \in [Processes -> Caches]
<1>1. FactsOK(facts) /\ revision \in Nat /\ cache \in [Processes -> Caches]
  BY DEF TypeIInv
<1>2. EffectiveRules(facts) \subseteq Rules
  BY <1>1, RulesShape DEF FactsOK
<1>3. ASSUME NEW p \in Processes, Loaded(p) \/ Stamped(p)
      PROVE  cache' \in [Processes -> Caches]
  BY <1>1, <1>2, <1>3 DEF Loaded, Stamped, Caches
<1>4. Changed => FactsOK(facts') /\ revision' \in Nat
  BY <1>1 DEF Changed
<1> QED  BY <1>1, <1>3, <1>4, WorldSteps

(* Sessions and passwords keep their shapes. *)
LEMMA RowTypes ==
  ASSUME TypeIInv, [Next]_vars
  PROVE  session' \in [Clients -> Sessions] /\ password' \in [Users -> Nat]
<1>1. session \in [Clients -> Sessions] /\ password \in [Users -> Nat]
      /\ request \in [Clients -> Requests]
  BY DEF TypeIInv
<1>2. ASSUME NEW c \in Clients, Ended(c) PROVE session' \in [Clients -> Sessions]
  BY <1>1, <1>2 DEF Ended, Sessions
<1>3. ASSUME NEW u, EndedOf(u) PROVE session' \in [Clients -> Sessions]
  <2>1. \A c \in Clients : [session[c] EXCEPT !.live = FALSE] \in Sessions
    BY <1>1 DEF Sessions
  <2> QED  BY <1>1, <1>3, <2>1 DEF EndedOf
<1>4. CASE UNCHANGED vars
  BY <1>1, <1>4 DEF vars
<1>5. ASSUME NEW c \in Clients, Acts(c)
      PROVE  session' \in [Clients -> Sessions] /\ password' \in [Users -> Nat]
  <2>1. CASE CreateSession(c)
    <3>1. request[c].user \in Users \cup {Free} /\ request[c].typed \in Nat
      BY <1>1 DEF Requests
    <3>2. [user |-> request[c].user, live |-> TRUE, typed |-> request[c].typed] \in Sessions
      BY <3>1 DEF Sessions
    <3> QED  BY <1>1, <2>1, <3>2 DEF CreateSession
  <2>2. CASE UpdatePassword(c)
    <3>1. request[c].user \in Users
      BY <2>2 DEF TypeIInv, RequestOK, UpdatePassword, Step
    <3> QED  BY <1>1, <2>2, <3>1 DEF UpdatePassword
  <2>3. CASE FindUser(c) \/ RefuseRefresh(c) \/ Expire(c) \/ Logout(c)
    BY <1>1, <1>2, <2>3 DEF FindUser, RefuseRefresh, Expire, Logout
  <2>4. CASE RevokeUserSessions(c) \/ Commit(c)
    BY <1>1, <1>3, <2>4 DEF RevokeUserSessions, Commit
  <2>5. ASSUME NEW u \in Users, Login(c, u) \/ CompleteCallback(c, u) PROVE UNCHANGED Rows
    BY <2>5 DEF Login, CompleteCallback
  <2>6. ASSUME NEW groups \in SUBSET Viewers, SyncGroups(c, groups) PROVE UNCHANGED Rows
    BY <2>6 DEF SyncGroups
  <2>7. ASSUME NEW k \in offered, Start(c, k) PROVE UNCHANGED Rows
    BY <2>7 DEF Start
  <2>8. CASE Touch(c) \/ Refresh(c) \/ RotateCredential(c) \/ ReadRevision(c) \/ Reload(c) \/ Stamp(c)
             \/ Decide(c) \/ View(c) \/ Refuse(c) \/ Mutate(c) \/ MutateProtected(c) \/ Fail(c)
    <3> UNCHANGED Rows
      BY <2>8 DEF Touch, Refresh, RotateCredential, ReadRevision, Reload, Stamp, Decide, View, Refuse, Mutate,
                  MutateProtected, Fail
    <3> QED  BY <1>1 DEF Rows
  <2> QED  BY <1>1, <1>5, <2>1, <2>2, <2>3, <2>4, <2>5, <2>6, <2>7, <2>8 DEF Acts, Rows
<1>6. ASSUME NEW u \in Users, BackchannelLogout(u)
      PROVE  session' \in [Clients -> Sessions] /\ password' \in [Users -> Nat]
  BY <1>1, <1>3, <1>6 DEF BackchannelLogout
<1>7. ASSUME NEW p \in Processes, Listen(p) \/ ListenerStamps(p)
      PROVE  session' \in [Clients -> Sessions] /\ password' \in [Users -> Nat]
  BY <1>1, <1>7 DEF Listen, ListenerStamps, Rows
<1> QED  BY <1>4, <1>5, <1>6, <1>7, StepCases

(* The locks are held by clients, or by a listener. *)
LEMMA LockTypes ==
  ASSUME TypeIInv, [Next]_vars
  PROVE  /\ writer' \in [Processes -> Clients \cup Processes \cup {Free}]
         /\ guard' \in Clients \cup {Free} /\ row' \in Clients \cup {Free}
<1>1. /\ writer \in [Processes -> Clients \cup Processes \cup {Free}]
      /\ guard \in Clients \cup {Free} /\ row \in Clients \cup {Free}
  BY DEF TypeIInv
<1>2. CASE UNCHANGED vars
  BY <1>1, <1>2 DEF vars
<1>3. ASSUME NEW c \in Clients, Acts(c)
      PROVE  /\ writer' \in [Processes -> Clients \cup Processes \cup {Free}]
             /\ guard' \in Clients \cup {Free} /\ row' \in Clients \cup {Free}
  <2>1. CASE Reload(c) \/ Stamp(c)
    BY <1>1, <2>1 DEF Reload, Stamp, LoadRules, StampRevision, Store
  <2>2. CASE Fail(c)
    BY <1>1, <2>2 DEF Fail, Released
  <2>3. CASE MutateProtected(c) \/ Commit(c)
    BY <1>1, <2>3 DEF MutateProtected, RowOf, Commit, Released, Cached
  <2>4. ASSUME NEW u \in Users, Login(c, u) \/ CompleteCallback(c, u) PROVE UNCHANGED <<writer, guard, row>>
    BY <2>4 DEF Login, CompleteCallback, Cached, Store
  <2>5. ASSUME NEW groups \in SUBSET Viewers, SyncGroups(c, groups) PROVE UNCHANGED <<writer, guard, row>>
    BY <2>5 DEF SyncGroups, Cached
  <2>6. ASSUME NEW k \in offered, Start(c, k) PROVE UNCHANGED <<writer, guard, row>>
    BY <2>6 DEF Start, Cached
  <2>7. CASE CreateSession(c) \/ Touch(c) \/ FindUser(c) \/ Refresh(c) \/ RefuseRefresh(c) \/ RotateCredential(c)
             \/ Expire(c) \/ Logout(c) \/ UpdatePassword(c) \/ RevokeUserSessions(c)
    BY <1>1, <2>7 DEF CreateSession, Touch, FindUser, Refresh, RefuseRefresh, RotateCredential,
                      Expire, Logout, UpdatePassword, RevokeUserSessions, Cached, Store
  <2>8. CASE ReadRevision(c) \/ Decide(c) \/ View(c) \/ Refuse(c) \/ Mutate(c)
    BY <1>1, <2>8 DEF ReadRevision, Decide, View, Refuse, Mutate, Cached, Store
  <2> QED  BY <1>1, <1>3, <2>1, <2>2, <2>3, <2>4, <2>5, <2>6, <2>7, <2>8 DEF Acts
<1>4. ASSUME NEW u \in Users, BackchannelLogout(u) PROVE UNCHANGED <<writer, guard, row>>
  BY <1>4 DEF BackchannelLogout, Cached, Store
<1>5. ASSUME NEW p \in Processes, Listen(p) \/ ListenerStamps(p)
      PROVE  writer' \in [Processes -> Clients \cup Processes \cup {Free}] /\ UNCHANGED <<guard, row>>
  BY <1>1, <1>5 DEF Listen, ListenerStamps, LoadRules, StampRevision, Store
<1> QED  BY <1>1, <1>2, <1>3, <1>4, <1>5, StepCases

(* The requests stay a function of the clients. *)
LEMMA RequestShape ==
  ASSUME TypeIInv, [Next]_vars
  PROVE  request' = [x \in Clients |-> request'[x]]
<1>1. request = [x \in Clients |-> request[x]]
  BY DEF TypeIInv
<1>2. ASSUME NEW c, NEW s, request' = [request EXCEPT ![c].step = s]
      PROVE  request' = [x \in Clients |-> request'[x]]
  BY <1>1, <1>2
<1>3. ASSUME NEW c, NEW r, request' = [request EXCEPT ![c] = r]
      PROVE  request' = [x \in Clients |-> request'[x]]
  BY <1>1, <1>3
<1>4. CASE UNCHANGED request
  BY <1>1, <1>4
<1>5. ASSUME NEW c \in Clients, Acts(c)
      PROVE  request' = [x \in Clients |-> request'[x]]
  <2> USE DEF Goto, Finish
  <2>1. ASSUME NEW u \in Users, Login(c, u) \/ CompleteCallback(c, u)
        PROVE  \E r : request' = [request EXCEPT ![c] = r]
    BY <2>1, Zenon DEF Login, CompleteCallback
  <2>2. ASSUME NEW groups \in SUBSET Viewers, SyncGroups(c, groups)
        PROVE  \E s : request' = [request EXCEPT ![c].step = s]
    BY <2>2, Zenon DEF SyncGroups
  <2>3. ASSUME NEW k \in offered, Start(c, k)
        PROVE  \E r : request' = [request EXCEPT ![c] = r]
    BY <2>3, Zenon DEF Start
  <2>4. CASE CreateSession(c) \/ RefuseRefresh(c) \/ Logout(c) \/ RevokeUserSessions(c)
             \/ View(c) \/ Refuse(c) \/ Mutate(c) \/ Commit(c) \/ Fail(c)
    BY <1>3, <2>4 DEF CreateSession, RefuseRefresh, Logout, RevokeUserSessions, View, Refuse, Mutate,
                      Commit, Fail
  <2>5. CASE Refresh(c) \/ UpdatePassword(c) \/ ReadRevision(c) \/ Reload(c) \/ Stamp(c) \/ MutateProtected(c)
    BY <1>2, <2>5 DEF Refresh, UpdatePassword, ReadRevision, Reload, Stamp, MutateProtected
  <2>6. CASE Touch(c) \/ FindUser(c) \/ RotateCredential(c)
    BY <1>2, <1>3, <2>6 DEF Touch, FindUser, RotateCredential
  <2>7. CASE Expire(c)
    BY <1>4, <2>7 DEF Expire
  <2>8. CASE Decide(c)
    BY <1>1, <2>8 DEF Decide
  <2> QED  BY <1>2, <1>3, <1>5, <2>1, <2>2, <2>3, <2>4, <2>5, <2>6, <2>7, <2>8 DEF Acts
<1>6. ASSUME NEW u \in Users, BackchannelLogout(u) PROVE UNCHANGED request
  BY <1>6 DEF BackchannelLogout
<1>7. ASSUME NEW p \in Processes, Listen(p) \/ ListenerStamps(p) PROVE UNCHANGED request
  BY <1>7 DEF Listen, ListenerStamps
<1> QED  BY <1>4, <1>5, <1>6, <1>7, StepCases DEF vars

(* The command that a request has, it had before. *)
Carries(c) ==
  \/ request'[c].step = "none" \/ request'[c].command = NoCommand
  \/ /\ Step(c) # "none" /\ request'[c].user = request[c].user
     /\ request'[c].command = request[c].command /\ request'[c].late = request[c].late

StartsWith(c) ==
  /\ Step(c) = "none" /\ Begins(c) /\ UNCHANGED <<facts, revision, cache>>
  /\ \A x \in Clients \ {c} : request'[x] = request[x]
  /\ held' = [held EXCEPT ![c] = Right(EffectiveRules(facts), request'[c].user, request'[c].command)]

(* A request that goes on carries its command. *)
LEMMA GoingOnCarries ==
  ASSUME TypeIInv, NEW c \in Clients, Step(c) # "none", Becomes(c)
  PROVE  Carries(c)
<1>1. request[c] \in Requests
  BY DEF TypeIInv
<1>2. CASE request'[c] = request[c] \/ request'[c] = Idle
  BY <1>2 DEF Carries, Idle, Step
<1>3. CASE MovesTo(c) \/ AsksAgain(c) \/ IsGranted(c)
  BY <1>1, <1>3 DEF MovesTo, AsksAgain, IsGranted, Carries, Requests
<1> QED  BY <1>2, <1>3 DEF Becomes

(* A step begins one request and books whether its user has the right, or  *)
(* it begins none, and books the rights that a change of the tables gives. *)
LEMMA BookSteps ==
  ASSUME TypeIInv, [Next]_vars
  PROVE  \/ \E c \in Clients : StartsWith(c)
         \/ (\A x \in Clients : Carries(x)) /\ (UNCHANGED <<facts, held>> \/ Write(facts'))
<1>1. ASSUME NEW x \in Clients, request'[x] = request[x] PROVE Carries(x)
  BY <1>1 DEF Carries, Step
<1>2. CASE UNCHANGED vars
  BY <1>1, <1>2 DEF vars
<1>3. ASSUME NEW c \in Clients, Acts(c)
      PROVE  \/ StartsWith(c)
             \/ (\A x \in Clients : Carries(x)) /\ (UNCHANGED <<facts, held>> \/ Write(facts'))
  <2>1. Becomes(c) /\ \A x \in Clients \ {c} : request'[x] = request[x]
    BY <1>3, ActsOnItsOwn
  <2>2. ASSUME Carries(c) PROVE \A x \in Clients : Carries(x)
    BY <1>1, <2>1, <2>2
  <2>3. ASSUME NEW u \in Users, Login(c, u) \/ CompleteCallback(c, u)
        PROVE  Carries(c) /\ UNCHANGED <<facts, held>>
    <3>1. c \in DOMAIN request /\ Idle.command = NoCommand /\ Idle \in Requests
      BY DEF TypeIInv, Idle, Requests, Steps
    <3> QED  BY <2>3, <3>1 DEF Login, CompleteCallback, Carries, Store, Idle
  <2>4. ASSUME NEW groups \in SUBSET Viewers, SyncGroups(c, groups)
        PROVE  Carries(c) /\ (UNCHANGED <<facts, held>> \/ Write(facts'))
    <3>1. Step(c) # "none"
      BY <2>4 DEF SyncGroups, Step
    <3>2. UNCHANGED <<facts, held>> \/ Write(facts')
      BY <2>4, SyncChanges DEF Changed
    <3> QED  BY <2>1, <3>1, <3>2, GoingOnCarries
  <2>5. ASSUME NEW k \in offered, Start(c, k) PROVE StartsWith(c)
    <3>1. session[c].user \in Users /\ c \in DOMAIN request
      BY <2>5 DEF Start, TypeIInv, Sessions
    <3>2. request'[c] = [Idle EXCEPT !.step = "proving", !.user = session[c].user, !.command = k,
                                    !.asks = FirstAsked(k), !.late = session[c].user \in facts.disabled]
      BY <2>5, <3>1 DEF Start
    <3>3. request'[c].user = session[c].user /\ request'[c].command = k
      BY <3>2 DEF Idle
    <3>4. held' = [held EXCEPT ![c] = Right(EffectiveRules(facts), request'[c].user, request'[c].command)]
      BY <2>5, <3>3 DEF Start
    <3>5. Begins(c)
      BY <3>1, <3>2 DEF Begins
    <3>6. Step(c) = "none" /\ UNCHANGED <<facts, revision, cache>>
      BY <2>5 DEF Start, Cached
    <3> QED  BY <2>1, <3>4, <3>5, <3>6 DEF StartsWith
  <2>6. CASE Mutate(c) \/ Commit(c)
    <3>1. Step(c) # "none"
      BY <2>6 DEF Mutate, Commit, Changes
    <3>2. Write(facts')
      BY <2>6, CommandChanges DEF Changed
    <3> QED  BY <2>1, <2>2, <3>1, <3>2, GoingOnCarries
  <2>7. CASE Expire(c)
    BY <1>1, <2>2, <2>7 DEF Expire, Store
  <2>8. CASE CreateSession(c) \/ Touch(c) \/ FindUser(c) \/ Refresh(c) \/ RefuseRefresh(c)
             \/ RotateCredential(c) \/ Logout(c) \/ UpdatePassword(c) \/ RevokeUserSessions(c)
             \/ ReadRevision(c) \/ Reload(c) \/ Stamp(c) \/ Decide(c) \/ View(c)
             \/ Refuse(c) \/ MutateProtected(c) \/ Fail(c)
    <3>1. Step(c) # "none"
      BY <2>8 DEF CreateSession, Touch, FindUser, Refresh, RefuseRefresh, RotateCredential, Logout, UpdatePassword,
                  RevokeUserSessions, ReadRevision, Reload, Stamp, Decide, View, Refuse, MutateProtected, Fail,
                  Changes, Step
    <3>2. UNCHANGED <<facts, held>>
      BY <2>8 DEF CreateSession, Touch, FindUser, Refresh, RefuseRefresh, RotateCredential, Logout, UpdatePassword,
                  RevokeUserSessions, ReadRevision, Reload, Stamp, Decide, View, Refuse, MutateProtected, Fail, Store
    <3> QED  BY <2>1, <2>2, <3>1, <3>2, GoingOnCarries
  <2> QED  BY <1>3, <2>2, <2>3, <2>4, <2>5, <2>6, <2>7, <2>8 DEF Acts
<1>4. ASSUME NEW u \in Users, BackchannelLogout(u)
      PROVE  (\A x \in Clients : Carries(x)) /\ UNCHANGED <<facts, held>>
  BY <1>1, <1>4 DEF BackchannelLogout, Store
<1>5. ASSUME NEW p \in Processes, Listen(p) \/ ListenerStamps(p)
      PROVE  (\A x \in Clients : Carries(x)) /\ UNCHANGED <<facts, held>>
  BY <1>1, <1>5 DEF Listen, ListenerStamps, Store
<1> QED  BY <1>2, <1>3, <1>4, <1>5, StepCases

(* What is on offer stays, and requests are counted. *)
LEMMA CountTypes ==
  ASSUME TypeIInv, [Next]_vars
  PROVE  offered' = offered /\ requests' \in Nat
<1>1. requests \in Nat
  BY DEF TypeIInv
<1>2. CASE UNCHANGED vars
  BY <1>1, <1>2 DEF vars
<1>3. ASSUME NEW c \in Clients, Acts(c) PROVE offered' = offered /\ requests' \in Nat
  <2>1. ASSUME NEW u \in Users, Login(c, u) \/ CompleteCallback(c, u)
        PROVE  offered' = offered /\ requests' \in Nat
    BY <1>1, <2>1 DEF Login, CompleteCallback, Store, Count
  <2>2. ASSUME NEW groups \in SUBSET Viewers, SyncGroups(c, groups)
        PROVE  offered' = offered /\ requests' \in Nat
    BY <1>1, <2>2 DEF SyncGroups
  <2>3. ASSUME NEW k \in offered, Start(c, k)
        PROVE  offered' = offered /\ requests' \in Nat
    BY <1>1, <2>3 DEF Start, Count
  <2>4. CASE CreateSession(c) \/ Touch(c) \/ FindUser(c) \/ Refresh(c) \/ RefuseRefresh(c) \/ RotateCredential(c)
             \/ Expire(c) \/ Logout(c) \/ UpdatePassword(c) \/ RevokeUserSessions(c)
    BY <1>1, <2>4 DEF CreateSession, Touch, FindUser, Refresh, RefuseRefresh, RotateCredential,
                      Expire, Logout, UpdatePassword, RevokeUserSessions, Store
  <2>5. CASE ReadRevision(c) \/ Reload(c) \/ Stamp(c) \/ Decide(c) \/ View(c) \/ Refuse(c) \/ Mutate(c)
             \/ MutateProtected(c) \/ Commit(c) \/ Fail(c)
    BY <1>1, <2>5 DEF ReadRevision, Reload, Stamp, Decide, View, Refuse, Mutate, MutateProtected, Commit, Fail, Store
  <2> QED  BY <1>3, <2>1, <2>2, <2>3, <2>4, <2>5 DEF Acts
<1>4. ASSUME NEW u \in Users, BackchannelLogout(u) PROVE offered' = offered /\ requests' \in Nat
  BY <1>1, <1>4 DEF BackchannelLogout, Store
<1>5. ASSUME NEW p \in Processes, Listen(p) \/ ListenerStamps(p) PROVE offered' = offered /\ requests' \in Nat
  BY <1>1, <1>5 DEF Listen, ListenerStamps, Store
<1> QED  BY <1>2, <1>3, <1>4, <1>5, StepCases

(* The bookkeeping is a bit for every client. *)
LEMMA HeldTypes ==
  ASSUME TypeIInv, [Next]_vars
  PROVE  held' \in [Clients -> BOOLEAN]
<1>1. held \in [Clients -> BOOLEAN]
  BY DEF TypeIInv
<1>2. ASSUME NEW c \in Clients, StartsWith(c) PROVE held' \in [Clients -> BOOLEAN]
  <2>1. Right(EffectiveRules(facts), request'[c].user, request'[c].command) \in BOOLEAN
    BY Zenon DEF Right
  <2> QED  BY <1>1, <1>2, <2>1, Zenon DEF StartsWith
<1>3. ASSUME Write(facts') PROVE held' \in [Clients -> BOOLEAN]
  BY <1>3, Zenon DEF Write
<1> QED  BY <1>1, <1>2, <1>3, BookSteps

(* The initial state is well formed. *)
LEMMA TypeStarts == Init => TypeIInv
<1> SUFFICES ASSUME Init PROVE TypeIInv
  OBVIOUS
<1>1. FactsOK(facts)
  BY AccessAssumption DEF Init, FactsOK
<1>2. cache \in [Processes -> Caches]
  <2>1. EffectiveRules(Seed) \subseteq Rules
    BY AccessAssumption, RulesShape
  <2> QED  BY <2>1 DEF Init, Caches
<1>3. session \in [Clients -> Sessions]
  <2>1. NoSession \in Sessions
    BY DEF Sessions, NoSession
  <2>2. ASSUME NEW s \in [user : Users, live : {TRUE}, typed : {0}] PROVE s \in Sessions
    <3>1. s.user \in Users /\ s.live = TRUE /\ s.typed = 0
          /\ s = [user |-> s.user, live |-> s.live, typed |-> s.typed]
      BY <2>2
    <3>2. s.live \in BOOLEAN
      BY <3>1
    <3> QED  BY <3>1, <3>2 DEF Sessions
  <2> QED  BY <2>1, <2>2 DEF Init
<1>4. Idle \in Requests /\ RequestOK(Idle)
  BY DEF Idle, NoCommand, Requests, RequestOK, Steps, Asking, Checked
<1>5. request \in [Clients -> Requests] /\ \A c \in Clients : RequestOK(request[c])
  BY <1>4 DEF Init
<1> QED  BY <1>1, <1>2, <1>3, <1>5 DEF Init, TypeIInv

(* Every step keeps everything well formed. *)
LEMMA TypeStays == TypeIInv /\ [Next]_vars => TypeIInv'
<1> SUFFICES ASSUME TypeIInv, [Next]_vars PROVE TypeIInv'
  OBVIOUS
<1>1. \A c \in Clients : request'[c] \in Requests /\ RequestOK(request'[c])
  BY RequestSteps, RequestsStay
<1>2. request' \in [Clients -> Requests]
  BY <1>1, RequestShape
<1>3. offered' \in Workloads
  BY CountTypes DEF TypeIInv
<1> QED  BY <1>1, <1>2, <1>3, WorldTypes, RowTypes, LockTypes, CountTypes, HeldTypes DEF TypeIInv

(* Every table, cache, session and request has its shape: a request that   *)
(* is served names a user and a command, and one that waits for its commit *)
(* is one of those that may take a manager away.                           *)
THEOREM TypeCorrect == Spec => []TypeIInv
BY TypeStarts, TypeStays, PTL DEF Spec

-----------------------------------------------------------------------------
(* Disabled users *)

(* A request of a user who was disabled before does not get past the       *)
(* account.                                                                *)
LateIInv ==
  \A c \in Clients :
    /\ request[c].late => request[c].user \in facts.disabled
    /\ Step(c) \notin {"none", "proving", "finding"} => ~request[c].late

(* Nobody who was disabled is enabled again. *)
LEMMA DisabledStays ==
  ASSUME TypeIInv, [Next]_vars
  PROVE  facts.disabled \subseteq facts'.disabled
<1>1. facts \in Tables
  BY DEF TypeIInv, FactsOK
<1>2. ASSUME Changed PROVE facts.disabled \subseteq facts'.disabled
  BY <1>1, <1>2 DEF Changed, Tables
<1> QED  BY <1>2, WorldSteps

(* Every step keeps late requests from getting past the account. *)
LEMMA LateStays == TypeIInv /\ LateIInv /\ [Next]_vars => LateIInv'
<1> SUFFICES ASSUME TypeIInv, LateIInv, [Next]_vars, NEW c \in Clients
             PROVE  /\ request'[c].late => request'[c].user \in facts'.disabled
                    /\ request'[c].step \notin {"none", "proving", "finding"} => ~request'[c].late
  BY DEF LateIInv, Step
<1>1. /\ request[c].late => request[c].user \in facts.disabled
      /\ request[c].step \notin {"none", "proving", "finding"} => ~request[c].late
  BY DEF LateIInv, Step
<1>2. facts.disabled \subseteq facts'.disabled /\ Becomes(c) /\ request[c] \in Requests
  BY DisabledStays, RequestSteps DEF TypeIInv
<1>3. CASE request'[c] = request[c] \/ request'[c] = Idle
  BY <1>1, <1>2, <1>3 DEF Idle
<1>4. CASE SignsIn(c)
  <2>1. ~request'[c].late
    BY <1>4 DEF SignsIn, Idle
  <2> QED  BY <2>1
<1>5. CASE Begins(c)
  <2>1. /\ request'[c].step = "proving" /\ request'[c].user = session[c].user
        /\ request'[c].late = (session[c].user \in facts.disabled)
    BY <1>5 DEF Begins, Idle
  <2> QED  BY <1>2, <2>1
<1>6. CASE MovesTo(c)
  <2>1. PICK to \in Steps : GoesOn(request[c], to) /\ request'[c] = [request[c] EXCEPT !.step = to]
    BY <1>6 DEF MovesTo
  <2>2. request'[c].step = to /\ request'[c].user = request[c].user /\ request'[c].late = request[c].late
    BY <1>2, <2>1 DEF Requests
  <2> QED  BY <1>1, <1>2, <2>1, <2>2 DEF GoesOn
<1>7. CASE AsksAgain(c) \/ IsGranted(c)
  BY <1>1, <1>2, <1>7 DEF AsksAgain, IsGranted, Requests, Step
<1> QED  BY <1>2, <1>3, <1>4, <1>5, <1>6, <1>7 DEF Becomes

(* DisabledIsOut: a request that began after its user was disabled is      *)
(* stopped at the account, whatever session it came with and whenever that *)
(* session was opened (FindUser, Refresh).                                 *)
THEOREM LateRequestsAreNotServed == Spec => []DisabledIsOut
<1>1. Init => LateIInv
  BY DEF Init, LateIInv, Step, Idle
<1>2. LateIInv => DisabledIsOut
  BY DEF LateIInv, DisabledIsOut
<1> QED  BY <1>1, <1>2, LateStays, TypeCorrect, PTL DEF Spec

-----------------------------------------------------------------------------
(* Caches and decisions *)

(* A cache whose rules are of the present revision. *)
Fresh(p) == cache[p].asOf = revision

(* No cache is ahead of the tables. *)
RevisionsIInv == \A p \in Processes : cache[p].asOf <= revision /\ cache[p].revision <= revision

(* A fresh cache has the rules of all users, except of those who were      *)
(* disabled, which is no change of the policy.                             *)
CachesIInv ==
  \A p \in Processes : Fresh(p) =>
    \A x : x.user \in Users \ facts.disabled => (x \in cache[p].rules <=> x \in EffectiveRules(facts))

(* Neither the tables nor a fresh cache give a right that the request's    *)
(* user did not have at some time since it began.                          *)
HeldIInv ==
  \A c \in Clients : Step(c) # "none" /\ request[c].command # NoCommand /\ ~request[c].late =>
    /\ Right(EffectiveRules(facts), request[c].user, request[c].command) => held[c]
    /\ Fresh(Process(c)) /\ Right(cache[Process(c)].rules, request[c].user, request[c].command) => held[c]

(* What a request decides from gives a right that its user had, or is      *)
(* older than the revision it is taken for.                                *)
DecidingIInv ==
  \A c \in Clients :
    Step(c) = "deciding" /\ Right(cache[Process(c)].rules, request[c].user, request[c].command) =>
      held[c] \/ Torn(Process(c))

(* What the scope allowed first, likewise. *)
AllowedIInv == \A c \in Clients : request[c].allowed => held[c] \/ request[c].torn

RightsIInv == RevisionsIInv /\ CachesIInv /\ HeldIInv /\ DecidingIInv /\ AllowedIInv

(* A cache after a step on a cache. *)
LEMMA CacheSteps ==
  ASSUME TypeIInv, NEW p \in Processes, NEW q \in Processes, Loaded(p) \/ Stamped(p)
  PROVE  \/ cache'[q] = cache[q]
         \/ q = p /\ Loaded(p) /\ cache'[q].rules = EffectiveRules(facts) /\ cache'[q].asOf = revision
            /\ cache'[q].revision = cache[q].revision
         \/ q = p /\ Stamped(p) /\ cache'[q].rules = cache[q].rules /\ cache'[q].asOf = cache[q].asOf
            /\ cache'[q].revision = revision
<1>1. cache \in [Processes -> Caches]
  BY DEF TypeIInv
<1> QED  BY <1>1 DEF Loaded, Stamped, Caches

(* Every step keeps the caches behind the tables. *)
LEMMA RevisionsStay ==
  ASSUME TypeIInv, RevisionsIInv, [Next]_vars
  PROVE  RevisionsIInv'
<1> SUFFICES ASSUME NEW q \in Processes
             PROVE  cache'[q].asOf <= revision' /\ cache'[q].revision <= revision'
  BY DEF RevisionsIInv
<1>1. /\ revision \in Nat /\ cache[q].asOf \in Nat /\ cache[q].revision \in Nat
      /\ cache[q].asOf <= revision /\ cache[q].revision <= revision
  BY DEF TypeIInv, RevisionsIInv, Caches
<1>2. CASE Changed /\ UNCHANGED cache
  BY <1>1, <1>2 DEF Changed
<1>3. CASE UNCHANGED <<facts, revision>> /\ \E p \in Processes : Loaded(p) \/ Stamped(p)
  BY <1>1, <1>3, CacheSteps
<1>4. CASE UNCHANGED <<facts, revision, cache>>
  BY <1>1, <1>4
<1> QED  BY <1>2, <1>3, <1>4, WorldSteps

(* Every step keeps fresh caches right. *)
LEMMA CachesStay ==
  ASSUME TypeIInv, RevisionsIInv, CachesIInv, [Next]_vars
  PROVE  CachesIInv'
<1> SUFFICES ASSUME NEW q \in Processes, cache'[q].asOf = revision',
                    NEW x, x.user \in Users \ facts'.disabled
             PROVE  x \in cache'[q].rules <=> x \in EffectiveRules(facts')
  BY DEF CachesIInv, Fresh
<1>1. /\ revision \in Nat /\ cache[q].asOf \in Nat /\ cache[q].asOf <= revision
      /\ facts \in Tables /\ x.user \in Users \ facts.disabled
  BY DisabledStays DEF TypeIInv, RevisionsIInv, Caches, FactsOK
<1>2. Fresh(q) => (x \in cache[q].rules <=> x \in EffectiveRules(facts))
  BY <1>1 DEF CachesIInv
<1>3. CASE Changed /\ UNCHANGED cache
  <2>1. revision' = revision /\ Fresh(q)
    BY <1>1, <1>3 DEF Changed, Fresh
  <2>2. PICK v \in Users : facts' = [facts EXCEPT !.disabled = @ \cup {v}]
    BY <1>1, <1>3, <2>1 DEF Changed
  <2>3. facts' \in Tables /\ x.user # v
    BY <1>1, <1>3, <2>2 DEF Changed, FactsOK, Tables
  <2>4. x \in EffectiveRules(facts) <=> x \in EffectiveRules(facts')
    <3>1. facts \in Tables
      BY <1>1
    <3> QED  BY <2>2, <2>3, <3>1, DisablingIsPersonal, Zenon
  <2> QED  BY <1>2, <1>3, <2>1, <2>4
<1>4. CASE UNCHANGED <<facts, revision>> /\ \E p \in Processes : Loaded(p) \/ Stamped(p)
  BY <1>2, <1>4, CacheSteps DEF Fresh
<1>5. CASE UNCHANGED <<facts, revision, cache>>
  BY <1>2, <1>5 DEF Fresh
<1> QED  BY <1>3, <1>4, <1>5, WorldSteps

(* A right that was held stays booked while the command is carried on.     *)
LEMMA HeldGrows ==
  ASSUME TypeIInv, UNCHANGED <<facts, held>> \/ Write(facts'), NEW c \in Clients
  PROVE  held[c] => held'[c]
BY DEF Write

(* Every step keeps the books right. *)
LEMMA HeldStays ==
  ASSUME TypeIInv, RevisionsIInv, CachesIInv, HeldIInv, [Next]_vars
  PROVE  HeldIInv'
<1> SUFFICES ASSUME NEW c \in Clients, request'[c].step # "none", request'[c].command # NoCommand,
                    ~request'[c].late
             PROVE  /\ Right(EffectiveRules(facts'), request'[c].user, request'[c].command) => held'[c]
                    /\ cache'[Process(c)].asOf = revision'
                       /\ Right(cache'[Process(c)].rules, request'[c].user, request'[c].command) => held'[c]
  BY DEF HeldIInv, Fresh, Step, Process
<1> DEFINE p == Process(c)
<1>1. p \in Processes
  BY DEF Process, Processes
<1>2. /\ revision \in Nat /\ cache[p].asOf \in Nat /\ cache[p].asOf <= revision
      /\ held \in [Clients -> BOOLEAN]
  BY <1>1 DEF TypeIInv, RevisionsIInv, Caches
<1>3. ASSUME NEW b \in Clients, StartsWith(b), b = c
      PROVE  /\ Right(EffectiveRules(facts'), request'[c].user, request'[c].command) => held'[c]
             /\ cache'[p].asOf = revision'
                /\ Right(cache'[p].rules, request'[c].user, request'[c].command) => held'[c]
  <2>1. /\ held'[c] = Right(EffectiveRules(facts), request'[c].user, request'[c].command)
        /\ facts' = facts /\ revision' = revision /\ cache' = cache
    BY <1>2, <1>3 DEF StartsWith
  <2>2. request'[c].user \in Users \ facts.disabled
    <3>1. request'[c].user = session[c].user /\ session[c].user \in Users
          /\ request'[c].late = (session[c].user \in facts.disabled)
      BY <1>3 DEF StartsWith, Begins, Idle
    <3> QED  BY <3>1
  <2>3. ASSUME Fresh(p)
        PROVE  Right(cache[p].rules, request'[c].user, request'[c].command)
                 <=> Right(EffectiveRules(facts), request'[c].user, request'[c].command)
    <3>1. \A x : x.user = request'[c].user => (x \in cache[p].rules <=> x \in EffectiveRules(facts))
      BY <1>1, <2>2, <2>3 DEF CachesIInv
    <3> HIDE DEF p
    <3> QED  BY <3>1, RightIsTheUsers
  <2> QED  BY <2>1, <2>3 DEF Fresh
<1>4. ASSUME request'[c].user = request[c].user, request'[c].command = request[c].command,
             request'[c].late = request[c].late, Step(c) # "none",
             UNCHANGED <<facts, held>> \/ Write(facts')
      PROVE  /\ Right(EffectiveRules(facts'), request'[c].user, request'[c].command) => held'[c]
             /\ cache'[p].asOf = revision'
                /\ Right(cache'[p].rules, request'[c].user, request'[c].command) => held'[c]
  <2> DEFINE u == request[c].user
             k == request[c].command
  <2>1. /\ Right(EffectiveRules(facts), u, k) => held[c]
        /\ Fresh(p) /\ Right(cache[p].rules, u, k) => held[c]
    BY <1>4 DEF HeldIInv
  <2>2. held[c] => held'[c]
    BY <1>4, HeldGrows
  <2>3. Right(EffectiveRules(facts'), u, k) => held'[c]
    BY <1>4, <2>1, <2>2 DEF Write
  <2>4. cache'[p].asOf = revision' /\ Right(cache'[p].rules, u, k) => held'[c]
    <3>1. CASE Changed /\ UNCHANGED cache
      BY <1>2, <2>1, <2>2, <3>1 DEF Changed, Fresh
    <3>2. CASE UNCHANGED <<facts, revision>> /\ \E q \in Processes : Loaded(q) \/ Stamped(q)
      BY <1>1, <2>1, <2>2, <3>2, CacheSteps DEF Fresh
    <3>3. CASE UNCHANGED <<facts, revision, cache>>
      BY <2>1, <2>2, <3>3 DEF Fresh
    <3> QED  BY <3>1, <3>2, <3>3, WorldSteps
  <2> QED  BY <1>4, <2>3, <2>4
<1>5. ASSUME NEW b \in Clients, StartsWith(b), b # c
      PROVE  /\ request'[c] = request[c] /\ Step(c) # "none" /\ UNCHANGED facts
             /\ held'[c] = held[c] /\ cache' = cache /\ revision' = revision
  BY <1>2, <1>5 DEF StartsWith, Step
<1>6. ASSUME NEW b \in Clients, StartsWith(b), b # c
      PROVE  /\ Right(EffectiveRules(facts'), request'[c].user, request'[c].command) => held'[c]
             /\ cache'[p].asOf = revision'
                /\ Right(cache'[p].rules, request'[c].user, request'[c].command) => held'[c]
  <2>1. /\ Right(EffectiveRules(facts), request[c].user, request[c].command) => held[c]
        /\ Fresh(p) /\ Right(cache[p].rules, request[c].user, request[c].command) => held[c]
    BY <1>5, <1>6 DEF HeldIInv
  <2> QED  BY <1>5, <1>6, <2>1 DEF Fresh
<1>7. CASE (\A x \in Clients : Carries(x)) /\ (UNCHANGED <<facts, held>> \/ Write(facts'))
  <2>1. /\ request'[c].user = request[c].user /\ request'[c].command = request[c].command
        /\ request'[c].late = request[c].late /\ Step(c) # "none"
    BY <1>7 DEF Carries
  <2> QED  BY <1>4, <1>7, <2>1
<1> QED  BY <1>3, <1>6, <1>7, BookSteps

(* A request comes to decide when its cache is taken for the present       *)
(* revision.                                                               *)
LEMMA DecidingBegins ==
  ASSUME TypeIInv, [Next]_vars, NEW c \in Clients, Step(c) # "deciding", request'[c].step = "deciding"
  PROVE  /\ revision' <= cache'[Process(c)].revision
         /\ request'[c].user = request[c].user /\ request'[c].command = request[c].command
         /\ request'[c].late = request[c].late /\ Step(c) \in {"proved", "stamping"}
<1>1. /\ request[c] \in Requests /\ revision \in Nat /\ cache \in [Processes -> Caches]
      /\ Process(c) \in Processes
  BY DEF TypeIInv, Process, Processes
<1>2. request'[c] # request[c] /\ ~UNCHANGED request
  BY DEF Step
<1>3. Acts(c)
  <2>1. ASSUME NEW x \in Clients, Acts(x) PROVE x = c
    BY <2>1, ActsOnItsOwn DEF Step
  <2> QED  BY <1>2, <2>1, StepCases DEF vars, BackchannelLogout, Listen, ListenerStamps
<1>4. MovesTo(c)
  <2>1. Becomes(c)
    BY RequestSteps
  <2>2. ~SignsIn(c)
    BY DEF SignsIn, Idle
  <2>3. ~Begins(c) /\ request'[c] # Idle
    <3>1. Begins(c) => request'[c].step = "proving"
      BY DEF Begins, Idle
    <3>2. Idle.step = "none"
      BY DEF Idle
    <3> QED  BY <3>1, <3>2
  <2>4. ~AsksAgain(c) /\ ~IsGranted(c)
    BY DEF AsksAgain, IsGranted
  <2> QED  BY <1>2, <2>1, <2>2, <2>3, <2>4 DEF Becomes
<1>5. /\ Step(c) \in {"proved", "stamping"}
      /\ request'[c].user = request[c].user /\ request'[c].command = request[c].command
      /\ request'[c].late = request[c].late
  BY <1>1, <1>4 DEF MovesTo, GoesOn, Requests, Step
<1>6. ReadRevision(c) \/ Stamp(c)
  <2>1. ~(Logout(c) \/ UpdatePassword(c) \/ Fail(c) \/ Expire(c))
    <3>1. request \in [Clients -> Requests]
      BY DEF TypeIInv
    <3>2. Logout(c) \/ Fail(c) => request'[c] = Idle
      BY <3>1 DEF Logout, Fail, Finish
    <3>3. UpdatePassword(c) => request'[c].step = "revoking"
      BY <3>1 DEF UpdatePassword, Goto, Requests
    <3>4. ~Expire(c)
      BY <1>2 DEF Expire
    <3> QED  BY <3>2, <3>3, <3>4 DEF Idle
  <2> QED  BY <1>3, <1>5, <2>1 DEF Acts, Login, CompleteCallback, SyncGroups, Start, CreateSession, Touch, FindUser,
               Refresh, RefuseRefresh, RotateCredential, RevokeUserSessions, Reload, Decide, View, Refuse, Mutate,
               MutateProtected, Commit, Changes, Step
<1>7. CASE ReadRevision(c)
  <2>1. /\ request' = [request EXCEPT ![c].step =
                         IF revision <= cache[Process(c)].revision THEN "deciding" ELSE "loading"]
        /\ UNCHANGED <<revision, cache>>
    BY <1>7 DEF ReadRevision, Goto, Store, Cached
  <2>2. request'[c].step = IF revision <= cache[Process(c)].revision THEN "deciding" ELSE "loading"
    BY <1>1, <2>1 DEF TypeIInv, Requests
  <2>3. revision <= cache[Process(c)].revision
    BY <2>2
  <2> QED  BY <1>5, <2>1, <2>3
<1>8. CASE Stamp(c)
  <2>1. cache'[Process(c)].revision = revision /\ revision' = revision
    BY <1>1, <1>8 DEF Stamp, StampRevision, Store, Caches
  <2> QED  BY <1>1, <1>5, <2>1
<1> QED  BY <1>6, <1>7, <1>8

(* Every step keeps decisions on rights that were held, or on torn caches. *)
LEMMA DecidingStays ==
  ASSUME TypeIInv, LateIInv, RightsIInv, [Next]_vars
  PROVE  DecidingIInv'
<1> SUFFICES ASSUME NEW c \in Clients, request'[c].step = "deciding",
                    Right(cache'[Process(c)].rules, request'[c].user, request'[c].command),
                    ~(cache'[Process(c)].asOf < cache'[Process(c)].revision)
             PROVE  held'[c]
  BY DEF DecidingIInv, Torn, Step, Process
<1> DEFINE p == Process(c)
<1>1. /\ p \in Processes /\ TypeIInv' /\ RevisionsIInv' /\ HeldIInv' /\ LateIInv'
      /\ request[c] \in Requests
  BY TypeStays, RevisionsStay, HeldStays, LateStays DEF RightsIInv, Process, Processes, TypeIInv
<1>2. /\ revision \in Nat /\ revision' \in Nat /\ cache[p] \in Caches /\ cache'[p] \in Caches
      /\ cache[p].revision <= revision /\ cache'[p].asOf <= revision' /\ cache'[p].revision <= revision'
  BY <1>1 DEF TypeIInv, RevisionsIInv, RightsIInv
<1>3. request'[c].command # NoCommand
  <2>1. request'[c].command \in Commands
    BY <1>1 DEF TypeIInv, RequestOK, Asking
  <2> QED  BY <2>1, CommandFacts DEF NoCommand
<1>4. ~request'[c].late
  BY <1>1 DEF LateIInv, Step
<1>5. cache'[p].asOf = revision' => held'[c]
  BY <1>1, <1>3, <1>4 DEF HeldIInv, Fresh, Step, Process
<1>6. ASSUME revision' <= cache'[p].revision PROVE held'[c]
  <2>1. cache'[p].asOf = revision'
    BY <1>2, <1>6 DEF Caches
  <2> QED  BY <1>5, <2>1
<1>7. CASE Step(c) # "deciding"
  BY <1>6, <1>7, DecidingBegins
<1>8. CASE Step(c) = "deciding"
  <2>1. ~StartsWith(c)
    BY <1>8 DEF StartsWith
  <2>2. Becomes(c) /\ ~SignsIn(c) /\ ~Begins(c) /\ ~AsksAgain(c) /\ ~IsGranted(c)
        /\ request'[c] # Idle
    <3>1. /\ SignsIn(c) => request'[c].step \in {"creating", "syncing"}
          /\ Begins(c) => request'[c].step = "proving"
      BY DEF SignsIn, Begins, Idle
    <3>2. (AsksAgain(c) => request'[c].step = "proved") /\ (IsGranted(c) => request'[c].step = "granted")
      BY <1>1 DEF AsksAgain, IsGranted, Requests
    <3>3. Idle.step = "none"
      BY DEF Idle
    <3> QED  BY <3>1, <3>2, <3>3, RequestSteps
  <2>3. request'[c].user = request[c].user /\ request'[c].command = request[c].command
    BY <1>1, <2>2 DEF Becomes, MovesTo, Requests
  <2>4. held[c] => held'[c]
    <3>1. ASSUME NEW b \in Clients, StartsWith(b) PROVE held'[c] = held[c]
      BY <2>1, <3>1 DEF StartsWith, TypeIInv
    <3> QED  BY <3>1, HeldGrows, BookSteps
  <2>5. ASSUME cache'[p] = cache[p] PROVE held'[c]
    BY <1>8, <2>3, <2>4, <2>5 DEF RightsIInv, DecidingIInv, Torn
  <2>6. CASE Changed /\ UNCHANGED cache
    BY <2>5, <2>6
  <2>7. CASE UNCHANGED <<facts, revision>> /\ \E q \in Processes : Loaded(q) \/ Stamped(q)
    BY <1>1, <1>2, <1>5, <1>6, <2>5, <2>7, CacheSteps
  <2>8. CASE UNCHANGED <<facts, revision, cache>>
    BY <2>5, <2>8
  <2> QED  BY <2>6, <2>7, <2>8, WorldSteps
<1> QED  BY <1>7, <1>8

(* Every step keeps what was allowed on rights that were held, or torn. *)
LEMMA AllowedStays ==
  ASSUME TypeIInv, RightsIInv, [Next]_vars
  PROVE  AllowedIInv'
<1> SUFFICES ASSUME NEW c \in Clients, request'[c].allowed PROVE held'[c] \/ request'[c].torn
  BY DEF AllowedIInv
<1>1. Becomes(c) /\ request[c] \in Requests /\ request \in [Clients -> Requests]
  BY RequestSteps DEF TypeIInv
<1>2. ~SignsIn(c) /\ ~Begins(c) /\ request'[c] # Idle
  <2>1. SignsIn(c) => request'[c].allowed = FALSE
    BY DEF SignsIn, Idle
  <2>2. Begins(c) => request'[c].allowed = FALSE
    BY DEF Begins, Idle
  <2>3. Idle.allowed = FALSE
    BY DEF Idle
  <2> QED  BY <2>1, <2>2, <2>3
<1>3. held[c] => held'[c]
  <2>1. ASSUME NEW b \in Clients, StartsWith(b) PROVE held'[c] = held[c]
    BY <1>2, <2>1 DEF StartsWith, TypeIInv
  <2> QED  BY <2>1, HeldGrows, BookSteps
<1>4. CASE request'[c] = request[c] \/ MovesTo(c) \/ IsGranted(c)
  <2>1. request'[c].allowed = request[c].allowed /\ request'[c].torn = request[c].torn
    BY <1>1, <1>4 DEF MovesTo, IsGranted, Requests
  <2> QED  BY <1>3, <2>1 DEF RightsIInv, AllowedIInv
<1>5. CASE AsksAgain(c)
  <2>1. PICK a \in {"platform", "scope"}, yes \in BOOLEAN :
          /\ Step(c) = "deciding"
          /\ yes => Right(cache[Process(c)].rules, request[c].user, request[c].command)
          /\ request'[c] = [request[c] EXCEPT !.step = "proved", !.asks = a, !.allowed = yes,
                                              !.torn = yes /\ Torn(Process(c))]
    BY <1>5 DEF AsksAgain
  <2>2. request'[c].allowed = yes /\ request'[c].torn = (yes /\ Torn(Process(c)))
    BY <1>1, <2>1 DEF Requests
  <2>3. held[c] \/ Torn(Process(c))
    BY <2>1, <2>2 DEF RightsIInv, DecidingIInv
  <2> QED  BY <1>3, <2>2, <2>3
<1> QED  BY <1>1, <1>2, <1>4, <1>5 DEF Becomes

(* Every step keeps all of it. *)
LEMMA RightsStay == TypeIInv /\ LateIInv /\ RightsIInv /\ [Next]_vars => RightsIInv'
BY RevisionsStay, CachesStay, HeldStays, DecidingStays, AllowedStays DEF RightsIInv

(* All of it holds at first. *)
LEMMA RightsStart == Init => RightsIInv
<1> SUFFICES ASSUME Init PROVE RightsIInv
  OBVIOUS
<1>1. \A p \in Processes : cache[p].asOf = 0 /\ cache[p].revision = 0 /\ cache[p].rules = EffectiveRules(facts)
  BY DEF Init
<1>2. \A c \in Clients : Step(c) = "none"
  BY DEF Init, Step, Idle
<1>3. RevisionsIInv /\ CachesIInv
  BY <1>1 DEF Init, RevisionsIInv, CachesIInv
<1>4. HeldIInv /\ DecidingIInv
  BY <1>2 DEF HeldIInv, DecidingIInv
<1>5. AllowedIInv
  BY DEF Init, AllowedIInv, Idle
<1> QED  BY <1>3, <1>4, <1>5 DEF RightsIInv

(* A request is granted what the rules of its process give, or gave when   *)
(* the scope was asked for.                                                *)
LEMMA GrantedByRules ==
  ASSUME TypeIInv, [Next]_vars, NEW c \in Clients, Step(c) = "deciding", request'[c].step = "granted"
  PROVE  Right(cache[Process(c)].rules, request[c].user, request[c].command) \/ request[c].allowed
<1>1. request'[c] # request[c] /\ request \in [Clients -> Requests]
  BY DEF Step, TypeIInv
<1>2. Acts(c)
  <2>1. ASSUME NEW x \in Clients, Acts(x) PROVE x = c
    BY <1>1, <2>1, ActsOnItsOwn
  <2> QED  BY <1>1, <2>1, StepCases DEF vars, BackchannelLogout, Listen, ListenerStamps
<1>3. Decide(c)
  <2>1. ~Fail(c) /\ ~Expire(c)
    BY <1>1 DEF Fail, Finish, Expire, Idle
  <2> QED  BY <1>2, <2>1 DEF Acts, Login, CompleteCallback, SyncGroups, Start, CreateSession, Touch, FindUser,
               Refresh, RefuseRefresh, RotateCredential, RevokeUserSessions, Logout, UpdatePassword, ReadRevision,
               Reload, Stamp, View, Refuse, Mutate, MutateProtected, Commit, Changes, Step
<1>4. ~AsksAgain(c) /\ request'[c] # Idle
  <2>1. request[c] \in Requests
    BY <1>1
  <2>2. AsksAgain(c) => request'[c].step = "proved"
    BY <2>1 DEF AsksAgain, Requests
  <2> QED  BY <2>2 DEF Idle
<1> QED  BY <1>3, <1>4, DecideCases

(* RevokedStaysOut: what the cache of a process grants, the user had the   *)
(* right to since the request began, or a commit came between the two      *)
(* reads of a reload that one of the request's decisions rests on          *)
(* (ReadRevision, Reload, Stamp, Decide).  It needs    *)
(* that the request read the revision after its session was proved, and    *)
(* that disabling, which no revision tells of, is looked at there.         *)
THEOREM GrantsAreNotStale == Spec => RevokedStaysOut
<1>1. TypeIInv /\ RightsIInv /\ [Next]_vars =>
        [\A c \in Clients : Step(c) = "deciding" /\ Step(c)' = "granted" =>
             held[c] \/ Torn(Process(c)) \/ request[c].torn]_vars
  <2> SUFFICES ASSUME TypeIInv, RightsIInv, [Next]_vars, NEW c \in Clients,
                      Step(c) = "deciding", request'[c].step = "granted"
               PROVE  held[c] \/ Torn(Process(c)) \/ request[c].torn
    BY DEF Step
  <2> QED  BY GrantedByRules DEF RightsIInv, DecidingIInv, AllowedIInv
<1>2. Init => LateIInv
  BY DEF Init, LateIInv, Step, Idle
<1> QED  BY <1>1, <1>2, TypeStarts, TypeStays, LateStays, RightsStart, RightsStay, PTL DEF Spec, RevokedStaysOut

-----------------------------------------------------------------------------
(* Who remains to manage the platform *)

(* The users whom a binding makes a manager: members by hand alone, for    *)
(* what the provider says gives nothing on the platform.                   *)
Managers(f) ==
  {u \in Users \ f.disabled : \E m \in f.members, b \in f.bindings :
     /\ m.user = u /\ m.group = b.group /\ m.source = "manual" /\ IsOpen(f, b.group) /\ b.scope = Platform
     /\ f.role[b.role] = "active" /\ "platform.manage" \in Grants[b.role]}

(* A group that the provider fills is not bound to platform management.    *)
ViewersDoNotManage ==
  \A b \in facts.bindings : b.scope = Platform /\ "platform.manage" \in Grants[b.role] => b.group \notin Viewers

(* Someone manages, and whoever is about to commit holds the guard, and    *)
(* the row of what is written, and leaves someone who manages.             *)
ManagersIInv ==
  /\ Managers(facts) # {}
  /\ \A c \in Clients : Step(c) = "committing" =>
       /\ guard = c
       /\ request[c].command.kind # "DisableUser" => row = c
       /\ \A f \in Outcome(facts, request[c].command, By(c)) : Managers(f) # {}

(* No scope but the platform itself is within the platform. *)
LEMMA PlatformIsApart ==
  ASSUME NEW scope \in Scopes, scope \subseteq Platform
  PROVE  scope = Platform
<1>1. /\ {} \notin Scopes /\ Platform \cap UNION (Scopes \ {Platform}) = {}
  BY AccessAssumption
<1>2. PICK x \in scope : TRUE
  BY <1>1
<1>3. ASSUME scope # Platform PROVE FALSE
  <2>1. x \in UNION (Scopes \ {Platform})
    BY <1>3
  <2> QED  BY <1>1, <2>1
<1> QED  BY <1>3

(* The policy lets manage whom a binding makes a manager: nothing below    *)
(* the platform gives it, and no denial is on the platform.                *)
LEMMA ManagersManage ==
  ASSUME NEW f, FactsOK(f), NEW u \in Users
  PROVE  Manages(EffectiveRules(f), u) <=> u \in Managers(f)
<1> DEFINE Rules2(effect) ==
             {x \in EffectiveRules(f) : x.effect = effect /\ Matches(x, u, "platform.manage", Platform)}
<1>1. f \in Tables
  BY DEF FactsOK
<1>2. Rules2("deny") = {}
  <2>1. ASSUME NEW x \in EffectiveRules(f), x.effect = "deny", Matches(x, u, "platform.manage", Platform)
        PROVE  FALSE
    <3>1. Denies(f, x)
      BY <2>1, RulesAre DEF Allows
    <3>2. x.scope \in Scopes /\ x.scope # Platform
      BY <1>1, <3>1 DEF Denies, Tables
    <3> QED  BY <2>1, <3>2, PlatformIsApart DEF Matches
  <2> QED  BY <2>1
<1>3. ASSUME NEW x \in EffectiveRules(f), x.effect = "allow", Matches(x, u, "platform.manage", Platform)
      PROVE  u \in Managers(f)
  <2>1. Allows(f, x)
    BY <1>3, RulesAre DEF Denies
  <2>2. PICK m \in f.members, b \in f.bindings : \E p \in Grants[b.role] :
          /\ m.user \notin f.disabled /\ IsOpen(f, m.group)
          /\ b.group = m.group /\ f.role[b.role] = "active" /\ Counts(m, b.scope, p)
          /\ x = [user |-> m.user, permission |-> p, scope |-> b.scope, effect |-> "allow"]
    BY <2>1 DEF Allows
  <2>3. /\ m.user = u /\ "platform.manage" \in Grants[b.role] /\ x.scope = b.scope
        /\ Counts(m, b.scope, "platform.manage")
    BY <1>3, <2>2 DEF Matches
  <2>4. b.scope \in Scopes
    BY <1>1 DEF Tables
  <2>5. b.scope = Platform
    BY <1>3, <2>3, <2>4, PlatformIsApart DEF Matches
  <2>6. m.source = "manual"
    BY <2>3, <2>5 DEF Counts
  <2> QED  BY <2>2, <2>3, <2>5, <2>6 DEF Managers
<1>4. ASSUME u \in Managers(f)
      PROVE  Rules2("allow") # {}
  <2>1. PICK m \in f.members, b \in f.bindings :
          /\ m.user = u /\ m.group = b.group /\ m.source = "manual" /\ IsOpen(f, b.group) /\ b.scope = Platform
          /\ f.role[b.role] = "active" /\ "platform.manage" \in Grants[b.role]
    BY <1>4 DEF Managers
  <2> DEFINE x == [user |-> u, permission |-> "platform.manage", scope |-> Platform, effect |-> "allow"]
  <2>2. u \notin f.disabled
    BY <1>4 DEF Managers
  <2>3. Allows(f, x)
    BY <2>1, <2>2 DEF Allows, Counts
  <2>4. x \in EffectiveRules(f)
    BY <2>3, RulesAre
  <2>5. x.effect = "allow" /\ Matches(x, u, "platform.manage", Platform)
    BY DEF Matches
  <2> QED  BY <2>4, <2>5
<1>5. Manages(EffectiveRules(f), u) <=> Rules2("allow") # {} /\ Rules2("deny") = {}
  BY DEF Manages, Allowed
<1> QED  BY <1>2, <1>3, <1>4, <1>5

(* What takes nothing leaves the managers. *)
LEMMA ManagersGrow ==
  ASSUME NEW f, FactsOK(f), NEW g, Extends(f, g)
  PROVE  Managers(f) \subseteq Managers(g)
<1> SUFFICES ASSUME NEW u \in Managers(f) PROVE u \in Managers(g)
  OBVIOUS
<1>1. PICK m \in f.members, b \in f.bindings :
        /\ m.user = u /\ m.group = b.group /\ m.source = "manual" /\ IsOpen(f, b.group) /\ b.scope = Platform
        /\ f.role[b.role] = "active" /\ "platform.manage" \in Grants[b.role]
  BY DEF Managers
<1>2. b.group \in Groups /\ b.role \in Roles
  BY DEF FactsOK, Tables
<1>3. m \in g.members /\ b \in g.bindings /\ g.disabled = f.disabled /\ IsOpen(g, b.group)
      /\ g.role[b.role] = "active"
  BY <1>1, <1>2 DEF Extends
<1> QED  BY <1>1, <1>3 DEF Managers

(* The paths that the guard counts are managers, unless the provider fills *)
(* a group that is bound to platform management.                           *)
LEMMA PathsAreManagers ==
  ASSUME NEW f, FactsOK(f),
         \A b \in f.bindings : b.scope = Platform /\ "platform.manage" \in Grants[b.role] => b.group \notin Viewers
  PROVE  Paths(f) \subseteq Managers(f)
<1> SUFFICES ASSUME NEW u \in Paths(f) PROVE u \in Managers(f)
  OBVIOUS
<1>1. PICK m \in f.members, b \in f.bindings :
        /\ m.user = u /\ m.group = b.group /\ IsOpen(f, b.group) /\ b.scope = Platform
        /\ f.role[b.role] = "active" /\ "platform.manage" \in Grants[b.role]
  BY DEF Paths
<1>2. m.source = "manual"
  BY <1>1 DEF FactsOK, Tables
<1> QED  BY <1>1, <1>2 DEF Paths, Managers

(* A protected command has one outcome at most, the same for every policy. *)
LEMMA ProtectedOutcome ==
  ASSUME NEW f, NEW k, k.kind \in Protected, NEW by, NEW other, other.user = by.user
  PROVE  /\ Outcome(f, k, other) = Outcome(f, k, by)
         /\ \A g, h \in Outcome(f, k, by) : g = h
<1>1. CASE k.kind = "DisableGroup"
  BY <1>1 DEF Outcome, DisableGroup, Only
<1>2. CASE k.kind = "DisableRole"
  BY <1>2 DEF Outcome, DisableRole, Only
<1>3. CASE k.kind = "RevokeMembership"
  BY <1>3 DEF Outcome, RevokeMembership, Only
<1>4. CASE k.kind = "RevokeBinding"
  BY <1>4 DEF Outcome, RevokeBinding, Only
<1>5. CASE k.kind = "DisableUser"
  BY <1>5 DEF Outcome, DisableUser, Only
<1> QED  BY <1>1, <1>2, <1>3, <1>4, <1>5 DEF Protected

(* The disabling of a user leaves a manager also when it commits on tables *)
(* that others have extended since it counted.                             *)
LEMMA DisablingStillLeaves ==
  ASSUME NEW f, FactsOK(f), NEW h, FactsOK(h), Extends(f, h),
         NEW k \in Commands, k.kind = "DisableUser", NEW by,
         \A g \in Outcome(f, k, by) : Managers(g) # {}
  PROVE  \A g \in Outcome(h, k, by) : Managers(g) # {}
<1> SUFFICES ASSUME NEW g \in Outcome(h, k, by) PROVE Managers(g) # {}
  OBVIOUS
<1> DEFINE d == [f EXCEPT !.disabled = @ \cup {k.user}]
<1>1. k.user # by.user /\ k.user \notin h.disabled /\ g = [h EXCEPT !.disabled = @ \cup {k.user}]
  BY DEF Outcome, DisableUser, Only
<1>2. d \in Outcome(f, k, by)
  BY <1>1 DEF Outcome, DisableUser, Only, Extends
<1>3. k.kind \notin Own /\ k.kind # "View"
  BY DEF Own
<1>4. FactsOK(d)
  BY <1>2, <1>3, OutcomeFollows DEF Follows
<1>5. Extends(d, g)
  BY <1>1 DEF Extends, FactsOK, Tables, IsOpen
<1>6. Managers(d) # {}
  BY <1>2
<1> HIDE DEF d
<1> QED  BY <1>4, <1>5, <1>6, ManagersGrow

(* While a request waits for its commit, nobody takes its locks, and what  *)
(* others write meanwhile only adds: the row is free for them only when a  *)
(* user is being disabled.                                                 *)
LEMMA WaitsUndisturbed ==
  ASSUME TypeIInv, ManagersIInv, [Next]_vars, NEW c \in Clients,
         Step(c) = "committing", request'[c].step = "committing"
  PROVE  /\ request'[c] = request[c] /\ guard' = c
         /\ request[c].command.kind # "DisableUser" => row' = c
         /\ facts' = facts \/ (request[c].command.kind = "DisableUser" /\ Extends(facts, facts'))
<1> DEFINE k == request[c].command
<1>1. /\ guard = c /\ (k.kind # "DisableUser" => row = c) /\ c # Free
      /\ request \in [Clients -> Requests]
  BY AccessAssumption DEF ManagersIInv, TypeIInv
<1>2. CASE UNCHANGED vars
  BY <1>1, <1>2 DEF vars
<1>3. ASSUME NEW u \in Users, BackchannelLogout(u)
      PROVE  request' = request /\ guard' = guard /\ row' = row /\ facts' = facts
  BY <1>3 DEF BackchannelLogout, Store
<1>4. ASSUME NEW p \in Processes, Listen(p) \/ ListenerStamps(p)
      PROVE  request' = request /\ guard' = guard /\ row' = row /\ facts' = facts
  BY <1>4 DEF Listen, ListenerStamps, Store
<1>5. ASSUME NEW x \in Clients, Acts(x)
      PROVE  /\ request'[c] = request[c] /\ guard' = guard /\ (k.kind # "DisableUser" => row' = row)
             /\ facts' = facts \/ (k.kind = "DisableUser" /\ Extends(facts, facts'))
  <2>1. ASSUME NEW u \in Users, Login(x, u) \/ CompleteCallback(x, u)
        PROVE  x # c /\ guard' = guard /\ row' = row /\ facts' = facts
    BY <2>1 DEF Login, CompleteCallback, Store
  <2>2. ASSUME NEW groups \in SUBSET Viewers, SyncGroups(x, groups)
        PROVE  /\ x # c /\ guard' = guard /\ row' = row
               /\ facts' = facts \/ (k.kind = "DisableUser" /\ Extends(facts, facts'))
    BY <1>1, <2>2, SyncChanges DEF SyncGroups, Step
  <2>3. ASSUME NEW j \in offered, Start(x, j)
        PROVE  x # c /\ guard' = guard /\ row' = row /\ facts' = facts
    BY <2>3 DEF Start
  <2>4. CASE Mutate(x)
    <3>1. x # c /\ row = Free /\ request[x].command.kind \notin Protected
      BY <2>4 DEF Mutate, Changes
    <3>2. Extends(facts, facts')
      BY <2>4, <3>1, CommandChanges DEF Follows
    <3>3. request'[c] = request[c]
      BY <1>5, <3>1, ActsOnItsOwn
    <3> QED  BY <1>1, <2>4, <3>1, <3>2, <3>3 DEF Mutate
  <2>5. ~MutateProtected(x)
    BY <1>1 DEF MutateProtected
  <2>6. ASSUME Commit(x) PROVE FALSE
    <3>1. x = c
      BY <1>1, <2>6 DEF Commit, ManagersIInv
    <3>2. request'[c] = Idle
      BY <1>1, <2>6, <3>1 DEF Commit, Finish
    <3> QED  BY <3>2 DEF Idle
  <2>7. ASSUME Fail(x) PROVE x # c /\ guard' = guard /\ (k.kind # "DisableUser" => row' = row) /\ facts' = facts
    <3>1. x = c => request'[c] = Idle
      BY <1>1, <2>7 DEF Fail, Finish
    <3>2. x # c
      BY <3>1 DEF Idle
    <3> QED  BY <1>1, <2>7, <3>2 DEF Fail, Released
  <2>8. CASE Expire(x)
    BY <2>8 DEF Expire, Store
  <2>9. CASE CreateSession(x) \/ Touch(x) \/ FindUser(x) \/ Refresh(x) \/ RefuseRefresh(x) \/ RotateCredential(x)
             \/ Logout(x) \/ UpdatePassword(x) \/ RevokeUserSessions(x)
    <3>1. Step(x) # "committing"
      BY <2>9 DEF CreateSession, Touch, FindUser, Refresh, RefuseRefresh, RotateCredential,
                  Logout, UpdatePassword, RevokeUserSessions, Step
    <3>2. UNCHANGED <<facts, guard, row>>
      BY <2>9 DEF CreateSession, Touch, FindUser, Refresh, RefuseRefresh, RotateCredential,
                  Logout, UpdatePassword, RevokeUserSessions, Store
    <3> QED  BY <1>5, <3>1, <3>2, ActsOnItsOwn
  <2>10. CASE ReadRevision(x) \/ Reload(x) \/ Stamp(x) \/ Decide(x) \/ View(x) \/ Refuse(x)
    <3>1. Step(x) # "committing"
      BY <2>10 DEF ReadRevision, Reload, Stamp, Decide, View, Refuse, Changes, Step
    <3>2. UNCHANGED <<facts, guard, row>>
      BY <2>10 DEF ReadRevision, Reload, Stamp, Decide, View, Refuse, Store
    <3> QED  BY <1>5, <3>1, <3>2, ActsOnItsOwn
  <2>11. \A y \in Clients \ {x} : request'[y] = request[y]
    BY <1>5, ActsOnItsOwn
  <2> QED  BY <1>5, <2>1, <2>2, <2>3, <2>4, <2>5, <2>6, <2>7, <2>8, <2>9, <2>10, <2>11 DEF Acts
<1> QED  BY <1>1, <1>2, <1>3, <1>4, <1>5, StepCases

(* A request comes to wait for its commit with the locks and with a path   *)
(* counted, which is a manager's.                                          *)
LEMMA WaitBegins ==
  ASSUME TypeIInv, ViewersDoNotManage, [Next]_vars, NEW c \in Clients,
         Step(c) # "committing", request'[c].step = "committing"
  PROVE  /\ guard' = c /\ (request[c].command.kind # "DisableUser" => row' = c) /\ facts' = facts
         /\ request'[c].user = request[c].user /\ request'[c].command = request[c].command
         /\ \A f \in Outcome(facts, request[c].command, By(c)) : Managers(f) # {}
<1> DEFINE k == request[c].command
<1>1. request'[c] # request[c] /\ request \in [Clients -> Requests] /\ FactsOK(facts)
  BY DEF Step, TypeIInv
<1>2. Acts(c)
  <2>1. ASSUME NEW x \in Clients, Acts(x) PROVE x = c
    BY <1>1, <2>1, ActsOnItsOwn
  <2> QED  BY <1>1, <2>1, StepCases DEF vars, BackchannelLogout, Listen, ListenerStamps
<1>3. MovesTo(c)
  <2>1. /\ SignsIn(c) => request'[c].step \in {"creating", "syncing"}
        /\ Begins(c) => request'[c].step = "proving"
    BY DEF SignsIn, Begins, Idle
  <2>2. (AsksAgain(c) => request'[c].step = "proved") /\ (IsGranted(c) => request'[c].step = "granted")
    BY <1>1 DEF AsksAgain, IsGranted, Requests
  <2>3. Idle.step = "none"
    BY DEF Idle
  <2> QED  BY <1>1, <2>1, <2>2, <2>3, RequestSteps DEF Becomes
<1>4. Step(c) = "granted" /\ k.kind \in Protected
      /\ request'[c].user = request[c].user /\ request'[c].command = k
  BY <1>1, <1>3 DEF MovesTo, GoesOn, Requests, Step
<1>5. MutateProtected(c)
  <2>1. ~View(c) /\ ~Refuse(c) /\ ~Fail(c) /\ ~Mutate(c) /\ ~Expire(c)
    BY <1>1 DEF View, Refuse, Fail, Mutate, Finish, Expire, Idle
  <2> QED  BY <1>2, <1>4, <2>1 DEF Acts, Login, CompleteCallback, SyncGroups, Start, CreateSession, Touch, FindUser,
               Refresh, RefuseRefresh, RotateCredential, RevokeUserSessions, Logout, UpdatePassword, ReadRevision,
               Reload, Stamp, Decide, Commit, Step
<1>6. PICK f \in Outcome(facts, k, By(c)) : Paths(f) # {}
  BY <1>5 DEF MutateProtected
<1>7. k \in Commands /\ k.kind \notin Own /\ k.kind # "View"
  BY <1>5, GrantedCommand DEF MutateProtected
<1>8. FactsOK(f) /\ f.bindings \subseteq facts.bindings
  <2>1. Follows(facts, k, f)
    BY <1>1, <1>6, <1>7, OutcomeFollows
  <2> QED  BY <1>4, <2>1 DEF Follows
<1>9. Managers(f) # {}
  <2>1. Paths(f) \subseteq Managers(f)
    BY <1>8, PathsAreManagers DEF ViewersDoNotManage
  <2> QED  BY <1>6, <2>1
<1>10. \A g \in Outcome(facts, k, By(c)) : g = f
  BY <1>4, <1>6, ProtectedOutcome
<1> QED  BY <1>4, <1>5, <1>9, <1>10 DEF MutateProtected, RowOf

(* Every step leaves someone who manages, and locks with whoever waits. *)
LEMMA ManagersStay == TypeIInv /\ ManagersIInv /\ ViewersDoNotManage /\ [Next]_vars => ManagersIInv'
<1> SUFFICES ASSUME TypeIInv, ManagersIInv, ViewersDoNotManage, [Next]_vars PROVE ManagersIInv'
  OBVIOUS
<1>1. FactsOK(facts) /\ Managers(facts) # {} /\ FactsOK(facts')
  BY WorldTypes DEF TypeIInv, ManagersIInv
<1>2. Managers(facts') # {}
  <2>1. ASSUME Extends(facts, facts') PROVE Managers(facts') # {}
    BY <1>1, <2>1, ManagersGrow
  <2>2. ASSUME NEW c \in Clients, Acts(c) PROVE Managers(facts') # {}
    <3>1. ASSUME NEW groups \in SUBSET Viewers, SyncGroups(c, groups) PROVE Managers(facts') # {}
      BY <1>1, <2>1, <3>1, SyncChanges
    <3>2. CASE Mutate(c)
      <4>1. Follows(facts, request[c].command, facts') /\ request[c].command.kind \notin Protected
        BY <3>2, CommandChanges DEF Mutate
      <4> QED  BY <2>1, <4>1 DEF Follows
    <3>3. CASE Commit(c)
      <4>1. facts' \in Outcome(facts, request[c].command, By(c)) /\ Step(c) = "committing"
        BY <3>3, CommandChanges DEF Commit
      <4> QED  BY <4>1 DEF ManagersIInv
    <3>4. ASSUME NEW u \in Users, Login(c, u) \/ CompleteCallback(c, u) PROVE facts' = facts
      BY <3>4 DEF Login, CompleteCallback, Store
    <3>5. ASSUME NEW k \in offered, Start(c, k) PROVE facts' = facts
      BY <3>5 DEF Start
    <3>6. CASE CreateSession(c) \/ Touch(c) \/ FindUser(c) \/ Refresh(c) \/ RefuseRefresh(c) \/ RotateCredential(c)
               \/ Expire(c) \/ Logout(c) \/ UpdatePassword(c) \/ RevokeUserSessions(c)
      BY <1>1, <3>6 DEF CreateSession, Touch, FindUser, Refresh, RefuseRefresh, RotateCredential,
                        Expire, Logout, UpdatePassword, RevokeUserSessions, Store
    <3>7. CASE ReadRevision(c) \/ Reload(c) \/ Stamp(c) \/ Decide(c) \/ View(c) \/ Refuse(c)
               \/ MutateProtected(c) \/ Fail(c)
      BY <1>1, <3>7 DEF ReadRevision, Reload, Stamp, Decide, View, Refuse, MutateProtected, Fail, Store
    <3> QED  BY <1>1, <2>2, <3>1, <3>2, <3>3, <3>4, <3>5, <3>6, <3>7 DEF Acts
  <2>3. ASSUME NEW u \in Users, BackchannelLogout(u) PROVE facts' = facts
    BY <2>3 DEF BackchannelLogout, Store
  <2>4. ASSUME NEW p \in Processes, Listen(p) \/ ListenerStamps(p) PROVE facts' = facts
    BY <2>4 DEF Listen, ListenerStamps, Store
  <2> QED  BY <1>1, <2>2, <2>3, <2>4, StepCases DEF vars
<1>3. ASSUME NEW c \in Clients, request'[c].step = "committing"
      PROVE  /\ guard' = c
             /\ request'[c].command.kind # "DisableUser" => row' = c
             /\ \A f \in Outcome(facts', request'[c].command, By(c)') : Managers(f) # {}
  <2> DEFINE k == request[c].command
  <2>1. /\ guard' = c /\ (k.kind # "DisableUser" => row' = c)
        /\ request'[c].user = request[c].user /\ request'[c].command = k
        /\ facts' = facts \/ (k.kind = "DisableUser" /\ Extends(facts, facts'))
        /\ \A f \in Outcome(facts, k, By(c)) : Managers(f) # {}
    <3>1. CASE Step(c) = "committing"
      BY <1>3, <3>1, WaitsUndisturbed DEF ManagersIInv
    <3>2. CASE Step(c) # "committing"
      BY <1>3, <3>2, WaitBegins
    <3> QED  BY <3>1, <3>2
  <2>2. k \in Commands /\ k.kind \in Protected
    <3>1. RequestOK(request'[c])
      BY TypeStays DEF TypeIInv
    <3> QED  BY <1>3, <2>1, <3>1 DEF RequestOK, Asking
  <2>3. By(c)'.user = By(c).user
    BY <2>1 DEF By
  <2>4. Outcome(facts', k, By(c)') = Outcome(facts', k, By(c))
    BY <2>2, <2>3, ProtectedOutcome
  <2>5. \A f \in Outcome(facts', k, By(c)) : Managers(f) # {}
    BY <1>1, <2>1, <2>2, DisablingStillLeaves
  <2> QED  BY <2>1, <2>4, <2>5
<1> QED  BY <1>2, <1>3 DEF ManagersIInv, Step

(* ManagerRemains: as long as no group that the provider fills is bound to *)
(* platform management, no interleaving of commands leaves the platform    *)
(* without someone who manages it (mutateWithGuard and the guard it calls: *)
(* MutateProtected, Commit).  The hypothesis is needed: the guard counts a *)
(* member the provider named as a manager, and the policy does not.        *)
THEOREM SomeoneManages == Spec /\ []ViewersDoNotManage => []ManagerRemains
<1>1. Init => ManagersIInv
  <2> SUFFICES ASSUME Init PROVE ManagersIInv
    OBVIOUS
  <2>1. \A c \in Clients : Step(c) = "none"
    BY DEF Init, Step, Idle
  <2>2. Managers(facts) # {}
    <3>1. PICK u \in Users : Manages(EffectiveRules(Seed), u)
      BY ManagedAssumption
    <3>2. FactsOK(Seed)
      BY AccessAssumption DEF FactsOK
    <3> QED  BY <3>1, <3>2, ManagersManage DEF Init
  <2> QED  BY <2>1, <2>2 DEF ManagersIInv
<1>2. TypeIInv /\ ManagersIInv => ManagerRemains
  <2> SUFFICES ASSUME TypeIInv, ManagersIInv PROVE ManagerRemains
    OBVIOUS
  <2>1. PICK u \in Users : u \in Managers(facts)
    BY DEF ManagersIInv, Managers
  <2> QED  BY <2>1, ManagersManage DEF TypeIInv, ManagerRemains
<1> QED  BY <1>1, <1>2, ManagersStay, TypeStarts, TypeStays, PTL DEF Spec

===============================================================================
