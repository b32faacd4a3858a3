-------------------------------- MODULE MCAccess --------------------------------
EXTENDS Access, TLC

CONSTANTS c1, c2

(* What the roles grant. *)
TheGrants == [administrator |-> {"platform.manage"}, project_manager |-> {"group.manage", "role.manage"},
              viewer |-> {"resource.view"}, auditor |-> {"role.manage"}]

PlatformScope == {"platform"}
ProjectScope == {"project"}
EnvironmentScope == {"project", "environment"}
AllScopes == {PlatformScope, ProjectScope, EnvironmentScope}

(* Two administrators, and one who manages the project through the team;   *)
(* the viewers' group sees the project.                                    *)
Installed ==
  [group |-> [g \in Groups |-> IF g = "guests" THEN "absent" ELSE "open"],
   role |-> [r \in Roles |-> IF r \in System THEN "active" ELSE "absent"],
   members |-> {[group |-> "admins", user |-> u, source |-> "manual"] : u \in {"ann", "bob"}}
               \cup {[group |-> "team", user |-> "eve", source |-> "manual"]},
   bindings |-> {[group |-> "admins", role |-> "administrator", scope |-> PlatformScope, copy |-> 1],
                 [group |-> "team", role |-> "project_manager", scope |-> ProjectScope, copy |-> 1],
                 [group |-> "viewers", role |-> "viewer", scope |-> ProjectScope, copy |-> 1]},
   bound |-> {<<"admins", "administrator">>},
   denials |-> {}, disabled |-> {}]

OneProcess == [c \in Clients |-> "api"]

OnMember(kind, g, u) == [kind |-> kind, group |-> g, user |-> u]
OnBinding(kind, g, r, s, n) == [kind |-> kind, group |-> g, role |-> r, scope |-> s, copy |-> n]
OnDenial(kind) == [kind |-> kind, group |-> "viewers", permission |-> "resource.view",
                   scope |-> ProjectScope, copy |-> 1]
OnView == [kind |-> "View", scope |-> EnvironmentScope]

(* Who manages the platform; who sees the project; what the project's      *)
(* manager does; and what users do with their own sessions.                *)
TheWorkloads ==
  {{[kind |-> "DisableUser", user |-> "bob"],
    OnMember("RevokeMembership", "admins", "ann"), OnMember("AddMembership", "admins", "eve"),
    OnBinding("RevokeBinding", "admins", "administrator", PlatformScope, 1)},
   {OnDenial("CreateDeny"), OnDenial("RevokeDeny"), OnView, [kind |-> "DisableGroup", group |-> "viewers"]},
   {[kind |-> "CreateGroup", group |-> "guests"], [kind |-> "CreateRole", role |-> "auditor"],
    [kind |-> "DisableRole", role |-> "auditor"],
    [kind |-> "CreateBindings", group |-> "team", roles |-> {"viewer", "auditor"}, scope |-> EnvironmentScope, copy |-> 2],
    OnBinding("CreateBinding", "team", "viewer", EnvironmentScope, 1)},
   {[kind |-> "ChangePassword"], [kind |-> "Logout"], [kind |-> "DisableUser", user |-> "bob"]}}

ClientSymmetry == Permutations(Clients)

=============================================================================
