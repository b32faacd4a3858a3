CONSTANTS
  Users = {"ann", "bob", "eve"}
  Local = {"ann", "bob"}
  Groups = {"admins", "viewers", "team", "guests"}
  Roles = {"administrator", "project_manager", "viewer", "auditor"}
  System = {"admins", "administrator", "project_manager", "viewer"}
  Managing = "project_manager"
  Viewers = {"viewers"}
  Delegated = {"team", "guests", "auditor"}
  Grants <- TheGrants
  Permissions = {"platform.manage", "group.manage", "role.manage", "resource.view"}
  PlatformOnly = {"platform.manage"}
  PlatformWide = {}
  Delegable = {"role.manage"}
  Scopes <- AllScopes
  Platform <- PlatformScope
  Project <- ProjectScope
  Seed <- Installed
  Workloads <- TheWorkloads
  c1 = c1
  c2 = c2
  Clients = {c1, c2}
  ProcessOf <- OneProcess
  Free = "free"
  MaxRequests = 3
SPECIFICATION Spec
SYMMETRY ClientSymmetry
INVARIANTS ManagerRemains DisabledIsOut
PROPERTIES RevokedStaysOut
\* the bound on requests stops the model
CHECK_DEADLOCK FALSE
