------------------------------- MODULE Console -------------------------------
(***************************************************************************)
(* What users do in the console beside approving releases: they configure  *)
(* plans and the check of their graphs, versions and bindings, the catalog *)
(* and deployment schedules; they command deployments that went wrong, are *)
(* notified, page through lists, look into the audit trail and at what     *)
(* runs.  The parts share no state here, so a behaviour of this module is  *)
(* one of a part, the others being left as they were.                      *)
(***************************************************************************)
EXTENDS PlanCycle, Definitions, Catalog, Schedules, ExecutionCommands,
        Notifications, Listings, AuditTrail, Diagnostics

VARIABLE part

configuring == <<vars, definitionVars, catalogVars, scheduleVars, commandVars>>
informing == <<notificationVars, listingVars, auditVars, diagnosticVars>>
consoleVars == <<part, configuring, informing>>

(* A part that is left as it was starts in one way. *)
Only(name, alone) == part = name \/ alone

ConsoleInit ==
  /\ part \in {"check", "definitions", "catalog", "policies", "search", "commands", "inbox", "lists", "audit", "runtime"}
  /\ Only("check", edges = {}) /\ Init
  /\ Only("definitions", subject = "plan") /\ DefinitionsInit
  /\ CatalogInit
  /\ Only("search", question = CHOOSE q \in Questions : TRUE) /\ SchedulesInit
  /\ ExecutionCommandsInit
  /\ Only("inbox", /\ kind = CHOOSE k \in Kinds : TRUE
                   /\ rights = [u \in Users |-> {}]
                   /\ workload = CHOOSE w \in Workloads : TRUE) /\ NotificationsInit
  /\ Only("lists", list = "requests" /\ group = [r \in Rows |-> CHOOSE g \in Groups : TRUE]) /\ ListingsInit
  /\ Only("audit", granted = CHOOSE g \in GrantSets : TRUE) /\ AuditTrailInit
  /\ Only("runtime", belonging = {} /\ may = FALSE /\ loaded = FALSE) /\ DiagnosticsInit

CheckPlan == part = "check" /\ Next /\ UNCHANGED <<part, definitionVars, catalogVars, scheduleVars, commandVars, informing>>

EditDefinitions ==
  part = "definitions" /\ DefinitionsNext /\ UNCHANGED <<part, vars, catalogVars, scheduleVars, commandVars, informing>>

EditCatalog ==
  part = "catalog" /\ CatalogNext /\ UNCHANGED <<part, vars, definitionVars, scheduleVars, commandVars, informing>>

EditPolicies ==
  /\ part = "policies"
  /\ \E p \in Planners : Ask(p) \/ Put(p) \/ Replay(p) \/ GiveUp(p)
  /\ UNCHANGED <<part, vars, definitionVars, catalogVars, commandVars, informing>>

SearchStart ==
  /\ part = "search"
  /\ LeaveBlackout \/ LookAtMinute \/ ReachLimit
  /\ UNCHANGED <<part, vars, definitionVars, catalogVars, commandVars, informing>>

CommandDeployment ==
  /\ part = "commands" /\ ExecutionCommandsNext
  /\ UNCHANGED <<part, vars, definitionVars, catalogVars, scheduleVars, informing>>

Notify ==
  part = "inbox" /\ NotificationsNext /\ UNCHANGED <<part, configuring, listingVars, auditVars, diagnosticVars>>

PageThroughLists ==
  part = "lists" /\ ListingsNext /\ UNCHANGED <<part, configuring, notificationVars, auditVars, diagnosticVars>>

ReadAuditTrail ==
  part = "audit" /\ AuditTrailNext /\ UNCHANGED <<part, configuring, notificationVars, listingVars, diagnosticVars>>

Diagnose ==
  part = "runtime" /\ DiagnosticsNext /\ UNCHANGED <<part, configuring, notificationVars, listingVars, auditVars>>

ConsoleNext ==
  \/ CheckPlan \/ EditDefinitions \/ EditCatalog \/ EditPolicies \/ SearchStart
  \/ CommandDeployment \/ Notify \/ PageThroughLists \/ ReadAuditTrail \/ Diagnose

ConsoleSpec == ConsoleInit /\ [][ConsoleNext]_consoleVars /\ ProjectionIsFair

=============================================================================
