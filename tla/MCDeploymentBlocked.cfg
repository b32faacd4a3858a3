CONSTANTS
  Nodes = {1}
  Executions <- AttemptsOfSimple
  VersionOf <- VersionOfSimple
  Following <- RetryOfSimple
  Targets <- TargetsOfSimple
  Plans <- OnlyFlat
  Limit = 2
  Runners = {"w1"}
  MaxDeliveries = 2
  Driftable = {1}
  Breaks = TRUE
  Lapses = FALSE
SPECIFICATION Spec
PROPERTIES BlockedSendsNothing
\* a system whose jobs are resolved stops
CHECK_DEADLOCK FALSE
