CONSTANTS
  Nodes = {1, 2}
  Executions <- AttemptsOfTwo
  VersionOf <- VersionOfTwo
  Following <- RetryOfTwo
  Targets <- TargetsOfTwo
  Plans <- OnlyChain
  Limit = 2
  Runners = {"w1", "w2"}
  MaxDeliveries = 1
  Driftable = {1}
  Breaks = FALSE
  Lapses = FALSE
SPECIFICATION Spec
INVARIANTS SuccessWasOurs
PROPERTIES SyncUnderLock OthersKeepOut TerminatedIsFrozen
\* a system whose jobs are resolved stops
CHECK_DEADLOCK FALSE
