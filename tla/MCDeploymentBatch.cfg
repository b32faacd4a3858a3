CONSTANTS
  Nodes = {1, 2}
  Executions <- AttemptsOfBatch
  VersionOf <- VersionOfBatch
  Following <- RetryOfBatch
  Targets <- TargetsOfBatch
  Plans <- EitherPlan
  Limit = 2
  Runners = {"w1"}
  MaxDeliveries = 2
  Driftable = {}
  Breaks = TRUE
  Lapses = TRUE
SPECIFICATION FairSpec
INVARIANTS NothingSentTwice
PROPERTIES JobsEnd
\* a system whose jobs are resolved stops
CHECK_DEADLOCK FALSE
