SPECIFICATION FairSpec
CONSTANTS
  Jobs = {j1}
  Workers = {w1, w2}
  MaxAttempts = 2
  LeaseTTL = 1
  RetryDelay = 1
  MaxWait = 1
  MaxTime = 24
  MaxBeats = 1
  MaxDefers = 1
  MaxCrashes = 1
INVARIANTS
  FailedAfterAllAttempts
  LeaseExclusion
PROPERTIES
  ImplementsLedger
  ResolvedOrStranded
\* a queue whose job is resolved stops with its clock
CHECK_DEADLOCK FALSE
