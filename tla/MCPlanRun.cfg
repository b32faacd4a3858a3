CONSTANTS
  Nodes = {1, 2, 3}
  Plans <- AllPlans
  Limit = 2
  MaxBreaks = 2
  MaxAttempts = 3
SPECIFICATION FairSpec
INVARIANTS DependenciesFirst OutcomeTellsWhatIsDeployed
PROPERTIES EndsOrDeadEnd
\* an execution with an outcome and no attempt left stops
CHECK_DEADLOCK FALSE
