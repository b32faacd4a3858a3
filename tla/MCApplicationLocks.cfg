SPECIFICATION Spec
CONSTANTS
  a1 = a1
  a2 = a2
  e1 = e1
  e2 = e2
  e3 = e3
  Apps = {a1, a2}
  Executions = {e1, e2, e3}
  Runners = {r1, r2}
  Targets <- Overlapping
  LockTTL = 2
  MaxOwners = 3
  MaxTime = 5
SYMMETRY RunnerSymmetry
INVARIANTS
  OneOperatorPerApplication
PROPERTIES
  ImplementsTable
CHECK_DEADLOCK FALSE
