CONSTANTS
  LastApplication = 2
  Contents = {"c0", "c1"}
  Initial = "c0"
  Bindings = {"standard", "other"}
  Planned <- ThePlanned
  Editors = {"e1"}
  LastVersion = 3
  MaxChanges = 3
SPECIFICATION FairSpec
INVARIANTS AccumulationIsMonotone OnlyNewestIsAlive
PROPERTIES FreshIsObserved
\* the bounds on versions and changes stop the model
CHECK_DEADLOCK FALSE
