CONSTANTS
  Contents = {"mapped", "moved"}
  Nowhere = "nowhere"
  AtFirst <- Labelled
  Clients = {"ann", "bob"}
  Keys = {"k1"}
  Worker = "worker"
  Budgets <- TheBudgets
SPECIFICATION LiveSpec
INVARIANTS AcceptedIsApplying
PROPERTIES ManagedWasProper DriftIsFound ConfirmationIsFinished
\* the bounds stop the model
CHECK_DEADLOCK FALSE
