SPECIFICATION MCSpec
CONSTANTS
  NumStages = 3
  MaxCalls = 1
  Authorized = TRUE
  Cancelers = {"main"}
  LateCancel = TRUE
  CleanupRaises = FALSE
INVARIANTS
  Inv
  NothingLeftBehind
PROPERTIES
  LifecycleOfMain
  CancelReturns
CHECK_DEADLOCK FALSE
