SPECIFICATION Spec
CONSTANTS
  Operations = {o1, o2}
  Manual = {o2}
  MaxServers = 1
  Disables = TRUE
  Crashes = TRUE
INVARIANTS
  EndedIsGone
PROPERTIES
  CallReturns
  RootDropped
CHECK_DEADLOCK FALSE
