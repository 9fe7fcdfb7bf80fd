SPECIFICATION MCSpec
CONSTANTS
  Operations = {"op1", "op2"}
  Actors = {"button", "quit"}
  Refreshes = FALSE
  StopFails = FALSE
INVARIANTS
  IdleStopArmed
  UsesBalanced
  OneAtATime
  UnseenHonest
PROPERTIES
  UnusedIsStopped
CHECK_DEADLOCK FALSE
