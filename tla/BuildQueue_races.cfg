SPECIFICATION Spec
CONSTANTS
  Projects = {p1, p2}
  MaxRequests = 3
  Prompt = FALSE
  Authorizes = TRUE
  PauseOnFailure = TRUE
SYMMETRY Symmetry
INVARIANTS
  NeverStuck
  PreviewsOwned
PROPERTIES
  FailureHoldsQueue
CHECK_DEADLOCK FALSE
