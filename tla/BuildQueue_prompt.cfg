SPECIFICATION Spec
CONSTANTS
  Projects = {p1, p2, p3}
  MaxRequests = 3
  Prompt = TRUE
  Authorizes = FALSE
  PauseOnFailure = TRUE
PROPERTIES
  EntryIsHandled
CHECK_DEADLOCK FALSE
