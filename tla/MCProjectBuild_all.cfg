SPECIFICATION MCSpec
CONSTANTS
  PlanStages = 3
  NumStages = 4
  Parent <- MCParent
  Reused = {3}
  HasPrevious = {2, 4}
  FetchSnapshot = TRUE
  CleanupPrevious = TRUE
  CommandRaises = FALSE
INVARIANTS
  PlanIsRight
  ParentsFirst
  UsableBuildKept
  FailureContained
  RunIsOrderly
PROPERTIES
  BuildReports
CHECK_DEADLOCK FALSE
