SPECIFICATION ProjectsSpec
CONSTANTS
  Ids = {1, 2, 3}
  Own = 3
  FromTemplate = 2
  OwnValues = {0, 2}
  NewValues = {2, 3}
  MaxEdits = 2
  MaxNews = 2
  MaxUpdates = 1
  Cases = {}
  MaxPending = 1
  Templates <- MCTemplates
  MaxApplied <- MCApplied
  Edited = {1, 2}
  Pushed = {11}
  Clashes <- MCClashes
  GitFaults = {"cancel", "clean"}
  MaxThreads = 2
  Names = {"a", "b"}
  LibraryFaults = {"cancel", "crash while renaming", "late answer"}
  MaxInstalls = 2
  MaxCrashes = 1
  MaxOps = 2
  Objects = {"project", "seed", "build", "packages", "snapshot", "kernel"}
  Kinds = {"build", "preparation", "git", "other"}
  MaxAnswers = 1
  SameDevice = {TRUE, FALSE}
  StorageFaults = {}
INVARIANTS
  UpdateMerges
  SelectionSettles
  ContentKept
  LibraryKept
PROPERTIES
  IdentityKept
CHECK_DEADLOCK FALSE
