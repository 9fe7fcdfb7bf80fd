SPECIFICATION MCSpec
CONSTANTS
  Order <- MCOrder
  Chain <- MCChain
  Projects <- MCProjects
  Contents <- MCContents
  Parts = {"values", "editing", "rows", "kernels", "checks", "files"}
  Ids <- MCIds
  Names <- MCNames
  Dates = {"none", "base", "edit"}
  Origin <- Origins
  Committed <- Directories
  Made = {}
  Overlap = FALSE
  MaxEdits = 4
  Hasty = FALSE
  Taken = FALSE
  MaxActions = 4
  Toolsets = {1, 2}
  WizardStages = {1}
  MaxChecks = 3
  MaxPreviews = 2
  MaxStarts = 2
INVARIANTS
  ValuesFit
  SavedAsChosen
  ViewTells
PROPERTIES
  OverlaysKept
  KernelEdits
CHECK_DEADLOCK FALSE
