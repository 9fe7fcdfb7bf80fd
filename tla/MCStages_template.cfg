SPECIFICATION MCSpec
CONSTANTS
  Order <- MCOrder
  Chain <- MCChain
  Projects <- MCProjects
  Contents <- MCContents
  Parts = {"editing"}
  Ids <- MCIds
  Names <- MCNames
  Dates = {"none", "base", "edit"}
  Origin <- Origins
  Committed <- Directories
  Made = {"r"}
  Overlap = FALSE
  MaxEdits = 3
  Hasty = FALSE
  Taken = FALSE
  MaxActions = 4
  Toolsets = {1, 2}
  WizardStages = {1}
  MaxChecks = 3
  MaxPreviews = 2
  MaxStarts = 2
INVARIANTS TemplateValuesStay
CHECK_DEADLOCK FALSE
