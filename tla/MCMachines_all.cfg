SPECIFICATION AllSpec
CONSTANTS
  Hosts = {"a", "b"}
  Configs <- MCConfigs
  Machines <- MCMachines
  Scans <- MCScans
  Mounts <- MCMounts
  Sizes = {102, 30720}
  MaxEdits = 2
  MaxOpen = 4
  MayCancel = TRUE
  MayFail = TRUE
  Operations = {o1, o2}
  Kinds = {"mount", "unmount", "build", "snapshot", "kernel", "update"}
  Cancels = TRUE
  Commits = {1, 2}
  Imports = {5}
  MaxOps = 2
  MaxRestarts = 1
  MaxChoices = 1
INVARIANTS
  PlansInstall
  ConnectionsOwned
  EndsWell
  EnvironmentWhole
  NothingHeld
CHECK_DEADLOCK FALSE
