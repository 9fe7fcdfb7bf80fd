SPECIFICATION MCSpec
CONSTANTS
  Hosts = {"a", "b"}
  Configs <- MCConfigs
  Machines <- MCMachines
  Scans <- MCScans
  Mounts <- MCMounts
  Sizes = {102, 30720}
  MaxEdits = 0
  MaxOpen = 4
  MayCancel = FALSE
  MayFail = FALSE
INVARIANTS
  DiskIsWritten
