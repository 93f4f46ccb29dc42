CONSTANTS
  v1 = v1
  v2 = v2
  c1 = c1
  c2 = c2
  Versions <- MCVersions
  Configs <- MCConfigs
SYMMETRY Symmetry
SPECIFICATION MCSpec
INVARIANTS
  ServiceIsWhole
  InstallIsComplete
  UninstallLeavesNothing
  DaemonEndsFirst
  SuccessMeansDone
