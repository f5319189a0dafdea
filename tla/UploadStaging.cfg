SPECIFICATION StagingSpec
CONSTANTS
  k1 = k1
  k2 = k2
  k3 = k3
  NGroups = 2
  Keys <- MCKeys
  Bytes <- MCBytes
  Configs <- MCConfigs
  Iterations = 2
  Capacity = 4
  Older <- MCOlder
  MaxRuns = 2
CHECK_DEADLOCK FALSE
INVARIANTS
  RunIsDone
  SourceIsWhole
