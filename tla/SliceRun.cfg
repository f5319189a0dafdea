SPECIFICATION FairSpec
CONSTANTS
  NParts = 4
  Pools <- MCPools
  MaxPartRetries = 1
  Chunks = 2
  Modes <- MCModes
CHECK_DEADLOCK FALSE
INVARIANTS
  ResultIsExact
PROPERTY RunSettles
