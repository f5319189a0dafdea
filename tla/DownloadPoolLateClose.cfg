SPECIFICATION FairSpec
CONSTANTS
  a = a
  b = b
  Keys <- MCKeys
  Parts <- MCParts
  NWorkers = 1
  Concurrency = 1
  Chunks = 1
  RRModulus = 2
  Modes <- MCStream
CHECK_DEADLOCK FALSE
PROPERTY LateCloseSettles
