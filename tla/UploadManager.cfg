SPECIFICATION FairSpec
CONSTANTS
  a = a
  b = b
  Keys <- MCKeys
  Sources <- MCSources
  Parts <- MCParts
  NWorkers = 2
  Concurrency = 1
  Buffers = 3
  RRModulus = 2
CHECK_DEADLOCK FALSE
INVARIANTS
  Accounting
  NoLostWakeup
  CompleteOnce
PROPERTY UploadSettles
