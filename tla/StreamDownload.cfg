SPECIFICATION FairSpec
CONSTANTS
  a = a
  b = b
  Keys <- MCKeys
  Parts <- MCParts
  NWorkers = 2
  Concurrency = 1
  Cap = 1
  Hwm = 1
  RRModulus = 2
CHECK_DEADLOCK FALSE
INVARIANTS
  Accounting
  NoStall
  PausedWillRead
  OverrunIsPaused
  ResetIsSafe
PROPERTIES
  PromiseSpec
  BodyCompletes
