SPECIFICATION FairSpec
CONSTANTS
  NWorkers = 2
  NKeys = 2
  Parts <- MCParts
  Concurrency = 1
  Cap = 1
  Hwm = 1
  Sinks <- MCSinks
CHECK_DEADLOCK FALSE
INVARIANTS
  Accounting
  BacklogBounded
  MemoryFollowsDelivery
  ResolvedIsComplete
PROPERTY RunSettles
