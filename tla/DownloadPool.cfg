SPECIFICATION FairSpec
CONSTANTS
  a = a
  b = b
  Keys <- MCKeys
  Parts <- MCParts
  NWorkers = 2
  Concurrency = 1
  Chunks = 2
  RRModulus = 2
  Modes <- MCModes
CHECK_DEADLOCK FALSE
INVARIANTS
  Accounting
  ResolvedIsWritten
  ReportsComplete
PROPERTIES
  TimelyCloseSettles
  DownloadSettles
