SPECIFICATION ConnectionsSpec
CONSTANTS
  v = v
  w = w
  Threads <- MCThreads
  NIps = 3
  Answers <- MCAnswers
  Configs <- MCConfigs
CHECK_DEADLOCK FALSE
INVARIANTS
  SpreadBounded
  CountsAreSockets
  ThroughputIsWhole
