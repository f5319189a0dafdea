SPECIFICATION Spec
CONSTANTS
  a = a
  b = b
  Dests <- MCDests
  Configs <- MCConfigs
  Align = 2
  Concurrency = 2
  MaxPartRetries = 1
CHECK_DEADLOCK FALSE
INVARIANTS
  TypeOK
  AnsweredIsOnDisk
  DescriptorsOpen
  DirectIsAligned
