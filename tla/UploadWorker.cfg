SPECIFICATION Spec
CONSTANTS
  Total = 5
  PartBytes = 2
  Kinds <- MCKinds
CHECK_DEADLOCK FALSE
INVARIANTS
  SentIsSource
