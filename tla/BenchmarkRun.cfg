SPECIFICATION Spec
CONSTANTS
  a = a
  b = b
  NGroups = 2
  Iterations = 2
  Parts <- MCParts
  Drivers <- MCDrivers
CHECK_DEADLOCK FALSE
INVARIANTS
  CounterIsOfIteration
  SourcesAreBack
  MeasuredAlone
