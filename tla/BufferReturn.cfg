SPECIFICATION ReturnSpec
CONSTANTS
  v = v
  w = w
  Parts <- MCParts
  BytesOf <- MCSize
  Workers <- MCWorkers
  LanesPerWorker = 2
CHECK_DEADLOCK FALSE
INVARIANTS
  ChunkIsIntact
  OneOwner
  AllocationBounded
