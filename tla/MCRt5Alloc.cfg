SPECIFICATION Spec
CONSTANTS
  SmallMax = 2
  SubBits = 1
  BigScan = 1
  ChunkWords = 6
  MemWords = 13
  Requests <- MCRequests
INVARIANTS Accounted
PROPERTIES GrowsOnlyWhenNeeded Implements
