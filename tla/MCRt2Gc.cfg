SPECIFICATION FairSpec
CONSTANTS
  ChunkWords = 7
  FirstGc = 32
  MaxChunks = 2
  ChunkAt <- MCChunkAt
  Locals = {1}
  Leftover = {1}
  Shapes <- MCShapes
  Numbers <- MCNumbers
INVARIANTS ReachableIntact BlocksTile
PROPERTIES CollectsGarbage RequestsEnd
CHECK_DEADLOCK FALSE
