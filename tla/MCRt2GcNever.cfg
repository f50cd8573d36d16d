SPECIFICATION Spec
CONSTANTS
  ChunkWords = 7
  FirstGc = 56
  MaxChunks = 2
  ChunkAt <- MCChunkAt
  Locals = {1}
  Leftover = {1}
  Shapes <- MCShapes
  Numbers <- MCNumbers
PROPERTY CollectsInTime
CHECK_DEADLOCK FALSE
