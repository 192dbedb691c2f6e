SPECIFICATION Spec
CONSTANTS
  N = 2
  Body <- TwoCells
  None = None
  Bytes <- Ones
  Pairs <- OneWay
  Lengths <- AllShapes
  MaxChunks = 3
INVARIANT ChunkIntact
CHECK_DEADLOCK FALSE
