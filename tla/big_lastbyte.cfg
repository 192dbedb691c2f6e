SPECIFICATION Spec
CONSTANTS
  N = 2
  Body <- TwoCells
  None = None
  Bytes <- Zeros
  Pairs <- OneWay
  Lengths <- AllShapes
  MaxChunks = 3
INVARIANT LastByteArrives
CHECK_DEADLOCK FALSE
