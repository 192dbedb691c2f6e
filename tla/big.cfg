SPECIFICATION FairSpec
CONSTANTS
  N = 2
  Body <- TwoCells
  None = None
  Bytes <- Zeros
  Pairs <- BothWays
  Lengths <- AllShapes
  MaxChunks = 3
INVARIANTS TypeOK ChunkExclusion ChunkIntact Agreement
PROPERTIES ImplementsChannel ReceiveReturns
CHECK_DEADLOCK FALSE
