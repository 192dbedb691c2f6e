SPECIFICATION Spec
CONSTANTS
  N = 3
  Body <- TwoCells
  None = None
  Bytes <- Zeros
  Pairs <- TwoReceivers
  Lengths <- Short
  MaxChunks = 2
INVARIANT Addressed
CHECK_DEADLOCK FALSE
