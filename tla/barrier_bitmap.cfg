SPECIFICATION Spec
CONSTANTS
  N = 3
  Barriers <- TwoBarriers
  Bits <- SixtyFour
  NULL = NULL
  Bitmaps <- SomeBits
  Colors <- NoColor
  MaxRounds = 1
INVARIANT OnlyAskedWait
CHECK_DEADLOCK FALSE
