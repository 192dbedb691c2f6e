SPECIFICATION FairSpec
CONSTANTS
  N = 3
  Barriers <- TwoBarriers
  Bits <- SixtyFour
  NULL = NULL
  Bitmaps <- Everybody
  Colors <- ColorPair
  MaxRounds = 2
INVARIANTS TypeOK NoneLeavesEarly NoOverlap Reusable
PROPERTIES ImplementsBarrier RoundCompletes
CHECK_DEADLOCK FALSE
