SPECIFICATION Spec
CONSTANTS
  N = 2
  Words <- TwoWords
  None = None
  Calls <- AnyCall
  Colors <- AllColors
  Platform = "plain"
  Node <- OneSocket
  FlagLast = FALSE
  MaxSends = 3
INVARIANT Intact
CHECK_DEADLOCK FALSE
