SPECIFICATION FairSpec
CONSTANTS
  N = 2
  Words <- TwoWords
  None = None
  Calls <- AnyCall
  Colors <- AllColors
  Platform = "plain"
  Node <- OneSocket
  FlagLast = TRUE
  MaxSends = 4
INVARIANTS TypeOK OwnerExclusion KnownFree Intact
PROPERTIES ImplementsChannel Rendezvous
CHECK_DEADLOCK FALSE
