SPECIFICATION FairSpec
CONSTANTS
  N = 3
  Words <- TwoWords
  None = None
  Calls <- Roles
  Colors <- Nested
  Platform = "xeon"
  Node <- TwoSockets
  FlagLast = TRUE
  MaxSends = 2
INVARIANTS OwnerExclusion Intact
PROPERTIES ImplementsChannel ScanServed
CHECK_DEADLOCK FALSE
