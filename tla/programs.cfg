SPECIFICATION ProgramsSpec
CONSTANTS
  N = 4
  Me = 1
  Buffers <- One
  Color <- OneColor
  CallSets <- StartOrFirst
  NumOps = 3
  NumMsgs = 3
  Reps = 3
  Drawn = {0, 1, 10}
  BankN = 3
  BankDsl = 2
  BankAccounts = 2
  RTDsl = 2
  OneWayDsl = 3
  W = 8
  Shifts <- EightBits
  MaxNow = 7
  None = None
INVARIANTS TypesOK InTurn NothingUnserved BarriersInStep LocalResults BankKeepsMoney RoundTrip
PROPERTIES ServerReceives BenchmarksEnd
CHECK_DEADLOCK FALSE
