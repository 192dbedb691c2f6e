SPECIFICATION FairPortsSpec
CONSTANTS
  Archs <- AllArchs
  N = 3
  MaxKills = 0
  X86N = 3
  Before <- Clean
  UdnN = 4
  Cap = 1
  MaxRounds = 2
  None = None
PROPERTIES ImplementsStartup AllGetOn
CHECK_DEADLOCK FALSE
