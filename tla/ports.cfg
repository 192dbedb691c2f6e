SPECIFICATION PortsSpec
CONSTANTS
  Archs <- AllArchs
  N = 2
  MaxKills = 2
  X86N = 3
  Before <- Dirty
  UdnN = 5
  Cap = 2
  MaxRounds = 2
  None = None
INVARIANTS TypesOK Delivered X86Delivered UDNDelivered
PROPERTIES ChunksStay X86ImplementsStartup TMCImplementsBarrier
CHECK_DEADLOCK FALSE
