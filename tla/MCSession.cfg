SPECIFICATION FairSpec
CONSTANTS
  MaxSession = 1
  Servers = 2
  Preflight = 1
  MaxPending = 1
  MaxSeq = 2
  MaxFaults = 1
INVARIANTS
  TypeOK
  CommandsIntact
  ServingIsServing
PROPERTIES
  ImplementsConnection
  Reconnects
