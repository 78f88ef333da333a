CONSTANTS
  Half = 5
  MaxBuffer = 3
  MaxDelay = 3
  StartIndexes <- MCStartIndexes
  MaxPackets = 14
  MaxSession = 1
  MaxDelivered = 5
  StarveBound = 4
SPECIFICATION Spec
INVARIANTS TypeOK InOrder NoHole LeakNeedsGiveUp  StallNeedsCause
