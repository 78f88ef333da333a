CONSTANTS
  Half = 4
  MaxBuffer = 2
  MaxDelay = 2
  StartIndexes <- MCStartIndexes
  MaxPackets = 18
  MaxSession = 0
  MaxDelivered = 5
  StarveBound = 9
SPECIFICATION Spec
INVARIANT NoEndlessStall
