CONSTANTS
  Files = {11}
  TalkChunks = {12}
  MaxEpoch = 2
SPECIFICATION FairSpec
INVARIANTS TypeOK OpenIsKnown FileSent
PROPERTIES IdleCloses BusyReleased
