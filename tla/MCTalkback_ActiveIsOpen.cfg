CONSTANTS
  Files = {1}
  TalkChunks = {3}
  MaxEpoch = 2
SPECIFICATION Spec
INVARIANT ActiveIsOpen
