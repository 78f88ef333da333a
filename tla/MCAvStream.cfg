SPECIFICATION Spec
CONSTANTS
  Script <- MCScript
  HeaderSize = 2
  Unit = 2
  StuckAfter = 2
  StuckSessions = {1}
  MaxKept = 1
  OldSizes = {2}
  MaxSession = 2
  MaxStarts = 1
  MaxLosses = 1
INVARIANTS
  TypeOK
  FramesInOrder
  LossIsLocal
  LittleIsPending
  DecoderInStepUnlessCrossed
