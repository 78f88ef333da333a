SPECIFICATION FairSpec
CONSTANTS
  Batch = 2
  MaxPackets = 6
  MaxSession = 3
  MaxStarts = 1
INVARIANTS
  TypeOK
  Accounted
  ListIsCurrent
PROPERTIES
  EachAnswered
