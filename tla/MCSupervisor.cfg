CONSTANTS
  N = 2
  MaxBackoff = 3
  MaxSignals = 2
SPECIFICATION FairSpec
INVARIANTS TypeOK NoOrphan
PROPERTIES NoSpawnPastTerminate ShutdownEnds CrashRestarts
CHECK_DEADLOCK FALSE
