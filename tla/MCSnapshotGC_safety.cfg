SPECIFICATION Spec
CONSTANTS
  NCores = 2
  MaxTick = 5
  ReadOnlyEpochMultiplier = 2
  MaxTuples = 3
  MaxWrites = 3
INVARIANTS
  NoUseAfterFree
  SnapshotConsistent
  
CHECK_DEADLOCK FALSE
