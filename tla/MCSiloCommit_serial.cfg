SPECIFICATION Spec
CONSTANTS
  NTxns = 3
  Keys = {1, 2}
  Programs <- ConflictPrograms
  InitKeys = {1}
  MaxTuples = 7
  MaxTick = 2
  NumIds = 8

  
  
PROPERTIES
  VersionsGrow
  EveryTransactionEnds
CHECK_DEADLOCK FALSE
