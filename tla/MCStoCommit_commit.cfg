CONSTANTS
    Workers = {1, 2}
    Worker <- Worker4
    Programs <- Workload
    Keys = {1, 2, 3}
    InitKeys = {1, 2}
    BatchSize = 1
    MaxRecs = 6
SPECIFICATION Spec
INVARIANTS Serializable StampsFollowConflicts 
PROPERTIES EveryTransactionEnds
CHECK_DEADLOCK FALSE
