SPECIFICATION Spec
CONSTANTS
    Machines <- M3
    Electors = {1}
    Faulty = {0}
    MaxEpoch = 3
    FalseSuspicion = TRUE
    WaitFirst = FALSE
    MaxStream = 2
INVARIANTS TypeOK 
CHECK_DEADLOCK FALSE
