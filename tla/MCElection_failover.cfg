SPECIFICATION FairSpec
CONSTANTS
    Machines <- M3
    Electors = {1, 2}
    Faulty = {0}
    MaxEpoch = 4
    FalseSuspicion = FALSE
    WaitFirst = TRUE
    MaxStream = 1
PROPERTIES  DisputesEnd
CHECK_DEADLOCK FALSE
