CONSTANTS
    Machines <- ThreeMachines
    Electors = {1}
    OldEntries = 2
    NewEntries = 0
    MaxCrashes = 1
    FalseSuspicion = FALSE
SPECIFICATION FairSpec
INVARIANTS TypeOK SurvivorsAgree 
PROPERTY RecoveryCompletes
CHECK_DEADLOCK FALSE
