CONSTANTS
    Machines <- ThreeMachines
    Electors = {1}
    OldEntries = 1
    NewEntries = 0
    MaxCrashes = 1
    FalseSuspicion = FALSE
SPECIFICATION Spec
INVARIANT ExecutedSurvives
CHECK_DEADLOCK FALSE
