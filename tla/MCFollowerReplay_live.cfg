CONSTANTS
    N = 2
    UMax = 9
    MaxTs = 1
    MaxNoops = 2
    FailWhileEnding = FALSE
SPECIFICATION FairSpec
PROPERTIES  NoopFinishes
CHECK_DEADLOCK FALSE
