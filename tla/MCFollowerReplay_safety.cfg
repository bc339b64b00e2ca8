CONSTANTS
    N = 2
    UMax = 9
    MaxTs = 2
    MaxNoops = 2
    FailWhileEnding = TRUE
SPECIFICATION Spec
INVARIANTS TypeOK ExactlyOnce EpochFence BarriersSeparate WatermarkSafe
PROPERTIES ReplaySafe CutStable
CHECK_DEADLOCK FALSE
