CONSTANTS
    Latency = 2
    PlayBuffer = 3
    CaptBuffer = 2
    MaxDrift = 2
    MaxRounds = 2
    MaxFrame = 6
    MaxEvents = 1
SPECIFICATION Spec
CHECK_DEADLOCK FALSE
PROPERTIES
    EveryFrameInTurn
    LatencyKept
