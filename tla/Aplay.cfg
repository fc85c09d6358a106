CONSTANTS
    Chunk = 2
    Limits = {0, 3, 4}
    FileLimits = {0, 1, 2, 3}
    Formats = {"raw", "wave"}
    Lengths = {0, 3, 4, 5}
    MaxFrames = 7
    MaxFiles = 4
    MaxStops = 1
SPECIFICATION Spec
CHECK_DEADLOCK FALSE
INVARIANTS
    FramesAreKept
    WaveHeaderIsTrue
    PlaysInOrder
PROPERTIES
    PlaysItAll
