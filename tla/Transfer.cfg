CONSTANTS
    Count = 2
    Frame = 2
    Magic = 1
    Buffer = 2
    MaxFrames = 4
    MaxSize = 8
    MaxBytes = 6
    Word = 16
SPECIFICATION Spec
CHECK_DEADLOCK FALSE
INVARIANTS
    Conserved
    HeaderIsTrue
    EndsWhole
PROPERTIES
    TransferEnds
