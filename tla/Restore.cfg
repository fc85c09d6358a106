CONSTANTS
    Procs = {"boot", "udev"}
    Cards = {1, 2}
    Args <- BothAndOne
    Linked <- FirstLinksSecond
    Before <- StoredBefore
    After <- FoundAfter
    MaxFaults = 1
SPECIFICATION Spec
INVARIANTS
    ZeroMeansRestored
    AsMuchAsPossible
PROPERTIES
    InitOnlyWhenNeeded
CHECK_DEADLOCK FALSE
