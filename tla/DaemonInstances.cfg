CONSTANTS
    d1 = d1
    d2 = d2
    d3 = d3
    k1 = k1
    Starters = {d1, d2, d3}
    Killers = {k1}
    None = None
    MaxFaults = 1
SPECIFICATION FairSpec
INVARIANTS
    OneDaemon
    SignalsAreHandled
PROPERTIES
    NoSecondDaemon
    SentIsDone
