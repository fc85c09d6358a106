CONSTANTS
    p1 = p1
    p2 = p2
    Procs = {p1, p2}
    MaxCard = 1
    MaxVersion = 2
    NoProc = NoProc
SPECIFICATION Spec
INVARIANTS
    FileComplete
PROPERTIES
    NeverOlder
    StoresWhatWasAsked
SYMMETRY Symmetry
