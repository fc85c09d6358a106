SPECIFICATION Spec
CONSTANTS
    Cards = 2
    Elems = {e1, e2}
    NoElem = none
    Labels = {l1, l2}
    NoLabel = no_label
    Codes <- MCCodes
    MaxKeys = 8
    MaxDepth = 3
    MaxFiles = 2
CHECK_DEADLOCK FALSE
INVARIANTS EndsAsTold CacheIsOfSelection
PROPERTIES ExitIsLast
