CONSTANTS
    Count = 3
    Values = {0, 1}
    MaxSets = 3
    MaxFails = 1
SPECIFICATION Spec
CHECK_DEADLOCK FALSE
PROPERTIES
    MixersAgree
    ServedOnlyInReach
