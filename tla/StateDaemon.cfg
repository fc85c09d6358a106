CONSTANTS
    MaxCard = 1
    MaxGen = 3
SPECIFICATION FairSpec
PROPERTIES
    SavesBeforeQuit
    ChangeIsSaved
    SignalsAreServed
