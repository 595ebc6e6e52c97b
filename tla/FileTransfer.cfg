\* FileTransfer: every cut of the stream and one failure.
SPECIFICATION FairSpec
CONSTANTS
    MaxFiles = 2
    MaxCells = 2
    WildSizes <- MCWild
    MaxFaults = 1
INVARIANTS CalmDelivery CalmHarmless 
PROPERTIES CalmEnds
CHECK_DEADLOCK FALSE
