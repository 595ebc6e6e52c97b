\* FileTransfer: recvs that take more than one item.
SPECIFICATION Spec
CONSTANTS
    MaxFiles = 2
    MaxCells = 2
    WildSizes <- MCWild
    MaxFaults = 0
INVARIANT AckedIsWritten
CHECK_DEADLOCK FALSE
