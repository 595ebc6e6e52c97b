SPECIFICATION SendsSpec
CONSTANTS
    Client = {c1, c2}
    Nobody = Nobody
    Capacity = 1
    NumChannels = 1
    MaxCommands = 2
INVARIANTS WaitIsForReader
PROPERTIES ServedIfRead
CHECK_DEADLOCK FALSE
