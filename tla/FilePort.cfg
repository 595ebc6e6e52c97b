SPECIFICATION Spec
CONSTANTS
    Client = {c1, c2}
    MaxConn = 3
    Nobody = Nobody
    Junk = Junk
    MaxTyped = 3
    MaxFaults = 1
INVARIANTS TypeOK EnoughAcceptors
PROPERTIES ConnectionAccepted
CHECK_DEADLOCK FALSE
