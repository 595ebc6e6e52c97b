SPECIFICATION Spec
CONSTANTS
    Client = {c1, c2}
    Pseudo = {p1, p2}
    ChannelName = {n1, n2, l1, l2}
    Long = {l1, l2}
    NoName = NoName
    Descriptor = {d1, d2}
    Stray = Stray
    GarbageFd = {d1}
    Nobody = Nobody
    Junk = Junk
    MaxChannels = 2
    MaxClients = 2
SYMMETRY Symmetry
INVARIANTS TypeOK Contiguous UniqueNames MembersAreJoined EveryMemberHears
PROPERTIES ImplementsDirectory
CHECK_DEADLOCK FALSE
