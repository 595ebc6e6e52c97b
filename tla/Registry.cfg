SPECIFICATION FairSpec
CONSTANTS
    Client = {c1, c2}
    Serveur = Serveur
    Pseudo = {p1}
    ServeurPseudo = ServeurPseudo
    EmptyPseudo = EmptyPseudo
    NoPseudo = NoPseudo
    Descriptor = {d1, d2}
    Stray = Stray
    NoSocket = NoSocket
    Nobody = Nobody
    MaxClients = 2
    MaxRequests = 2
    MaxFaults = 1
INVARIANTS IInv SlotConservation ListIsServed WalkStaysInList OwnDescriptor
PROPERTIES OrphanIsForever ImplementsPool DepartedIsReleased
CHECK_DEADLOCK FALSE
