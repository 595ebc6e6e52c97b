SPECIFICATION Spec
CONSTANTS
    Client = {c1}
    Serveur = Serveur
    Pseudo = {p1}
    ServeurPseudo = ServeurPseudo
    EmptyPseudo = EmptyPseudo
    NoPseudo = NoPseudo
    Descriptor = {d1}
    Stray = Stray
    NoSocket = NoSocket
    Nobody = Nobody
    MaxClients = 1
    MaxRequests = 1
    MaxFaults = 0
INVARIANTS LockReleased
CHECK_DEADLOCK FALSE
