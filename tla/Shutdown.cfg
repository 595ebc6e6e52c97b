\* Shutdown: two sessions and the handler.
SPECIFICATION FairSpec
CONSTANTS
    Session = {s1, s2}
    Server = Server
    Handler = Handler
    NoThread = NoThread
INVARIANTS IInv FreedOnce
PROPERTIES KeptStopsHandler StopsUnlessKept
CHECK_DEADLOCK FALSE
