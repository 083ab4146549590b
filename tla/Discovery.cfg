SPECIFICATION FairSpec
CONSTANTS
    c1 = c1
    g1 = g1
    Client <- MCClients
    Guest <- MCGuests
    Server = server
INVARIANTS
    TypeOK
    StartedWhenJoined
    AnnouncedOnce
    FoundIsKnown
PROPERTIES
    Discovered
    StopReturns
\* A handler that calls Stop can block its application for ever.
CHECK_DEADLOCK FALSE
