SPECIFICATION FairSpec
CONSTANTS
    e1 = e1
    e2 = e2
    p1 = p1
    p2 = p2
    Event <- MCEvents
    Producer <- MCProducers
    NoEvent = noevent
    Main = main
    Nobody = nobody
    MaxPending = 3
INVARIANTS
    TypeOK
    DrainIsPrivate
PROPERTIES
    QueueSpec
    TickReturns
