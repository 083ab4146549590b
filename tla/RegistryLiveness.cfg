SPECIFICATION FairSpec
CONSTANTS
    ip1 = ip1
    ip2 = ip2
    w1 = w1
    a1 = a1
    ClientID <- MCOneClient
    Worker <- MCOneWorker
    App <- MCNoApps
    Accept = accept
    Control = control
    NoClient = noclient
    MaxSessions = 2
PROPERTIES
    LifecycleSpec
    StopReturns
    Reaped
    RemovedIsClosed
