SPECIFICATION FairSpec
CONSTANTS
    MaxMessages = 2
    MaxFiles = 1
    MaxConnections = 2
    MaxReceived = 2
INVARIANTS
    TypeOK
    WorkerHasConnection
    HandedOnce
    InOrder
    PrivateUnlessOverrun
    ReportedOnce
PROPERTIES
    ReceiveQueueSpec
    DisconnectReturns
