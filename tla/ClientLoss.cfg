SPECIFICATION Spec
CONSTANTS
    MaxMessages = 1
    MaxFiles = 0
    MaxConnections = 1
    MaxReceived = 0
INVARIANTS
    LossIsReported
