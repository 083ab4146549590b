SPECIFICATION Spec
CONSTANTS
    MaxMessages = 2
    MaxFiles = 0
    MaxConnections = 1
    MaxReceived = 0
INVARIANTS
    DrainIsPrivate
