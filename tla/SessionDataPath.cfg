SPECIFICATION FairSpec
CONSTANTS
    MaxSent = 2
    MaxPushed = 1
    PacketSize = 3
    RecvMax = 2
    Capacity = 2
    App = {a1}
INVARIANTS
    TypeOK
    ArrivesOnce
    LostInLastRound
PROPERTIES
    SilentAfterDisconnect
    SendReturns
CHECK_DEADLOCK FALSE
