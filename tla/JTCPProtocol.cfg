SPECIFICATION FairSpec
CONSTANTS
    m1 = m1
    m2 = m2
    f1 = f1
    f2 = f2
    f3 = f3
    Message <- MCOneMessage
    File <- MCFiles
    MessageSize <- MCMessageSize
    FileSize <- MCFileSize
    ChunkHeader <- MCChunkHeader
    ChunkSize = 2
    Priority <- MCPriority
    HeaderSize = 2
    LenModulus = 4
    RecvMax = 3
INVARIANTS
    TypeOK
    Intact
    NothingLost
    ReassemblyIncomplete
CHECK_DEADLOCK FALSE
PROPERTY AllDelivered
