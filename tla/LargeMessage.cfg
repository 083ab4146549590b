SPECIFICATION FairSpec
CONSTANTS
    m1 = m1
    m2 = m2
    f1 = f1
    f2 = f2
    f3 = f3
    Message <- MCTwoMessages
    File <- MCNoFiles
    MessageSize <- MCLargeSize
    FileSize <- MCNoFileSize
    ChunkHeader <- MCNoFileSize
    ChunkSize = 2
    Priority <- MCPriority
    HeaderSize = 2
    LenModulus = 4
    RecvMax = 3
INVARIANT Intact
CHECK_DEADLOCK FALSE
