SPECIFICATION Spec
CONSTANTS
    Modulus = 32
    WinLimit = 3
    BufSizes = {0, 2}
    DefaultWin = 3
    Starts = {28}
    MaxFrames = 8
    MaxDiscards = 2
    MaxRequests = 3
    Peers <- OrderlyPeers
INVARIANTS
    TypeOK
    BufferInWindow
    ResetEmpty
    NothingLost
    PoolConserved
PROPERTY
    InOrder
CHECK_DEADLOCK FALSE
