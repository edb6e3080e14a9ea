SPECIFICATION Spec
CONSTANTS
    Modulus = 32
    WinLimit = 3
    BufSizes = {0, 2}
    DefaultWin = 3
    Starts = {28}
    MaxFrames = 8
    MaxDiscards = 2
    MaxRequests = 1
    Peers <- EapPeers
INVARIANT
    BufferBound
CHECK_DEADLOCK FALSE
