SPECIFICATION FairSpec
CONSTANTS
    N = 2
    MaxBufs = 2
    Loads <- RadioLoads
PROPERTY RadioOnSends
CHECK_DEADLOCK FALSE
