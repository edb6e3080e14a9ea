SPECIFICATION FairSpec
CONSTANTS
    N = 2
    MaxBufs = 3
    Loads <- AllLoads
INVARIANT TypeOK
INVARIANT SubmitFree
INVARIANT BufferUntouched
INVARIANT HandledInOrder
INVARIANT OneRestart
PROPERTY RxResumes
CHECK_DEADLOCK FALSE
