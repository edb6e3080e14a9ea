\* More threads than free entries may pass the full test: the ring overruns and recovers.
CONSTANTS
    s1 = s1  r1 = r1  mlme = mlme
    q1 = q1  f1 = f1  none = none
    MaxLen = 4
    MaxNum = 5
    Requests = {q1}
    Frames = {f1}
    NoMsg = none
    Senders = {s1}
    Receivers = {r1}
    MlmeTask = mlme
SPECIFICATION FairSpec
INVARIANTS TypeOK RingIsFifo ElemStable FramesLeaveRoom
PROPERTIES Dispatched ImplementsFifo
