\* A channel switch announcement re-initialises the live ring.
CONSTANTS
    s1 = s1  r1 = r1  mlme = mlme
    q1 = q1  q2 = q2  f1 = f1  none = none
    MaxLen = 4
    MaxNum = 5
    Requests = {q1, q2}
    Frames = {f1}
    NoMsg = none
    Senders = {s1}
    Receivers = {r1}
    MlmeTask = mlme
SPECIFICATION RSpec
INVARIANT IndexConsistent
