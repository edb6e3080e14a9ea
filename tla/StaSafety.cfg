SPECIFICATION Spec
CONSTANTS
    Bss = {a, b}
    a = a
    b = b
    NoBss = NoBss
    Ibss = Ibss
    Modes <- OpenModes
    Events = {"reconnect", "deauth", "cqi", "leave", "alone", "radar", "roam"}
    MaxEvents = 2
    MaxQ = 8
    MaxFrames = 1
    NChan = 1
    ImprovedMax = 1
SYMMETRY Symmetric
INVARIANT TypeOK
INVARIANT CntlServed
PROPERTY AssocAuthenticated
INVARIANT DataResumes
PROPERTY LinkUpGranted
