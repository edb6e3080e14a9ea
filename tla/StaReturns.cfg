SPECIFICATION FairSpec
CONSTANTS
    Bss = {a}
    a = a
    NoBss = NoBss
    Ibss = Ibss
    Modes <- ReturnModes
    Events = {"reconnect", "csa", "cqi", "mic"}
    MaxEvents = 2
    MaxQ = 8
    MaxFrames = 1
    NChan = 1
    ImprovedMax = 1
INVARIANT CntlServed
PROPERTY CntlReturns
PROPERTY HeldDataFlows
