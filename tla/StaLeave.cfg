SPECIFICATION FairSpec
CONSTANTS
    Bss = {a}
    a = a
    NoBss = NoBss
    Ibss = Ibss
    Modes <- InfraMode
    Events = {"reconnect", "leave", "disassoc"}
    MaxEvents = 2
    MaxQ = 8
    MaxFrames = 1
    NChan = 1
    ImprovedMax = 1
PROPERTY LeavingEnds
