SPECIFICATION Spec
CONSTANTS
    Bss = {a}
    a = a
    NoBss = NoBss
    Ibss = Ibss
    Modes <- OpenModes
    Events = {"reconnect", "nomem", "coex", "scan", "leave"}
    MaxEvents = 2
    MaxQ = 8
    MaxFrames = 1
    NChan = 1
    ImprovedMax = 1
INVARIANT MachinesTimed

