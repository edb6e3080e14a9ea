SPECIFICATION Spec
CONSTANTS
    Bss = {a}
    a = a
    NoBss = NoBss
    Ibss = Ibss
    Modes <- RequestModes
    Events = {"reconnect", "ssid", "scan", "bssid", "mlme", "roam", "leave", "disassoc"}
    MaxEvents = 2
    MaxQ = 8
    MaxFrames = 1
    NChan = 2
    ImprovedMax = 1
INVARIANT MachinesTimed
PROPERTY LinkUpGranted
