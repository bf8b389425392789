SPECIFICATION FairSpec
CONSTANTS
    Instance = {i1}
    Device = {1}
    Socket = {s1, s2}
    NoSocket = NoSocket
    TTLTicks = 1
    ChanCap = 0
    MaxState = 1
    MaxFault = 0
    MaxCommand = 0
    Budget <- MCBudget
PROPERTY DisconnectDropsDevice
