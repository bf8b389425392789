SPECIFICATION OneSidedFairSpec
CONSTANTS
    Instance = {i1, i2}
    Device = {1}
    Socket = {s1, s2}
    NoSocket = NoSocket
    TTLTicks = 1
    ChanCap = 0
    MaxState = 1
    MaxFault = 1
    MaxCommand = 0
    Budget <- MCBudget
PROPERTY PeersLearn
PROPERTY PeersForget
PROPERTY DeadPeerRemoved
