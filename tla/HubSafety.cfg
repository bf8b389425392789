SPECIFICATION Spec
CONSTANTS
    Instance = {i1, i2}
    Device = {1, 2}
    Socket = {s1, s2}
    NoSocket = NoSocket
    TTLTicks = 1
    ChanCap = 1
    MaxState = 2
    MaxFault = 2
    MaxCommand = 0
    Budget <- MCBudget
SYMMETRY SafetySymmetry
INVARIANT TypeOK
INVARIANT NoOrphanOpenSocket
INVARIANT FramesCurrent
INVARIANT LastMatchesRoster
