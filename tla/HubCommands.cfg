SPECIFICATION Spec
CONSTANTS
    Instance = {i1, i2}
    Device = {1, 2}
    Socket = {s1, s2, s3}
    NoSocket = NoSocket
    TTLTicks = 0
    ChanCap = 0
    MaxState = 0
    MaxFault = 0
    MaxCommand = 1
    Budget <- MCBudget
SYMMETRY SafetySymmetry
INVARIANT CommandsAtMostOnce
