SPECIFICATION Spec
CONSTANTS
    Instance = {i1}
    Device = {1, 2}
    Socket = {s1, s2, s3}
    NoSocket = NoSocket
    TTLTicks = 1
    ChanCap = 0
    MaxState = 1
    MaxFault = 0
    MaxCommand = 0
    Budget <- MCBudget
SYMMETRY SafetySymmetry
PROPERTY TransitionAsksCleanup
