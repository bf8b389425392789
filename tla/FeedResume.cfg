SPECIFICATION Spec
CONSTANTS
    h1 = h1
    h2 = h2
    Host = {h1}
    MaxSkew = 0
    Skew <- NoSkew
    MaxLog = 2
    MaxDrop = 0
    MaxCrash = 1
INVARIANT ResumeLosesNothing
CHECK_DEADLOCK FALSE
