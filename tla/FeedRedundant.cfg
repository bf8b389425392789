SPECIFICATION FairSpec
CONSTANTS
    h1 = h1
    h2 = h2
    Host = {h1, h2}
    MaxSkew = 1
    Skew <- SecondAhead
    MaxLog = 4
    MaxDrop = 1
    MaxCrash = 1
INVARIANT TypeOK
INVARIANT NoCommitSkipped
PROPERTY EveryCommitHandled
CHECK_DEADLOCK FALSE
