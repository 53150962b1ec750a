SPECIFICATION FairSpec
CONSTANTS
    c1 = c1
    c2 = c2
    Callers = {c1, c2}
    Options <- TruncatedOptions
    UintMod = 10
    AgeCap = 2
    RunCap = 3
    MaxAdmin = 0
PROPERTY Recovers
