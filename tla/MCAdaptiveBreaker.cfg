SPECIFICATION ASpec
CONSTANTS
    c1 = c1
    Callers = {c1}
    Options <- LowOptions
    UintMod = 3
    AgeCap = 1
    RunCap = 1
    MaxAdmin = 1
    MinThreshold = 1
    MaxThreshold = 2
    MinTimeout = 100
    MaxTimeout = 105
    IncreaseRate = 200
    DecreaseRate = 90
    MaxPending = 2
    CountCap = 1
CHECK_DEADLOCK FALSE
INVARIANTS
    MetricsRight
