SPECIFICATION Spec
CONSTANTS
    i1 = i1
    i2 = i2
    i3 = i3
    Items = {i1, i2, i3}
    Oversized = {}
    Expiring = {i1}
    MaxBatchSize = 2
    MinBatchSize = 1
    MaxConcurrentBatches = 1
    HighLoadFactor = 50
    LowLoadFactor = 200
    HighLoadThreshold = 80
    LowLoadThreshold = 30
    FuncOptions <- BothFunctions
    MayFail = FALSE
    MaxFlushes = 1
    MayClose = TRUE
SYMMETRY Symmetry
CHECK_DEADLOCK FALSE
INVARIANTS
    CountersRight
    OnePlace
