SPECIFICATION FairSpec
CONSTANTS
    i1 = i1
    i2 = i2
    i3 = i3
    Items = {i1, i2, i3}
    Oversized = {}
    Expiring = {i1}
    MaxBatchSize = 2
    MinBatchSize = 1
    MaxConcurrentBatches = 2
    HighLoadFactor = 50
    LowLoadFactor = 200
    HighLoadThreshold = 80
    LowLoadThreshold = 30
    FuncOptions <- SomeFunctions
    MayFail = TRUE
    MaxFlushes = 0
    MayClose = FALSE
CHECK_DEADLOCK FALSE
PROPERTIES
    AnsweredBelowLimit
