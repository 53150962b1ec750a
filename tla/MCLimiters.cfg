SPECIFICATION Spec
CONSTANTS
    c1 = c1
    c2 = c2
    c3 = c3
    Calls = {c1, c2, c3}
    Interval = 2
    Rate = 1
    MaxTime = 4
    Capacity = 1
    MinRate = 1
    MaxRate = 3
    InitialRate = 2
    DecreaseFactor = 60
    IncreaseFactor = 150
    BucketSize = 2
    Thresholds <- ThresholdPairs
CHECK_DEADLOCK FALSE
INVARIANTS
    
    TokensWithinSupply
PROPERTIES
    WaitersReleased
