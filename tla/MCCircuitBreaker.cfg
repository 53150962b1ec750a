SPECIFICATION FairSpec
CONSTANTS
    Callers = {c1, c2}
    c1 = c1
    c2 = c2
    Options <- BothOptions
    UintMod = 10
    AgeCap = 2
    RunCap = 3
    MaxAdmin = 1
INVARIANTS
    TypeOK
    ConcurrencyNeverOvercounts
    ProbeBudget
    CountersTrackHistory
PROPERTIES
    TripsExactlyAtThreshold
    ClosesExactlyAtSuccessThreshold
    Recovers
