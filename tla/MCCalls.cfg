SPECIFICATION Spec
CONSTANTS
    c1 = c1
    c2 = c2
    c3 = c3
    Instances = {1, 2, 3}
    Dialers = {"d1", "d2"}
    Targets = {"t"}
    MaxActive = 1
    MaxCloses = 1
    Calls = {c1, c2, c3}
    MaxAttempts = 2
    MaxConcurrentRetries = 2
    RetryRatios = {100}
    Modes = {TRUE, FALSE}
CHECK_DEADLOCK FALSE
INVARIANTS
    AnswersRight
    DialsShare
    BudgetHolds

    
