SPECIFICATION Spec
CONSTANTS
    Servers = {"a", "b"}
    RetryAttempts = 1
    Fallbacks = {TRUE, FALSE}
    MaxFaults = 1
    MaxNow = 1
    Starters = {"s1", "s2"}
    Closers = {"c1"}
    Registries = {TRUE, FALSE}
CHECK_DEADLOCK FALSE
INVARIANTS
    RecordRight
    ServerTold

    
    
