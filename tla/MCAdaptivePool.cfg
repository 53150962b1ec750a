SPECIFICATION ASpec
CONSTANTS
    c1 = c1
    c2 = c2
    c3 = c3
    k1 = k1
    k2 = k2
    k3 = k3
    None = None
    Callers = {c1, c2, c3}
    Conns = {k1, k2, k3}
    MaxIdle = 2
    InitMaxActive = 1
    WaitOptions = {TRUE, FALSE}
    MaxWaits = 1
    MinConnections = 1
    MaxConnections = 2
    HighLoad = 80
    LowLoad = 30
    ScaleUp = 200
    ScaleDown = 80
SYMMETRY Symmetry
CHECK_DEADLOCK FALSE
INVARIANTS
    
    
    
    NoLeak
