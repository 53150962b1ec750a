SPECIFICATION Spec
CONSTANTS
    Conns = {1, 2, 3}
    Groups = {"a", "b"}
    Weights = {0, 1, 2}
    Hashes = {0, 1, 2}
    Times = {50, 150}
    IndexLimit = 6
    MaxPicks = 7
    Pool = {1, 2}
    Callers = {1, 2, 3}
    Mod = 8
    Backends = {1, 2}
    Users = {1, 2}
    Filters = {{1, 2}, {2}, {}}
    Attributes = {1, 7}
    Width = 8
    MaxChosen = 4
    MaxDones = 3
    InitialBackoff = 2
    MaxBackoff = 20
    JitterPct = 20
    SmoothPct = 30
    Tries = 4
    Latencies = {0, 1, 40}
    MaxOthers = 3
    MaxDuration = 1000
    Stores = {"memory", "redis"}
    Requests = {"r1", "r2"}
    MaxTokens = 2
    AccessTokenDuration = 1
    LastSecond = 2
    MaxRedisErrors = 1
    Authorizers = {"user", "role"}
    RoleNames = {"r", "s"}
    Permissions = {"p"}
    Guests = {"g"}
    MaxChanges = 3
    PluginNames = {"p", "q"}
    MaxInits = 3
    Base = 2
    Thresholds = {0, 1, 3, 8, 10}
    Writes = {0, 1, 3}
    MaxMessage = 10
    MfaStores = {"memory", "redis"}
    MfaClients = {1, 2}
    Secrets = {1, 2}
    Codes = {0, 1, 2, 3, 4}
    Otp <- SomeOtp
    Window = 1
    KeyLife = 1
    LastPeriod = 2
    MaxMfaErrors = 1
    Borrowers = {1, 2}
    Messages = {1, 2, 3}
    MaxPoolSize = 2
    MessageTTL = 1
    LastTick = 2
CHECK_DEADLOCK FALSE
INVARIANTS
    
    LeastRight
    WeightsRight
    BackoffRight
    
    OpenWillBeClosed
    WrittenIsRead
    SecondFactorHolds
    
PROPERTIES
    KeepsTokenLife
    
