SPECIFICATION MessagesSpec
CONSTANTS
    i1 = i1
    i2 = i2
    i3 = i3
    w1 = w1
    w2 = w2
    ResultReq = ResultReq
    Items = {i1, i2, i3}
    Deadlined = {i1, i2}
    Expiring = {i1}
    Workers = {w1, w2}
    BatchSize = 2
    QueueSize = 1
    WaitOptions = {TRUE, FALSE}
    s1 = s1
    s2 = s2
    s4 = s4
    s5 = s5
    m1 = m1
    m2 = m2
    Servers = {s1, s2, s4}
    Clients = {s5}
    Methods = {m1, m2}
    Method <- MethodOf
    MaxBufferSize = 1
    HighWatermarkPct = 80
    BlockOptions = {TRUE, FALSE}
CHECK_DEADLOCK FALSE
INVARIANTS
    EachItemOnce
    StreamsCounted
PROPERTIES
    NobodyWaitsForever
