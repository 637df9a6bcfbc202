SPECIFICATION FairSpec
CONSTANTS
    Workers = {"w1", "w2"}
    Conns = {"k1", "k2", "k3"}
    MaxRequests = 3
    MaxFired = 2
    MaxQueue = 5
    Half = 512
    Infinity = 9999
    Failed = 9998
    FdUnknown = 10
    FdUnlimited = 14
    Rlimits <- SomeRlimits
    Memories = {0, 1, 8}
    ConnSettings <- SomeConnSettings
    Sizes = {0, 7}
    MB = 400
    MinBody = 4
    MaxBodyCap = 60
    MinHeader = 1
    MaxHeaderCap = 3
INVARIANTS
    OneLateRequest
    ResultTellsTruth
    MemoryBudgetKept
PROPERTIES
    ShutdownCompletes
    ConnectionEnds
    WholeResponse
    RequestEnds
    SendEnds
