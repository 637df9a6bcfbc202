SPECIFICATION FairSpec
CONSTANTS
    k1 = k1
    k2 = k2
    k3 = k3
    NoConn = NoConn
    N = 2
    ReusePort = FALSE
    Conns <- ThreeConns
    MaxConnections = 1
    StopWhileStarting = TRUE
INVARIANTS
    PromptDrain
PROPERTY ShutdownCompletes
