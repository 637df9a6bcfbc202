SPECIFICATION Spec
CONSTANTS
    k1 = k1
    k2 = k2
    k3 = k3
    NoConn = NoConn
    N = 2
    ReusePort = TRUE
    Conns <- TwoConns
    MaxConnections = 2
    StopWhileStarting = FALSE
INVARIANT GracefulDrain
