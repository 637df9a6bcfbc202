SPECIFICATION Spec
CONSTANTS
    k1 = k1
    k2 = k2
    k3 = k3
    NoConn = NoConn
    N = 2
    ReusePort = TRUE
    Conns <- ThreeConns
    MaxConnections = 1
    StopWhileStarting = TRUE
SYMMETRY ConnSymmetry
INVARIANTS
    AdmittedWithinLimit
    NoStranded
PROPERTY AdmissionIsGate
