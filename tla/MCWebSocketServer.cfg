SPECIFICATION Spec
CONSTANTS
    c1 = c1
    c2 = c2
    NoRoute = NoRoute
    Conns <- TwoConns
    ManagerKinds = {"close"}
    AppRemoves = TRUE
    MaxOps = 1
SYMMETRY ConnSymmetry
INVARIANTS
    Roster
    HandlerPrecedence
    DiesOnlyBy
    CountCoversFrames
CHECK_DEADLOCK FALSE
