SPECIFICATION Spec
CONSTANTS
    s1 = s1
    s2 = s2
    c1 = c1
    c2 = c2
    c3 = c3
    NoStore = NoStore
    Stores <- MCStores
    Ctxs <- MCCtxs
    RotationInterval = 1
    KeyLifetime = 2
    MaxTime = 4
    MaxKeys = 4
    MaxTickets = 1
SYMMETRY MCSymmetry
INVARIANTS
    TypeOK
    NewestFirst
    TicketsResume
    Isolation
    SealedByFreshKey
    BoundedRing
CHECK_DEADLOCK FALSE
