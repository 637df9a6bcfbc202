SPECIFICATION Spec
CONSTANTS
    m1 = m1
    m2 = m2
    Chain <- TwoMigrations
    UpLength = 2
    DeferredErrors = TRUE
    Cancels = FALSE
    MayRollBack = FALSE
    OtherProcess = FALSE
    MaxCalls = 3
INVARIANTS
    InOrder
CHECK_DEADLOCK FALSE
