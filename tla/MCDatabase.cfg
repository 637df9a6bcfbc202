SPECIFICATION Spec
CONSTANTS
    DeferredErrors = FALSE
    Cancels = FALSE
    MaxStatements = 4
    Chain <- TwoMigrations
    UpLength = 2
    MayRollBack = TRUE
    OtherProcess = TRUE
    MaxMigrations = 3
    Objs = {"o1", "o2"}
    Fields = {"name", "note"}
    Fillable = {"name"}
    Texts = {"", "x"}
    Inputs <- SomeInputs
    MaxId = 2
    MaxBatch = 2
    MaxMade = 5
INVARIANTS
    CommitTellsTruth
    WholeOrNothing
    InOrder
    OneRowPerObject
PROPERTIES
    ImplementsStore
    OwnRowOnly
    BatchWholeOrUpdates
CHECK_DEADLOCK FALSE
