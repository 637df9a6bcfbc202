SPECIFICATION Spec
CONSTANTS
    Objs = {"o1", "o2"}
    Fields = {"name"}
    Fillable = {"name"}
    Texts = {"", "x"}
    Inputs <- OneName
    MaxId = 2
    MaxBatch = 2
    MaxCalls = 4
    DeferredErrors = FALSE
    Cancels = FALSE
INVARIANTS
    DeletionsTold
CHECK_DEADLOCK FALSE
