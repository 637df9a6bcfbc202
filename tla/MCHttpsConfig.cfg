SPECIFICATION Spec
CONSTANTS
    Half = 512
    Infinity = Infinity
    Failed = Failed
    FdUnknown = 10
    FdUnlimited = 14
    Rlimits <- SomeRlimits
    Memories <- SomeMemories
    ConnSettings <- SomeSettings
    Sizes <- SomeSizes
    MB = 400
    MinBody = 4
    MaxBodyCap = 60
    MinHeader = 1
    MaxHeaderCap = 3
INVARIANT ConnectionsAsDocumented
