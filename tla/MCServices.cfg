SPECIFICATION Spec
CONSTANTS
    SettingKeys <- SomeKeys
    Inputs = {"num", "literal"}
    Docs <- SomeDocs
    Nested <- SomeNested
    Faults = TRUE
    Threads = {"t1", "t2"}
    MaxLines = 2
    LineBound = 7
    StartBound = 3
    Jobs = {"j1", "j2"}
    CacheKeys = {"k"}
    Values = {"v", "w"}
    Attempts = 2
    Tasks = {"t1", "t2"}
    FilePaths = {"p", "q"}
    FileBound = 2
    RoutePaths <- SomePaths
    RouteTargets <- SomeTargets
    Parameters = {":x"}
    Methods = {"GET"}
    Kinds = {"message"}
    HttpBound = 2
    RouteBound = 3
INVARIANTS
    SavedIsReloadable
    RecentLinesKept
    ClosedOnlyByExit
    InOrderNoExtraCopies
    CacheHoldsLastWrite
    WholeUnlessRaced
    ObjectsComeHome
PROPERTY FirstRouteWins
CHECK_DEADLOCK FALSE
