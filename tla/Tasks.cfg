SPECIFICATION MCSpec
CONSTANTS
    Parts = {"tasks", "dependences", "taskloops"}
    None = None
    NProc = 2
    Tasks = {2, 3, 4}
    Proxies = {4}
    Mutex = {}
    Groups = {g}
    MaxWork = 4
    MaxOutside = 2
    Anywhere = FALSE
    Graphs <- AllGraphs
    Variables = {1, 2, 3, 4, 5}
    MaxMtxDeps = 4
    Programs <- MCPrograms
    Lazy <- MCLazy
    DequeSize = 3
INVARIANTS
    BarrierWaitsForTasks
    NothingUsedAfterFree
    NothingLeaks
    DependencesHold
    TaskloopsRight
PROPERTIES
    WaitsForItsTasks
    TasksEnd
CHECK_DEADLOCK FALSE
