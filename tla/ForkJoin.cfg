SPECIFICATION MCSpec
CONSTANTS
    k1 = k1
    k2 = k2
    Wakers <- TwoWakers
    InfiniteBlocktime = FALSE
    ApiCalls <- AllCalls
    MaxRegions = 3
    Parts = {"sleep", "hierarchy", "cancellation"}
    MaxLeaves = 2
    MinBranch = 2
    InitialLevels = 4
    MaxTeam = 5
    Environments <- Envs
    Calm = TRUE
    CancelTeam = 3
    CancelPrograms <- EarlyCancels
INVARIANTS
    NoLostWakeup
    WorksOnlyWhenReleased
    BarriersHold
PROPERTIES
    ReleasedWorkerRuns
    ShutdownEnds
    RegionsEnd
CHECK_DEADLOCK FALSE
