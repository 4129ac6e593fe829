SPECIFICATION MCSpec
CONSTANTS
    NProc = 4
    GatherPattern = "hyper"
    GatherBits = 1
    ReleasePattern = "hyper"
    ReleaseBits = 1
    Body <- SplitBody
    Icv = {"a", "b"}
    MaxRegions = 2
    Width = 4
    MaxBits = 4
    MaxThreads = 32
    MaxSharers = 4
    MaxTrip = 20
    MaxChunk = 3
INVARIANTS
    ReductionIsComplete
    TreesSpanTeam
    LoopsDivided
PROPERTIES
    ImplementsBarrier
    IcvsAsForked
CHECK_DEADLOCK FALSE
