SPECIFICATION MCSpec
CONSTANTS
    Parts = {"heaps", "allocators", "private", "locks"}
    None = None
    t1 = t1
    t2 = t2
    Thread = {t1, t2}
    PoolIncr = 6
    MaxPools = 2
    MaxDirect = 1
    MaxHeld = 2
    BinSizes <- SmallBins
    SizeQ = 1
    Sizes = {1, 2, 7}
    FastSizes <- OneClass
    ListLimit = 1
    small = small
    large = large
    Allocator = {small, large}
    PoolSize <- TwoPools
    Fallback <- ToTheOther
    FallbackData <- Other
    BlockSizes = {1, 2}
    MaxBlocks = 2
    Default = Default
    MaxGtid = 1
    FirstCapacity = 1
    Vars = {v}
    MaxEnds = 1
    LeaveAfterUse = FALSE
    Nowhere = Nowhere
    a1 = a1
    a2 = a2
    Caller = {t1, t2}
    Nil = Nil
    Lock = {a1, a2}
    MaxDepth = 2
    MaxMade = 2
SYMMETRY Symmetry
INVARIANTS
    MemoryAccounted
    PrivateDataRight
PROPERTIES
    ImplementsUserLocks
CHECK_DEADLOCK FALSE
