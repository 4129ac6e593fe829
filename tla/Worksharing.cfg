SPECIFICATION MCSpec
CONSTANTS
    Parts = {"loops", "data", "gcc"}
    None = None
    Width = 8
    Buffers = 2
    Programs <- SharedRegions
    Forced = {"none", "critical", "atomic", "tree"}
    GccPrograms <- MCGccPrograms
INVARIANTS
    EachIterationOnce
    RegionsInOrder
    DataCombined
    GompConstructs
PROPERTIES
    WorksharingEnds
CHECK_DEADLOCK FALSE
