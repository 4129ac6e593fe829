SPECIFICATION MCSpec
CONSTANTS
    Parts = {"gcc"}
    None = None
    Width = 8
    Buffers = 2
    Programs <- SharedRegions
    Forced = {"none", "critical", "atomic", "tree"}
    GccPrograms <- Downwards
INVARIANTS
    GompConstructs
CHECK_DEADLOCK FALSE
