SPECIFICATION MCSpec
CONSTANTS
    Parts = {"atomics"}
    None = None
    Thread <- Threads3
    Kinds <- AllKinds
    MaxCalls <- Calls
    Contracts = TRUE
    AtomicPrograms <- MaxPrograms
PROPERTIES
    ImplementsAtomic
CHECK_DEADLOCK FALSE
