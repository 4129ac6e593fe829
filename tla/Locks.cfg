SPECIFICATION MCSpec
CONSTANTS
    Parts = {"locks", "atomics"}
    None = None
    Thread <- Threads3
    Kinds <- AllKinds
    MaxCalls <- Calls
    Contracts = TRUE
    AtomicPrograms <- MixedPrograms
INVARIANTS
    NoFalseAlarm
PROPERTIES
    ImplementsLock
    ImplementsAtomic
CHECK_DEADLOCK FALSE
