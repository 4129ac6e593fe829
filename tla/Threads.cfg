SPECIFICATION MCSpec
CONSTANTS
    Parts = {"teams", "library"}
    None = None
    t1 = t1
    t2 = t2
    Settings <- TeamSettings
INVARIANTS
    TeamsConsistent
    TaskTeamsShared
    LibraryConsistent
PROPERTIES
    CallsReturn
CHECK_DEADLOCK FALSE
