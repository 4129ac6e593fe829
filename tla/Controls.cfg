SPECIFICATION MCSpec
CONSTANTS
    Parts = {"regions", "checks", "settings"}
    MaxRegions = 3
    MaxSets = 2
    MaxNth = 3
    AvailProc = 3
    SoloInTeams = FALSE
    Kinds <- OpenMPKinds
    LevelsLimit = 3
    NestedNth <- NthList
    Names = {"A", "B"}
    MinStack = 1
    MaxDepth = 5
INVARIANTS
    QueriesRight
    ChecksAreRight
    SettingsRead
PROPERTIES
    ControlsScoped
CHECK_DEADLOCK FALSE
