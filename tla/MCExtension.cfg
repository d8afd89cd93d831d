\* Two concurrent long tasks with every order of events and of the host's calls.
SPECIFICATION Spec
CONSTANTS
    Calls = {"c1", "c2"}
    NoCall = NoCall
    Nothing = Nothing
    Status = Status
    NoComponent = NoComponent
    Factory = Factory
    Component = Component
    Unknown = Unknown
    LongTasks = {"c1", "c2"}
    Operations <- MCOperations
    Workers <- MCWorkers
    Modes = {"tui", "rpc"}
    MaxCost = 1
    MaxGuidance = 1
INVARIANTS
    SidebarTellsOutages
    ScreenCleared
    SpendCounted
PROPERTIES
    GuidanceReachesRun
\* The user may stop.
CHECK_DEADLOCK FALSE
