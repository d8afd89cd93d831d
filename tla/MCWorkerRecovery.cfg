\* Two tasks, two attempts, one retry, one replacement.
SPECIFICATION FairSpec
CONSTANTS
    Calls = {1, 2}
    Sessions = {1, 2}
    Results = {"done", "partial", "blocked"}
    Failures = {"network", "fatal"}
    NoSession = 0
    NoCall = 0
    NoActive = 0
    Level <- MCLevel
    MaxAttempts = 2
    MaxTasks = 2
    MaxRetries = 1
    MaxSteering = 1
INVARIANTS
    ExclusiveSession
    OnlyHealthyContinuation
    ResultIsOwn
    NothingLeftBehind
PROPERTIES
    RunEnds
CHECK_DEADLOCK FALSE
