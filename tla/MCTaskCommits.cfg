SPECIFICATION Spec
CONSTANTS
    Tasks = {"t1", "t2"}
    NoTask = NoTask
    Plans = {{"t1"}, {"t1", "t2"}}
    Paths = {"a", "b", "run", "stray"}
    RunFiles = {"run"}
    Strays = {"stray"}
    Contents = {0, 1, 2}
    Missing = 0
    Trees <- MCTrees
    Title <- MCTitle
    Histories <- MCHistories
    RecentLimit = 3
    Failing = {"root", "add", "restore", "diff", "commit", "hash"}
    MaxEdits = 2
    MaxAttempts = 2
INVARIANTS
    CompletedWorkCommitted
    StyleKept
PROPERTIES
    KeptOut
CHECK_DEADLOCK FALSE
