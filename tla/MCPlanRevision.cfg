\* One revision over every plan of up to two tasks.
SPECIFICATION RevisionSpec
CONSTANTS
    s1 = s1
    A = A
    B = B
    x = x
    y = y
    NoRevision = NoRevision
    Plans <- MCPlans
    Proposed <- MCProposed
INVARIANTS
    CompletionEarned
    HistoryKept
    RunningKeptOrStale
    AppliedAsGenerated
\* A revision is applied once.
CHECK_DEADLOCK FALSE
