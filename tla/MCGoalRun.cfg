\* Two iterations at most, one or two at least; one tick an iteration, two a goal.
SPECIFICATION FairSpec
CONSTANTS
    Timeout = 2
    IterationTimeout = 1
    DefaultMaxIterations = 2
    Inputs <- SomeInputs
    MaxClock = 2
    MaxStarts = 2
    MaxFaults = 1
    MaxInterruptions = 1
INVARIANTS
    TypeOK
    StopEarned
    Durable
PROPERTIES
    SavedGrows
    PhaseStarts
    GoalEnds
CHECK_DEADLOCK FALSE
