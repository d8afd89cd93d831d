\* Delays of 1 to 4 ticks, an outage of 6, prompts of 2, timers one tick late.
SPECIFICATION FairSpec
CONSTANTS
    Limit = 2
    Graces = {0, 1}
    BaseDelay = 1
    MaxDelay = 4
    MaxOutage = 6
    MaxCount = 3
    MaxLate = 1
    Failures = {"network", "fatal", "abort"}
INVARIANTS
    PlanFinished
    OutcomeReported
PROPERTIES
    RetryAllowed
    RequestEnds
CHECK_DEADLOCK FALSE
