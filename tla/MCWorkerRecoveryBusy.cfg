\* A replacement while a retry's session is being created.
SPECIFICATION Spec
CONSTANTS
    Calls = {1, 2}
    Sessions = {1, 2}
    Results = {"done", "partial"}
    Failures = {"network", "fatal"}
    NoSession = 0
    NoCall = 0
    NoActive = 0
    Level <- MCLevel
    MaxAttempts = 2
    MaxTasks = 2
    MaxRetries = 1
    MaxSteering = 1
INVARIANT
    SteeringKeepsRun
CHECK_DEADLOCK FALSE
