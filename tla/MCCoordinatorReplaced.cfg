\* A task removed and put back while its worker is being stopped.
SPECIFICATION Spec
CONSTANTS
    s1 = s1
    A = A
    B = B
    x = x
    y = y
    NoRevision = NoRevision
    NoReference = NoReference
    NoAssignment = NoAssignment
    NoProcessor = NoProcessor
    Scheduler = Scheduler
    Steering = Steering
    Clients <- TwoClients
    InitialPlans <- MCInitialPlans
    Proposals <- MCProposals
    Outcomes <- OutcomeStates
    MaxAttempts = 2
    MaxMessages = 2
    MaxRevisions = 2
    MaxRuns = 8
INVARIANT
    ReplacedWorkCompletesNothing
CHECK_DEADLOCK FALSE
