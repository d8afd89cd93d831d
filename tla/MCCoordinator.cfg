\* One worker at a time, two revisions, two attempts for each task.
SPECIFICATION FairSpec
CONSTANTS
    s1 = s1
    A = A
    B = B
    x = x
    y = y
    NoRevision = NoRevision
    NoReference = NoReference
    NoAssignment = NoAssignment
    NoProcessor = NoProcessor
    Scheduler = Scheduler
    Steering = Steering
    Clients <- TwoClients
    InitialPlans <- MCInitialPlans
    Proposals <- MCProposals
    Outcomes <- OutcomeStates
    MaxAttempts = 2
    MaxMessages = 2
    MaxRevisions = 2
    MaxRuns = 8
INVARIANTS
    EvidenceBeforeCheckbox
    AttemptLimit
    ActiveWorkIsCurrent
PROPERTY
    RunReturns
\* Once the run has returned there is nothing left to do.
CHECK_DEADLOCK FALSE
