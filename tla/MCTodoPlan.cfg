\* Every small plan, what becomes of it, and one revision.
SPECIFICATION Spec
CONSTANTS
    NoRevision = NoRevision
    Checking <- MCChecking
    MaxInstructions = 8
    Inside <- MCInside
    Inputs <- MCInputs
    Goals = {"plain", "coverage"}
    Constraints <- MCConstraints
    SpecLines <- MCSpecLines
    Answers <- MCAnswers
    Revisions <- MCRevisions
    MaxRevisions = 1
INVARIANTS
    SuppliedAgain
    ProgressAgrees
    GoalReachesWorkers
PROPERTIES
    PlanIsFaithful
    ImplementsRegister
\* A run ends when every task is done.
CHECK_DEADLOCK FALSE
