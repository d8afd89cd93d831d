\* Two clients, two revisions, two references from any plan in between.
SPECIFICATION FairClientsSpec
CONSTANTS
    c1 = c1
    c2 = c2
    s1 = s1
    A = A
    B = B
    x = x
    y = y
    NoRevision = NoRevision
    NoReference = NoReference
    Clients <- TwoClients
    MaxRevisions = 2
    MaxReferences = 1
    InitialPlans <- MCInitialPlans
    Proposals <- MCProposals
PROPERTIES
    ImplementsRegister
    EveryCallSettles
