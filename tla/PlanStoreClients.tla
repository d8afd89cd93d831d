-------------------------- MODULE PlanStoreClients --------------------------
(***************************************************************************)
(* PlanStore driven by arbitrary clients: any reference ever taken from a   *)
(* plan may be completed or resolved at any later time, revisions are       *)
(* generated and applied concurrently, writes fail, and the process may be  *)
(* restarted from the file.                                                 *)
(***************************************************************************)
EXTENDS PlanStore

CONSTANT MaxReferences  \* bound on the references taken

VARIABLE references     \* references handed to workers so far

clientsVars == <<plan, disk, writeTail, call, revisions, references>>

ClientsInit ==
    /\ plan \in InitialPlans
    /\ disk = plan
    /\ writeTail = <<>>
    /\ call = [c \in Clients |-> Idle]
    /\ revisions = 0
    /\ references = {}

TakeReference ==
    /\ Cardinality(references) < MaxReferences
    /\ \E i \in DOMAIN plan : references' = references \union {Reference(plan, i)}
    /\ UNCHANGED storeVars

\* PersistentTodoPlanStore.load after the process died: the lock, the calls and
\* the snapshot were in memory only.
Reload ==
    /\ plan' = disk
    /\ writeTail' = <<>>
    /\ call' = [c \in Clients |-> Idle]
    /\ UNCHANGED <<disk, revisions, references>>

\* Which task runs meanwhile is the scheduler's affair (module Coordinator).
Client(c) ==
    /\ \/ \E ref \in references : RequestComplete(c, ref)
       \/ \E ref \in references : RequestResolve(c, ref)
       \/ call[c] = Idle /\ BeginRevision(c, NoReference)
       \/ /\ call[c].phase = "planning"
          /\ \E proposal \in Proposals(call[c].base) :
                RequestApply(c, proposal, NoReference)
       \/ RevisionFails(c)
       \/ Resume(c)
    /\ UNCHANGED references

ClientsNext ==
    \/ TakeReference
    \/ Reload
    \/ \E c \in Clients : Client(c)
    \/ \E c \in Clients : StoreStep(c) /\ UNCHANGED references

ClientsSpec == ClientsInit /\ [][ClientsNext]_clientsVars

\* Lock turns come and file operations settle: the holder of the lock does not
\* hold it for ever without a step.  (Weak fairness of StoreStep(c), which is
\* enabled exactly when c holds the lock.)
LockMoves == \A c \in Clients :
    []<>(~Holds(c)) \/ []<><<Holds(c) /\ call'[c] # call[c]>>_clientsVars

FairClientsSpec == ClientsSpec /\ LockMoves

-----------------------------------------------------------------------------
\* The document follows PlanRegister: under any interleaving of completions, stale
\* or late references, revisions, failed writes and restarts it changes by one
\* checkbox at a time, or by one revision that invents and doubles no completion and
\* reopens no completed work under its identity, marked or not.
Register == INSTANCE PlanRegister WITH todo <- disk
ImplementsRegister == Register!Spec

\* Every serialised call settles: a failed write or a stale revision hands the
\* lock on.
EveryCallSettles ==
    \A c \in Clients :
        call[c].phase \in {"waiting", "committing", "writing", "installing"}
            ~> call[c].phase \in {"returned", "idle"}
=============================================================================
