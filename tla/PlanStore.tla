------------------------------ MODULE PlanStore ------------------------------
(***************************************************************************)
(* PersistentTodoPlanStore of src/src/plan_store.ts: the TODO document in   *)
(* memory and on disk, and the promise-chain lock that serialises its       *)
(* mutations.  A client runs one operation at a time:                       *)
(*                                                                         *)
(*   waiting     its turn at the lock has not come (`await previous`)       *)
(*   committing  applyRevision awaits the beforeCommit callback             *)
(*   writing     atomicWrite is under way: temporary file, then rename      *)
(*   installing  the rename is done, the continuation has not run           *)
(*   returned    the promise is settled and the caller has not resumed      *)
(*                                                                         *)
(* A client that asks for a revision first spends time generating it from a *)
(* snapshot (generatePlanRevision): phase "planning".                       *)
(***************************************************************************)
EXTENDS PlanReconcile

CONSTANTS Clients,      \* concurrent callers
          InitialPlans, \* documents the store may be created with
          Proposals(_), \* plans the planner may answer with, given the base
          NoReference,  \* an absent PlanTaskReference
          MaxRevisions  \* bound on the revisions ever generated

\* The constructor validates the document.
ASSUME StoreAssumption == \A tasks \in InitialPlans : Valid(tasks)

VARIABLES plan,      \* this.markdown
          disk,      \* the file TODO.md
          writeTail, \* clients holding or awaiting the lock, holder first
          call,      \* the operation each client has under way
          revisions  \* revisions generated so far, which numbers them

storeVars == <<plan, disk, writeTail, call, revisions>>

Idle == [phase |-> "idle"]

\* planTaskReference
Reference(tasks, i) ==
    [position |-> i, id |-> tasks[i].id, fingerprint |-> Fingerprint(tasks[i]),
     token |-> AuthorityToken(tasks)]

\* Mutant: the marker alone identifies the task, whatever became of its text.
Resolve_ByMarker(tasks, ref) ==
    LET marked == {i \in DOMAIN tasks : tasks[i].id = ref.id}
        same   == {i \in DOMAIN tasks : Fingerprint(tasks[i]) = ref.fingerprint}
    IN  IF ref.id # NoId /\ Cardinality(marked) = 1 THEN CHOOSE i \in marked : TRUE
        ELSE IF Cardinality(same) = 1 THEN CHOOSE i \in same : TRUE
        ELSE IF ref.token = AuthorityToken(tasks) THEN ref.position ELSE 0

\* resolvePlanTaskReference: the position of the referenced task, 0 if stale.
Resolve(tasks, ref) ==
    LET same   == {i \in DOMAIN tasks : Fingerprint(tasks[i]) = ref.fingerprint}
        marked == {i \in same : tasks[i].id = ref.id}
        current == ref.token = AuthorityToken(tasks)
    IN  IF ref.id # NoId /\ Cardinality(marked) = 1 THEN CHOOSE i \in marked : TRUE
        ELSE IF ref.id # NoId /\ ~current THEN 0
        ELSE IF Cardinality(same) = 1 THEN CHOOSE i \in same : TRUE
        ELSE IF current /\ ref.position \in DOMAIN tasks THEN ref.position
        ELSE 0

RunningPosition(tasks, ref) == IF ref = NoReference THEN 0 ELSE Resolve(tasks, ref)

-----------------------------------------------------------------------------
(* Taking and releasing the lock.                                           *)
Enter(c, operation) ==
    /\ writeTail' = Append(writeTail, c)
    /\ call' = [call EXCEPT ![c] = operation]

Holds(c) == writeTail # <<>> /\ Head(writeTail) = c

At(c, kind, phase) ==
    /\ Holds(c)
    /\ call[c].phase = phase
    /\ call[c].kind = kind

\* The outcome is "applied", "unchanged", "stale" or "failed"; `task` is the
\* position of the resolved task in the snapshot that is returned with it.
Result(c, outcome, task, snapshot) ==
    [phase |-> "returned", kind |-> call[c].kind, outcome |-> outcome,
     task |-> task, snapshot |-> snapshot]

SettleIn(c, outcome, task, snapshot) ==
    /\ writeTail' = Tail(writeTail)
    /\ call' = [call EXCEPT ![c] = Result(c, outcome, task, snapshot)]

Settle(c, outcome, task) == SettleIn(c, outcome, task, plan)

Advance(c, phase, next) ==
    /\ call' = [call EXCEPT ![c] = [@ EXCEPT !.phase = phase, !.next = next]]
    /\ UNCHANGED writeTail

-----------------------------------------------------------------------------
(* completeTask and resolveTask.                                            *)
RequestComplete(c, ref) ==
    /\ call[c] = Idle
    /\ Enter(c, [phase |-> "waiting", kind |-> "complete", ref |-> ref, next |-> plan])
    /\ UNCHANGED <<plan, disk, revisions>>

RequestResolve(c, ref) ==
    /\ call[c] = Idle
    /\ Enter(c, [phase |-> "waiting", kind |-> "resolve", ref |-> ref, next |-> plan])
    /\ UNCHANGED <<plan, disk, revisions>>

Complete(c) ==
    /\ At(c, "complete", "waiting")
    /\ LET task == Resolve(plan, call[c].ref)
       IN  \/ task = 0 /\ Settle(c, "stale", 0)
           \/ task # 0 /\ plan[task].done /\ Settle(c, "unchanged", task)
           \/ /\ task # 0 /\ ~plan[task].done
              /\ Advance(c, "writing",
                         [plan EXCEPT ![task] = [@ EXCEPT !.done = TRUE]])
    /\ UNCHANGED <<plan, disk, revisions>>

ResolveTask(c) ==
    /\ At(c, "resolve", "waiting")
    /\ LET task == Resolve(plan, call[c].ref)
       IN  Settle(c, IF task = 0 THEN "stale" ELSE "unchanged", task)
    /\ UNCHANGED <<plan, disk, revisions>>

-----------------------------------------------------------------------------
(* generatePlanRevision and applyRevision.                                  *)
\* The snapshot handed to the planner, with the task that is running then.
Planning(running) ==
    [phase |-> "planning", kind |-> "apply", base |-> plan,
     revision |-> revisions + 1, activeTask |-> RunningPosition(plan, running)]

BeginRevision(c, running) ==
    /\ revisions < MaxRevisions
    /\ revisions' = revisions + 1
    /\ call' = [call EXCEPT ![c] = Planning(running)]
    /\ UNCHANGED <<plan, disk, writeTail>>

\* The planner answered with `proposal`: reconcile it with the snapshot it was
\* asked about and queue for the lock.  runningTask is read only now.
RequestApply(c, proposal, running) ==
    /\ call[c].phase = "planning"
    /\ Valid(proposal)
    /\ LET base == call[c].base
       IN  \E revision \in {Reconcile(base, proposal, call[c].activeTask,
                                     Pending(base), {}, call[c].revision)} :
           /\ revision # NoRevision
           /\ Enter(c, [phase |-> "waiting", kind |-> "apply",
                        expected |-> AuthorityToken(base),
                        active |-> revision.active, running |-> running,
                        revision |-> call[c].revision, next |-> plan])
    /\ UNCHANGED <<plan, disk, revisions>>

\* The planner failed, or its answer is not a plan that can be reconciled.
RevisionFails(c) ==
    /\ call[c].phase = "planning"
    /\ call' = [call EXCEPT ![c] = Result(c, "failed", 0, plan)]
    /\ UNCHANGED <<plan, disk, writeTail, revisions>>

\* The plan an accepted revision installs, reconciled with the plan of now.
Revised(c) ==
    LET target == Target(call[c].active, plan)
        reconciled == Reconcile(plan, target,
                                RunningPosition(plan, call[c].running),
                                Pending(plan), {}, call[c].revision)
    IN  IF reconciled = NoRevision THEN <<>> ELSE Render(reconciled.active)

\* Mutant: no comparison of authority tokens.
Apply_NoTokenCheck(c) ==
    /\ At(c, "apply", "waiting")
    /\ Advance(c, "committing", Render(call[c].active))
    /\ UNCHANGED <<plan, disk, revisions>>

Apply(c) ==
    /\ At(c, "apply", "waiting")
    /\ \/ call[c].expected # AuthorityToken(plan) /\ Settle(c, "stale", 0)
       \/ /\ call[c].expected = AuthorityToken(plan)
          /\ \E revised \in {Revised(c)} :
                \/ revised = <<>> /\ Settle(c, "failed", 0)
                \/ revised # <<>> /\ Advance(c, "committing", revised)
    /\ UNCHANGED <<plan, disk, revisions>>

\* The beforeCommit callback returns, or rejects the revision.
BeforeCommit(c) ==
    /\ At(c, "apply", "committing")
    /\ \/ Advance(c, "writing", call[c].next)
       \/ Settle(c, "failed", 0)
    /\ UNCHANGED <<plan, disk, revisions>>

-----------------------------------------------------------------------------
(* atomicWrite, shared by both mutations.                                   *)
Rename(c) ==
    /\ Holds(c)
    /\ call[c].phase = "writing"
    /\ disk' = call[c].next
    /\ Advance(c, "installing", call[c].next)
    /\ UNCHANGED <<plan, revisions>>

\* Mutant: a failed write never resolves the promise the next caller awaits.
WriteFails_KeepsLock(c) ==
    /\ Holds(c)
    /\ call[c].phase = "writing"
    /\ call' = [call EXCEPT ![c] = Result(c, "failed", 0, plan)]
    /\ writeTail' = [writeTail EXCEPT ![1] = "unreleased"]
    /\ UNCHANGED <<plan, disk, revisions>>

WriteFails(c) ==
    /\ Holds(c)
    /\ call[c].phase = "writing"
    /\ Settle(c, "failed", 0)
    /\ UNCHANGED <<plan, disk, revisions>>

Install(c) ==
    /\ Holds(c)
    /\ call[c].phase = "installing"
    /\ plan' = call[c].next
    /\ SettleIn(c, "applied",
                IF call[c].kind = "complete"
                THEN Resolve(call[c].next, call[c].ref) ELSE 0,
                call[c].next)
    /\ UNCHANGED <<disk, revisions>>

\* The caller resumes with the result.
Resume(c) ==
    /\ call[c].phase = "returned"
    /\ call' = [call EXCEPT ![c] = Idle]
    /\ UNCHANGED <<plan, disk, writeTail, revisions>>

\* A step of the store on behalf of c, once its lock turn has come.
StoreStep(c) ==
    \/ Complete(c)
    \/ ResolveTask(c)
    \/ Apply(c)
    \/ BeforeCommit(c)
    \/ Rename(c)
    \/ WriteFails(c)
    \/ Install(c)
=============================================================================
