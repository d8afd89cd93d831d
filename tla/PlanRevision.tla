---------------------------- MODULE PlanRevision ----------------------------
(***************************************************************************)
(* One revision from request to application, over any previous plan and any *)
(* proposal: generatePlanRevision reconciles the proposal with the plan it  *)
(* was asked about, applyRevision reconciles the result again with the plan *)
(* of then, in which a worker may have completed tasks meanwhile.  Both use *)
(* reconcilePlanRevision (module PlanReconcile) on different inputs.        *)
(***************************************************************************)
EXTENDS PlanReconcile

CONSTANTS Plans,      \* plans that may be revised
          Proposed(_) \* plans the planner may answer with, given the base

VARIABLES base,        \* the plan the planner was shown
          current,     \* the plan of the moment
          proposal,    \* its answer
          running,     \* position of the running task, or 0
          invalidated, \* positions the caller declared invalid
          generated,   \* the reconciliation at request time, or NoRevision
          applied      \* the reconciliation that is installed, or NoRevision

\* Documents and answers are read by parseTodoMarkdown and validated.
ASSUME RevisionAssumption ==
    \A tasks \in Plans : Valid(tasks) /\ \A answer \in Proposed(tasks) : Valid(answer)

revisionVars == <<base, current, proposal, running, invalidated, generated, applied>>

Undone(tasks) == {i \in DOMAIN tasks : ~tasks[i].done}

RevisionInit == /\ base \in Plans
        /\ proposal \in Proposed(base)
        /\ running \in {0} \union Undone(base)
        /\ invalidated \in SUBSET DOMAIN base
        /\ current = base
        /\ generated = NoRevision
        /\ applied = NoRevision

Generate ==
    /\ generated = NoRevision
    /\ generated' = Reconcile(base, proposal, running, Pending(base), invalidated, 1)
    /\ UNCHANGED <<base, current, proposal, running, invalidated, applied>>

\* completeTask.  The first reconciliation reads the request's snapshot only, so
\* a completion before it is the same as one after it.
CompleteMeanwhile ==
    /\ generated # NoRevision
    /\ applied = NoRevision
    /\ \E i \in Undone(current) :
          current' = [current EXCEPT ![i] = [@ EXCEPT !.done = TRUE]]
    /\ running' \in {0, running} \intersect ({0} \union Undone(current'))
    /\ UNCHANGED <<base, proposal, invalidated, generated, applied>>

\* The explicit invalidations are not passed on to the second reconciliation.
ApplyGenerated ==
    /\ generated # NoRevision
    /\ applied = NoRevision
    /\ applied' = Reconcile(current, Target(generated.active, current), running,
                            Pending(current), {}, 1)
    /\ UNCHANGED <<base, current, proposal, running, invalidated, generated>>

RevisionNext == Generate \/ CompleteMeanwhile \/ ApplyGenerated

RevisionSpec == RevisionInit /\ [][RevisionNext]_revisionVars

-----------------------------------------------------------------------------
Markers(tasks) == {tasks[i].id : i \in DOMAIN tasks} \ {NoId}

\* The identities that a revision derives from text, for tasks without a marker and
\* for follow-ups, are nobody's marker.  A document that was revised before has such
\* identities for markers: a planner that drops the marker of a task which a revision
\* has inserted makes the code derive it again.
FreshIdentities(prev, rev, revision) ==
    /\ \A p \in Unmarked(prev) :
          Identity(prev, p, "legacy") \notin Markers(prev) \union Markers(rev)
    /\ \A r \in Unmarked(rev), n \in 1..Len(rev) :
          <<"inserted", Fingerprint(rev[r]), n>> \notin Markers(prev)
    /\ \A p \in DOMAIN prev :
          LET followUp(task) == FollowUpIdentity(Identity(prev, p, "legacy"), task, revision)
          IN  /\ \A q \in DOMAIN prev : followUp(prev[q]) \notin Markers(prev)
              /\ \A r \in DOMAIN rev : followUp(rev[r]) \notin Markers(prev)

\* Both reconciliations, with what they were given.
Reconciliations ==
    {r \in {[prev |-> base, rev |-> proposal, out |-> generated],
            [prev |-> current,
             rev  |-> IF generated = NoRevision THEN proposal
                      ELSE Target(generated.active, current),
             out  |-> applied]} : r.out # NoRevision}

\* A task of the new plan is complete only where it continues a completed task with
\* the same text, under its identity, and no two tasks continue the same one:
\* whatever the proposal claims, progress is neither invented nor doubled.
CompletionEarned ==
    \A r \in Reconciliations :
        LET complete == {i \in DOMAIN r.out.active : r.out.active[i].state = "completed"}
        IN  \A i \in complete :
                LET item == r.out.active[i]
                    p    == item.previous
                IN  /\ p \in DOMAIN r.prev
                    /\ r.prev[p].done
                    /\ Fingerprint(r.prev[p]) = Fingerprint(item)
                    /\ Identity(r.prev, p, "legacy") = item.identity
                    /\ \A j \in complete : r.out.active[j].previous = p => j = i

\* Completed work is never silently reopened or erased: it is complete in the
\* new plan, or kept as history while its identity names nothing else there.
HistoryKept ==
    FreshIdentities(base, proposal, 1) =>
    \A r \in Reconciliations : \A p \in DOMAIN r.prev :
        LET me    == Identity(r.prev, p, "legacy")
            named == {i \in DOMAIN r.out.active : r.out.active[i].identity = me}
        IN  r.prev[p].done =>
                \/ /\ Cardinality(named) = 1
                   /\ \A i \in named : r.out.active[i].state = "completed"
                   /\ \A t \in r.out.retired : t.previous # p
                \/ /\ named = {}
                   /\ \E t \in r.out.retired : t.previous = p /\ t.preserveOutputs

\* The running task stays the running task of the new plan with its text, or it
\* is reported stale; never both, never neither.
RunningKeptOrStale ==
    \A r \in Reconciliations :
        LET kept(p) == \E i \in DOMAIN r.out.active :
                /\ r.out.active[i].state = "running"
                /\ r.out.active[i].previous = p
                /\ Fingerprint(r.out.active[i]) = Fingerprint(r.prev[p])
        IN  \A p \in Undone(r.prev) \intersect {running} :
                r.out = applied \/ current = base => kept(p) # (p \in r.out.staleRunning)

\* Reconciling twice changes nothing: with no completion in between, the plan
\* that is installed is the plan that was generated and reported.  (For what the
\* coordinator does; it declares nothing invalid.)
AppliedAsGenerated ==
    applied # NoRevision /\ current = base /\ invalidated = {}
        /\ FreshIdentities(base, proposal, 1) =>
        Render(applied.active) = Render(generated.active)
=============================================================================
