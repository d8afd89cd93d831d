-------------------------- MODULE WorkerSessionOwner --------------------------
(***************************************************************************)
(* CoordinatorWorkerSessionOwner of src/src/coordinator.ts with the policy  *)
(* of src/src/worker_reuse_policy.ts: the one retained worker session of a  *)
(* run and the lock that lets one assignment use it.                        *)
(*                                                                         *)
(* Disposing a session is synchronous, so `run` is suspended only while a   *)
(* session is created ("creating"), in the assignment (the phases of module *)
(* WorkerAssignment) and while the context usage is measured ("measuring"). *)
(* The code between two of these awaits is one action.                      *)
(***************************************************************************)
EXTENDS WorkerAssignment

CONSTANT NoActive

ASSUME OwnerAssumption == NoActive \notin Calls /\ NoSession \notin Sessions

VARIABLES retained,  \* the field `retained`
          active,    \* the call that holds the assignment lock
          closed,    \* the field `closed`
          shutdown   \* dispose(): "open", "waiting" for the active call, "disposed"

\* No session is retained.
NoRetained == [session |-> NoSession]

ownerVars == <<session, call, retained, active, closed, shutdown>>

OwnerInit ==
    /\ session = [s \in Sessions |-> Unborn]
    /\ call = [c \in Calls |-> Idle]
    /\ retained = NoRetained
    /\ active = NoActive
    /\ closed = FALSE
    /\ shutdown = "open"

-----------------------------------------------------------------------------
(* Reuse.                                                                   *)
\* assignmentMatchesRetainedScope: partial work continues only in the next
\* attempt of the same task.
ScopeMatches(job) ==
    retained.partial => /\ job.task = retained.job.task
                        /\ job.attempt = retained.job.attempt + 1

\* applyAdaptiveRetryThinking: such a continuation may change the level, in the
\* session as well as in its fingerprint.
LevelOf(job) == IF retained.partial THEN job.level ELSE retained.level

\* What the measured context usage of a session may mean: fit for reuse, or not.
Usages == BOOLEAN

\* decideWorkerSessionReuse for an idle candidate of this run: its level is what
\* its fingerprint can differ in, and `usable` says that its context usage is
\* known, valid and below the threshold.
Reusable(healthy, usable, level, job) ==
    /\ healthy
    /\ usable
    /\ level = job.level

Reuses(job) ==
    /\ retained # NoRetained
    /\ ScopeMatches(job)
    /\ Reusable(retained.healthy, retained.usable, LevelOf(job), job)

Levelled(level) == [session EXCEPT ![retained.session].level = level]

\* disposeRetainedResource, once for every session.
Disposed(s) == [session EXCEPT ![s] = Unborn]

-----------------------------------------------------------------------------
(* run and runExclusive.                                                    *)
\* Mutant: a second assignment is let in.
Busy_Ignored == FALSE

Busy == active # NoActive

Run(c, job) ==
    /\ call[c].pc = "idle"
    /\ \/ /\ closed \/ Busy
          /\ call' = [call EXCEPT ![c] = Begun(job, "thrown")]
          /\ UNCHANGED <<session, retained, active>>
       \/ /\ ~closed
          /\ ~Busy
          /\ active' = c
          /\ \/ /\ Reuses(job)
                /\ call' = [call EXCEPT ![c] =
                      Entered(Begun(job, "creating"), retained.session, FALSE)]
                /\ session' = Levelled(LevelOf(job))
                /\ retained' = [retained EXCEPT !.level = LevelOf(job)]
             \/ /\ ~Reuses(job)
                /\ call' = [call EXCEPT ![c] = Begun(job, "creating")]
                /\ session' = IF retained = NoRetained THEN session
                              ELSE Disposed(retained.session)
                /\ retained' = NoRetained
    /\ UNCHANGED <<closed, shutdown>>

\* The factory's session becomes the retained one and the assignment enters it,
\* also when the call was cancelled meanwhile.
Created(c) ==
    /\ call[c].pc = "creating"
    /\ \E s \in Sessions :
          /\ ~session[s].open
          /\ \A t \in Sessions : ~session[t].open => s <= t
          /\ session' = [session EXCEPT ![s] =
                            [Unborn EXCEPT !.open = TRUE,
                                           !.level = call[c].job.level]]
          /\ retained' = [session |-> s, healthy |-> TRUE, usable |-> FALSE,
                          partial |-> FALSE, level |-> call[c].job.level,
                          job |-> call[c].job]
          /\ call' = [call EXCEPT ![c] = Entered(@, s, TRUE)]
    /\ UNCHANGED <<active, closed, shutdown>>

\* The end of run: the lock is released.
Released(c) ==
    /\ active' = IF active = c THEN NoActive ELSE active
    /\ UNCHANGED <<closed, shutdown>>

CreationFails(c, f) ==
    /\ call[c].pc = "creating"
    /\ call' = [call EXCEPT ![c].pc = "returned", ![c].failure = f,
                            ![c].result = "failed"]
    /\ Released(c)
    /\ UNCHANGED <<session, retained>>

\* The assignment returns its outcome; its health is noted before the owner
\* asks for the context usage.
Measure(c) ==
    /\ call[c].pc = "closing"
    /\ call' = [call EXCEPT ![c] = Outcome(@)]
    /\ retained' = [retained EXCEPT !.healthy = Healthy(call[c])]
    /\ UNCHANGED <<session, active, closed, shutdown>>

\* Mutant: an attempt that failed keeps its session.
Keeps_Failed(c, usable) ==
    /\ ~call[c].tainted
    /\ Reusable(retained.healthy, usable, retained.level, call[c].job)

\* The session stays for the next task after a completed one, or for the next
\* attempt after explicit partial work, if it is still fit for use.
Keeps(c, usable) ==
    /\ ~call[c].tainted
    /\ Reusable(retained.healthy, usable, retained.level, call[c].job)
    /\ call[c].result \in {"done", "partial"}

Return(c, usable) ==
    /\ call[c].pc = "measuring"
    /\ call' = [call EXCEPT ![c].pc = "returned", ![c].session = NoSession,
                            ![c].signal = FALSE, ![c].tainted = FALSE]
    /\ \/ /\ Keeps(c, usable)
          /\ retained' = [retained EXCEPT !.usable = usable, !.job = call[c].job,
                             !.partial = call[c].result = "partial"]
          /\ session' = [session EXCEPT ![call[c].session].served =
                            [result |-> call[c].result, task |-> call[c].job.task,
                             attempt |-> call[c].job.attempt]]
       \/ /\ ~Keeps(c, usable)
          /\ retained' = NoRetained
          /\ session' = Disposed(call[c].session)
    /\ Released(c)

-----------------------------------------------------------------------------
(* invalidateAssignment and dispose.                                        *)
\* taintActiveAssignment and the abort of its controller.
Tainted(c) == [Signalled(c) EXCEPT !.tainted = TRUE]

Sickened(c) ==
    IF retained # NoRetained /\ retained.session = call[c].session
    THEN [retained EXCEPT !.healthy = FALSE] ELSE retained

IsActive(identity) == active # NoActive /\ call[active].job.identity = identity

\* The identity names the active assignment, the one whose session is retained,
\* or neither any more.
Invalidate(identity) ==
    /\ \/ /\ IsActive(identity)
          /\ call' = [call EXCEPT ![active] = Tainted(active)]
          /\ retained' = Sickened(active)
          /\ UNCHANGED session
       \/ /\ ~IsActive(identity)
          /\ retained # NoRetained
          /\ retained.job.identity = identity
          /\ session' = Disposed(retained.session)
          /\ retained' = NoRetained
          /\ UNCHANGED call
       \/ /\ ~IsActive(identity)
          /\ retained # NoRetained => retained.job.identity # identity
          /\ UNCHANGED <<call, session, retained>>
    /\ UNCHANGED <<active, closed, shutdown>>

DisposeRetained ==
    /\ session' = IF retained = NoRetained THEN session
                  ELSE Disposed(retained.session)
    /\ retained' = NoRetained
    /\ shutdown' = "disposed"

\* Mutant: the active assignment is not awaited.
Shutdown_NoWait ==
    /\ ~closed
    /\ closed' = TRUE
    /\ DisposeRetained
    /\ UNCHANGED <<active, call>>

\* dispose: no further assignment is accepted; an active one is aborted and its
\* completion awaited before the retained session is disposed.
Shutdown ==
    /\ ~closed
    /\ closed' = TRUE
    /\ \/ /\ active = NoActive
          /\ DisposeRetained
          /\ UNCHANGED call
       \/ /\ active # NoActive
          /\ call' = [call EXCEPT ![active] = Tainted(active)]
          /\ retained' = Sickened(active)
          /\ shutdown' = "waiting"
          /\ UNCHANGED session
    /\ UNCHANGED active

ShutdownEnds ==
    /\ shutdown = "waiting"
    /\ active = NoActive
    /\ DisposeRetained
    /\ UNCHANGED <<call, active, closed>>

Assign(c) ==
    /\ AssignmentStep(c)
    /\ UNCHANGED <<retained, active, closed, shutdown>>

OwnerStep(c) ==
    \/ Assign(c)
    \/ Created(c)
    \/ \E f \in Failures : CreationFails(c, f)
    \/ Measure(c)
    \/ \E usable \in Usages : Return(c, usable)

-----------------------------------------------------------------------------
(* Properties.                                                              *)
InSession == {"starting", "prompting", "closing", "measuring"}

Working(c) == call[c].pc \in InSession \union {"creating"}

\* Two assignments never run at the same time, also when the scheduler has stopped
\* waiting for the first one; no session is lost, whichever way it was given up, and
\* none is disposed or replaced under the assignment that uses it.
ExclusiveSession ==
    /\ \A c, d \in Calls : Working(c) /\ Working(d) => c = d
    /\ Cardinality({s \in Sessions : session[s].open}) <= 1
    /\ \A c \in Calls : call[c].pc \in InSession =>
          /\ retained # NoRetained
          /\ retained.session = call[c].session
          /\ session[call[c].session].open

\* A session takes a second assignment only after it completed the first one, or
\* with the next attempt at a task it reported partial work on (README: "all
\* independent retries ... start fresh"), and then at the thinking level that was
\* chosen for that assignment.
OnlyHealthyContinuation ==
    \A c \in Calls :
        call[c].pc \in InSession /\ ~call[c].fresh =>
            LET used == session[call[c].session]
            IN  /\ used.level = call[c].job.level
                /\ \/ used.served.result = "done"
                   \/ /\ used.served.result = "partial"
                      /\ used.served.task = call[c].job.task
                      /\ used.served.attempt + 1 = call[c].job.attempt

\* A result that completes a task was given to this very assignment, not to an
\* earlier one of the same session.
ResultIsOwn ==
    \A c \in Calls :
        call[c].pc = "measuring" /\ call[c].result = "done" =>
            session[call[c].session].said =
                [by |-> call[c].job.identity, status |-> "done"]
=============================================================================
