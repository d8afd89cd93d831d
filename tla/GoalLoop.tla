-------------------------------- MODULE GoalLoop --------------------------------
(***************************************************************************)
(* The state of a goal run and the functions of src/src/goal_loop.ts that    *)
(* take one state to the next.  A state is the record kept in                *)
(* GOAL_STATE.json:                                                          *)
(*                                                                           *)
(*   status, phase            the loop's                                     *)
(*   min, max                 its limits, normalised                         *)
(*   iterations               the statuses of its iterations, in order       *)
(*   deadline, iterationEnds  of the loop and of the current iteration       *)
(*   trace                    the events so far                              *)
(*                                                                           *)
(* The current iteration is the last one.  The code's `cancellation` is set  *)
(* exactly when the status is "cancelled".  Updating a loop that has ended,  *)
(* or an iteration that is elsewhere, throws: `Updatable` says when.         *)
(***************************************************************************)
EXTENDS Integers, Sequences, SequencesExt

CONSTANTS Timeout, IterationTimeout,  \* limits.timeoutMs, limits.iterationTimeoutMs
          DefaultMaxIterations        \* DEFAULT_GOAL_LOOP_LIMITS.maxIterations

ASSUME GoalLoopAssumption ==
    {Timeout, IterationTimeout, DefaultMaxIterations} \subseteq Nat \ {0}

DefaultMinIterations == 1

Terminal(s) == s.status # "running"

\* isTerminalIterationStatus.
Settled(iteration) ==
    iteration \in {"reviewed_complete", "blocked", "failed", "cancelled"}

Current(s) == IF s.iterations = <<>> THEN "none" ELSE Last(s.iterations)

WithCurrent(s, status) ==
    IF s.iterations = <<>> THEN s.iterations
    ELSE Append(Front(s.iterations), status)

Traced(s, phase, event) ==
    [s EXCEPT !.phase = phase, !.trace = Append(@, event)]

Ended(s, status, phase, event) ==
    Traced([s EXCEPT !.status = status], phase, event)

\* The current iteration shares the end of its loop unless it had its own.
Closed(s, status) ==
    [s EXCEPT !.iterations = IF Settled(Current(s)) THEN @
                             ELSE WithCurrent(s, status)]

-----------------------------------------------------------------------------
(* Limits; 0 stands for a value that is not given.                          *)
Limits(min, max) ==
    LET least == IF min > 0 THEN min
                 ELSE IF max > 0 THEN max ELSE DefaultMinIterations
        most == IF max > 0 THEN max ELSE DefaultMaxIterations
    IN  [min |-> least, max |-> IF most < least THEN least ELSE most]

New(min, max, now) ==
    [status |-> "running", phase |-> "goal_received",
     min |-> Limits(min, max).min, max |-> Limits(min, max).max,
     iterations |-> <<>>, deadline |-> now + Timeout, iterationEnds |-> now,
     trace |-> <<"goal_received">>]

\* validateGoalLoopState.
Loaded(s) ==
    [s EXCEPT !.min = Limits(s.min, s.max).min, !.max = Limits(s.min, s.max).max]

StopReason(s, now, aborted) ==
    IF Terminal(s) THEN "complete"
    ELSE IF aborted THEN "cancelled"
    ELSE IF now >= s.deadline THEN "timeout"
    ELSE IF s.phase = "reviewed" /\ Len(s.iterations) >= s.max
    THEN "max_iterations" ELSE "none"

Cancel(s) == Ended(Closed(s, "cancelled"), "cancelled", "cancelled", "cancelled")

\* failGoalLoop, as "failed" or "partial".
Fail(s, status) ==
    IF Terminal(s) THEN s
    ELSE IF status = "partial"
    THEN Ended(Closed(s, "failed"), "partial", "complete", "timeout")
    ELSE Ended(Closed(s, "failed"), "failed", "failed", "failed")

\* completeStateForStopReason: the iterations stay as they are, except when
\* cancelled.
StopFor(s, reason) ==
    CASE reason = "complete" -> s
      [] reason = "cancelled" -> Cancel(s)
      [] reason = "timeout" -> Ended(s, "partial", "complete", "timeout")
      [] reason = "max_iterations" -> Ended(s, "failed", "failed", reason)

CanStart(s) == s.phase \in {"goal_received", "reviewed"}

StartIteration(s, now, aborted) ==
    LET reason == StopReason(s, now, aborted)
    IN  IF reason # "none" THEN StopFor(s, reason)
        ELSE Traced([s EXCEPT !.iterations = Append(@, "pending"),
                              !.iterationEnds = now + IterationTimeout],
                    "goal_received", "iteration_started")

-----------------------------------------------------------------------------
(* What the phases record.                                                  *)
\* updateIteration goes on, rather than throw.
Updatable(s, allowed) == ~Terminal(s) /\ Current(s) \in allowed

Reviewable == {"todo_executed", "failed"}

GeneratedTodo(s) ==
    Traced([s EXCEPT !.iterations = WithCurrent(s, "todo_generated")],
           "todo_generated", "todo_generated")

WorkerResult(s, outcome) ==
    LET status == IF outcome = "failed" THEN "failed" ELSE "todo_executed"
    IN  Traced([s EXCEPT !.iterations = WithCurrent(s, status)],
               "todo_executed", "todo_executed")

\* Mutant: the loop may end as soon as one iteration less was made.
Enforced_OneShort(s, decision) ==
    IF decision = "complete" /\ Len(s.iterations) + 1 < s.min THEN "incomplete"
    ELSE decision

\* enforceMinimumIterationsBeforeCompletion.
Enforced(s, decision) ==
    IF decision = "complete" /\ Len(s.iterations) < s.min THEN "incomplete"
    ELSE decision

\* Mutant: the phase says only that there was a review.
ReviewerResult_Reviewed(s, decision) ==
    LET reviewed(item) == [s EXCEPT !.iterations = WithCurrent(s, item)]
        ended(item, status) == Ended(reviewed(item), status, "reviewed", "reviewed")
    IN  CASE decision = "complete" -> ended("reviewed_complete", "done")
          [] decision = "blocked" -> ended("blocked", "blocked")
          [] decision = "failed" -> ended("failed", "failed")
          [] decision = "incomplete" ->
                Traced(reviewed("reviewed_incomplete"), "reviewed", "reviewed")

\* Every decision but "incomplete" ends the loop.
ReviewerResult(s, decision) ==
    LET reviewed(item) == [s EXCEPT !.iterations = WithCurrent(s, item)]
        ended(item, status) == Ended(reviewed(item), status, "complete", "reviewed")
    IN  CASE decision = "complete" -> ended("reviewed_complete", "done")
          [] decision = "blocked" -> ended("blocked", "blocked")
          [] decision = "failed" -> ended("failed", "failed")
          [] decision = "incomplete" ->
                Traced(reviewed("reviewed_incomplete"), "reviewed", "reviewed")

\* recordReviewerRecoveryEvidence.
Interrupted(s) == Traced(s, s.phase, "reviewer_network_interrupted")

\* excludeNetworkOutageFromGoalDeadlines.
Excluded(s, outage) ==
    IF outage = 0 \/ Terminal(s) THEN s
    ELSE Traced([s EXCEPT !.deadline = @ + outage, !.iterationEnds = @ + outage],
                s.phase, "network_wait_excluded")

-----------------------------------------------------------------------------
(* What every state of a goal run should be: its parts tell the same story.  *)
Events(s, event) == Cardinality({i \in DOMAIN s.trace : s.trace[i] = event})

PhaseOf(iteration) ==
    CASE iteration \in {"none", "pending"} -> "goal_received"
      [] iteration = "todo_generated" -> "todo_generated"
      [] iteration \in Reviewable -> "todo_executed"
      [] iteration = "reviewed_incomplete" -> "reviewed"
      [] OTHER -> "none"

\* Each phase of each iteration is recorded once, in order.
Counted(s) ==
    /\ Len(s.iterations) = Events(s, "iteration_started")
    /\ Events(s, "todo_executed") <= Events(s, "todo_generated")
    /\ Events(s, "todo_generated") <= Len(s.iterations)
    /\ Events(s, "reviewed") <= Events(s, "todo_executed")

\* The status, the phase and the current iteration agree.
Agrees(s) ==
    CASE s.status = "running" -> s.phase = PhaseOf(Current(s))
      [] s.status = "done" -> s.phase = "complete" /\ Current(s) = "reviewed_complete"
      [] s.status = "blocked" -> s.phase = "complete" /\ Current(s) = "blocked"
      [] s.status = "partial" -> s.phase = "complete" /\ Current(s) # "reviewed_complete"
      [] s.status = "failed" -> s.phase \in {"failed", "complete"}
      [] s.status = "cancelled" ->
            /\ s.phase = "cancelled"
            /\ Settled(Current(s)) \/ Current(s) = "none"

Consistent(s) ==
    /\ s.min \in 1 .. s.max
    /\ \A i \in DOMAIN s.iterations :
          i < Len(s.iterations) => s.iterations[i] = "reviewed_incomplete"
    /\ Counted(s)
    /\ Agrees(s)
=============================================================================
