----------------------------- MODULE SessionGuard -----------------------------
(***************************************************************************)
(* runGuardedSessionPrompt of src/src/session_guard.ts: one prompt with a    *)
(* time limit, a grace period and the caller's signal, each of which may end *)
(* it before, after or instead of the session.                               *)
(*                                                                           *)
(* The caller goes on in the turn in which the prompt is given up or         *)
(* settles, so the transitions are functions from the state of a guard to    *)
(* the next one; `running` is FALSE once its caller has the result.          *)
(***************************************************************************)
EXTENDS Integers

CONSTANT Limit  \* options.timeoutMs, in ticks

NoPrompt ==
    [running |-> FALSE, timer |-> "none", left |-> 0, settled |-> FALSE,
     failure |-> "none", timedOut |-> FALSE, graceExpired |-> FALSE,
     cancelled |-> FALSE]

\* The finally block clears the timers and removes the listener.
Finished(g) == [g EXCEPT !.running = FALSE, !.timer = "none", !.left = 0]

\* A prompt whose signal has fired is not sent.
Prompted(signal) ==
    IF signal THEN [NoPrompt EXCEPT !.cancelled = TRUE]
    ELSE [NoPrompt EXCEPT !.running = TRUE, !.timer = "limit", !.left = Limit]

Settled(g, failure) == Finished([g EXCEPT !.settled = TRUE, !.failure = failure])

Cancelled(g) == Finished([g EXCEPT !.cancelled = TRUE])

HardAborted(g) == Finished([g EXCEPT !.graceExpired = TRUE])

\* Mutant: only the end of a grace period aborts the session.
LimitPassed_GraceOnly(g, grace) ==
    [g EXCEPT !.timedOut = TRUE, !.timer = IF grace = 0 THEN "none" ELSE "grace",
              !.left = grace]

\* triggerTimeout: a grace period of 0 is none.
LimitPassed(g, grace) ==
    LET late == [g EXCEPT !.timedOut = TRUE]
    IN  IF grace = 0 THEN HardAborted(late)
        ELSE [late EXCEPT !.timer = "grace", !.left = grace]

Due(g) == g.timer # "none" /\ g.left <= 0

Fired(g, grace) ==
    IF g.timer = "limit" THEN LimitPassed(g, grace) ELSE HardAborted(g)

CompletedDuringGrace(g) ==
    /\ g.timedOut
    /\ g.settled
    /\ ~g.graceExpired
    /\ ~g.cancelled
    /\ g.failure = "none"
=============================================================================
