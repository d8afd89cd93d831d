---------------------------- MODULE WorkerRecovery ----------------------------
(***************************************************************************)
(* The attempts of a run as src/src/coordinator.ts makes them: the scheduler *)
(* asks the owner of the worker session (module WorkerSessionOwner) to run   *)
(* an assignment, runWorkerAttemptWithNetworkRecovery repeats it while the   *)
(* network is down, a steering revision or the user may cancel it, and the   *)
(* owner is disposed at the end.                                             *)
(*                                                                           *)
(* `phase` is where the scheduler is suspended:                              *)
(*                                                                           *)
(*   between   at the loop's top                                             *)
(*   running   the first call of the attempt                                 *)
(*   noting    the evidence of its interruption is appended                  *)
(*   delaying  the delay before the next retry                               *)
(*   retrying  the retry's call                                              *)
(*   renoting  the evidence of its interruption is appended                  *)
(*   settling  the attempt's outcome is being settled (module Coordinator)   *)
(*   ending    the finally block awaits the owner's disposal                 *)
(*   ended                                                                   *)
(*                                                                           *)
(* In delaying, retrying and renoting the awaited promise is raced with the  *)
(* attempt's signal: a cancelled attempt leaves at once, and a call it was   *)
(* waiting for goes on without it.  The delays are those of module           *)
(* NetworkRecovery; here they end at any time.                               *)
(***************************************************************************)
EXTENDS WorkerSessionOwner

CONSTANTS NoCall,
          Level(_),      \* thinking level for attempt plus retry
          MaxAttempts,   \* attempts of one task
          MaxTasks,      \* bound on the tasks worked on, replacements included
          MaxRetries,    \* bound on the retries of one attempt
          MaxSteering    \* bound on the revisions that replace the active task

ASSUME RecoveryAssumption == NoCall \notin Calls

VARIABLES phase,
          work,     \* the attempt: task, number, identity, obsolete flag, retries
          awaited,  \* the call the scheduler waits for
          outcome,  \* what the attempt came to
          failure,  \* why the run failed, "none" if it did not
          aborted,  \* runtime.abortSignal
          steered   \* number of revisions that replaced an active task

attemptVars == <<phase, work, awaited, outcome, failure>>
vars == <<ownerVars, attemptVars, aborted, steered>>

Init ==
    /\ OwnerInit
    /\ phase = "between"
    /\ work = [task |-> 1, attempt |-> 1, identity |-> 0, obsolete |-> FALSE,
               retries |-> 0]
    /\ awaited = NoCall
    /\ outcome = "none"
    /\ failure = "none"
    /\ aborted = FALSE
    /\ steered = 0

Cancelled == aborted \/ work.obsolete

Raced == phase \in {"delaying", "retrying", "renoting"}

-----------------------------------------------------------------------------
(* The scheduler.                                                           *)
\* A call of the owner; `cancelled` is the state of the attempt's signal.
Call(w, next) ==
    \E c \in Calls :
        /\ call[c].pc = "idle"
        /\ \A d \in Calls : call[d].pc = "idle" => c <= d
        /\ Run(c, [task |-> w.task, attempt |-> w.attempt, identity |-> w.identity,
                   level |-> Level(w.attempt + w.retries), cancelled |-> Cancelled])
        /\ awaited' = c
        /\ phase' = next

Begin ==
    /\ phase = "between"
    /\ ~aborted
    /\ work.task <= MaxTasks
    /\ work' = [work EXCEPT !.identity = @ + 1]
    /\ Call(work', "running")
    /\ UNCHANGED <<outcome, failure, aborted, steered>>

Stop ==
    /\ phase = "between"
    /\ aborted \/ work.task > MaxTasks
    /\ phase' = "ending"
    /\ UNCHANGED <<ownerVars, work, awaited, outcome, failure, aborted, steered>>

\* The attempt comes to a result, and where the scheduler goes on.
Comes(result) ==
    /\ outcome' = result
    /\ phase' = "settling"
    /\ UNCHANGED failure

\* An error that escapes the attempt ends the run, unless its assignment became
\* obsolete: it then stands for an aborted outcome.
Throws(cause, obsolete) ==
    \/ obsolete /\ Comes("failed")
    \/ /\ ~obsolete
       /\ failure' = cause
       /\ phase' = "ending"
       /\ UNCHANGED outcome

Settle ==
    /\ phase = "settling"
    /\ work' = IF work.obsolete \/ outcome = "done"
               THEN [work EXCEPT !.task = @ + 1, !.attempt = 1,
                                 !.obsolete = FALSE, !.retries = 0]
               ELSE [work EXCEPT !.attempt = @ + 1, !.retries = 0]
    /\ outcome' = "none"
    /\ phase' = IF work'.attempt > MaxAttempts THEN "ending" ELSE "between"
    /\ UNCHANGED <<ownerVars, awaited, failure, aborted, steered>>

-----------------------------------------------------------------------------
(* runWorkerAttemptWithNetworkRecovery.                                     *)
\* workerFailureValue, classified.
Kind(r) == IF r.failure # "none" THEN r.failure
           ELSE IF r.aborted THEN "cancelled" ELSE "none"

Consume == /\ call' = [call EXCEPT ![awaited] = Idle]
           /\ awaited' = NoCall
           /\ UNCHANGED <<session, retained, active, closed, shutdown>>

\* A failure that fails fast or was thrown escapes; one of the network is noted
\* and retried; any other belongs to the outcome of an ordinary attempt.
Ran ==
    /\ phase = "running"
    /\ Consume
    /\ \/ /\ call[awaited].pc = "thrown"
          /\ Throws("busy", work.obsolete)
       \/ /\ call[awaited].pc = "returned"
          /\ \/ Kind(call[awaited]) = "fatal" /\ Throws("fatal", work.obsolete)
             \/ /\ Kind(call[awaited]) = "network"
                /\ phase' = "noting"
                /\ UNCHANGED <<outcome, failure>>
             \/ /\ Kind(call[awaited]) \notin {"fatal", "network"}
                /\ Comes(call[awaited].result)
    /\ UNCHANGED <<work, aborted, steered>>

\* The append succeeds or fails.
Noted ==
    /\ phase \in {"noting", "renoting"}
    /\ \/ /\ ~Cancelled
          /\ phase' = "delaying"
          /\ UNCHANGED <<outcome, failure>>
       \/ Cancelled /\ Throws("cancelled", work.obsolete)
       \/ Throws("write", work.obsolete)
    /\ UNCHANGED <<ownerVars, work, awaited, aborted, steered>>

Retry ==
    /\ phase = "delaying"
    /\ work.retries < MaxRetries
    /\ work' = [work EXCEPT !.retries = @ + 1]
    /\ Call(work', "retrying")
    /\ UNCHANGED <<outcome, failure, aborted, steered>>

\* The delay reaches the end of the longest outage allowed.
Expire ==
    /\ phase = "delaying"
    /\ Throws("expired", work.obsolete)
    /\ UNCHANGED <<ownerVars, work, awaited, aborted, steered>>

Retried ==
    /\ phase = "retrying"
    /\ call[awaited].pc = "returned"
    /\ Consume
    /\ \/ Kind(call[awaited]) = "fatal" /\ Throws("fatal", work.obsolete)
       \/ /\ Kind(call[awaited]) = "network"
          /\ phase' = "renoting"
          /\ UNCHANGED <<outcome, failure>>
       \/ /\ Kind(call[awaited]) \notin {"fatal", "network"}
          /\ Comes(call[awaited].result)
    /\ UNCHANGED <<work, aborted, steered>>

\* The outage's deadline aborts the retry and does not wait for it.
Deadline ==
    /\ phase = "retrying"
    /\ call[awaited].pc \notin {"returned", "thrown"}
    /\ call' = [call EXCEPT ![awaited] = Signalled(awaited)]
    /\ awaited' = NoCall
    /\ Throws("expired", work.obsolete)
    /\ UNCHANGED <<session, retained, active, closed, shutdown, work, aborted,
                   steered>>

-----------------------------------------------------------------------------
(* Cancellation.                                                            *)
\* A raced attempt leaves at once.
Leaves(obsolete) ==
    IF Raced THEN Throws("cancelled", obsolete) /\ awaited' = NoCall
    ELSE UNCHANGED <<phase, outcome, failure, awaited>>

\* An accepted revision replaces the active task: the assignment is flagged, its
\* signal fires, and the owner is told.
Replace ==
    /\ phase \in {"running", "noting", "delaying", "retrying", "renoting",
                  "settling"}
    /\ ~work.obsolete
    /\ steered < MaxSteering
    /\ steered' = steered + 1
    /\ work' = [work EXCEPT !.obsolete = TRUE]
    /\ Invalidate(work.identity)
    /\ Leaves(TRUE)
    /\ UNCHANGED aborted

Abort ==
    /\ phase \notin {"ending", "ended"}
    /\ ~aborted
    /\ aborted' = TRUE
    /\ call' = IF awaited # NoCall
               THEN [call EXCEPT ![awaited] = Signalled(awaited)] ELSE call
    /\ Leaves(work.obsolete)
    /\ UNCHANGED <<session, retained, active, closed, shutdown, work, steered>>

\* A call nobody waits for any more ends.
Forgotten ==
    /\ \E c \in Calls \ {awaited} :
          /\ call[c].pc = "returned"
          /\ call' = [call EXCEPT ![c] = Idle]
    /\ UNCHANGED <<session, retained, active, closed, shutdown, attemptVars,
                   aborted, steered>>

End ==
    /\ phase = "ending"
    /\ \/ Shutdown /\ UNCHANGED phase
       \/ ShutdownEnds /\ UNCHANGED phase
       \/ shutdown = "disposed" /\ phase' = "ended" /\ UNCHANGED ownerVars
    /\ UNCHANGED <<work, awaited, outcome, failure, aborted, steered>>

Worker ==
    /\ \E c \in Calls : OwnerStep(c)
    /\ UNCHANGED <<attemptVars, aborted, steered>>

Next ==
    \/ Begin
    \/ Stop
    \/ Settle
    \/ Ran
    \/ Noted
    \/ Retry
    \/ Expire
    \/ Retried
    \/ Deadline
    \/ Replace
    \/ Abort
    \/ Forgotten
    \/ End
    \/ Worker

Spec == Init /\ [][Next]_vars

-----------------------------------------------------------------------------
(* Fairness: "not for ever ready without moving".                           *)
Moved(c) == call'[c].pc # call[c].pc

\* A timer that is set fires, unless it is cleared.
TimerFires(c) ==
    /\ LimitFires(c) \/ GraceFires(c)
    /\ UNCHANGED <<retained, active, closed, shutdown, attemptVars, aborted, steered>>

\* Promises other than the prompt settle.
CallsGoOn ==
    \A c \in Calls :
        /\ WF_vars(TimerFires(c))
        /\ \/ []<>(call[c].pc \notin {"creating", "starting", "closing", "measuring",
                                     "returned", "thrown"})
           \/ []<><<Moved(c)>>_vars

SchedulerGoesOn ==
    \/ []<>(\/ phase = "ended"
            \/ /\ phase \in {"running", "retrying"}
               /\ call[awaited].pc \notin {"returned", "thrown"}
            \/ phase = "ending" /\ shutdown = "waiting" /\ active # NoActive)
    \/ []<><<phase' # phase \/ shutdown' # shutdown>>_vars

Fairness == CallsGoOn /\ SchedulerGoesOn

\* In addition, a session whose time limit has passed over a complete result
\* does end its prompt.
SessionsEnd ==
    \A c \in Calls :
        \/ []<>~(call[c].pc = "prompting" /\ call[c].timers = {}
                                          /\ ~call[c].timedOut)
        \/ []<><<Moved(c)>>_vars

FairSpec == Spec /\ Fairness /\ SessionsEnd

\* When the run returns no session is open and no call is under way, even one
\* that the scheduler had left behind; and one that it leaves behind earlier has
\* been told to stop.
NothingLeftBehind ==
    /\ phase = "ended" =>
          /\ \A s \in Sessions : ~session[s].open
          /\ \A c \in Calls : ~Working(c)
    /\ \A c \in Calls : Working(c) /\ c # awaited => call[c].signal

\* Guidance never ends the run: it replaces work, and the scheduler goes on
\* with the revised task (README: "The scheduler then runs the revised task").
SteeringKeepsRun == failure # "busy"

\* Every run comes to its end.
RunEnds == <>(phase = "ended")
=============================================================================
