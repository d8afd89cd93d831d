----------------------------- MODULE PlannerRequest -----------------------------
(***************************************************************************)
(* One request to the planner of src/src/coordinator.ts:                     *)
(* runPlannerOperationWithNetworkRecovery, which calls runTodoPlanner once   *)
(* and, while the network is down, again (module NetworkRecovery).  A run    *)
(* has a session of its own, one guarded prompt (module SessionGuard) and at *)
(* most one more to repair an invalid plan.  `run.pc` is where it waits:     *)
(*                                                                           *)
(*   none  creating  prompting  disposing                                    *)
(*                                                                           *)
(* The request waits for its first run; a retry is raced with the outage's   *)
(* deadline and the caller's signal, so a run may go on that nobody waits    *)
(* for.  Sessions are external: they may say anything while prompted, and    *)
(* their prompt may settle at any time or never.                             *)
(***************************************************************************)
EXTENDS SessionGuard, NetworkRecovery

CONSTANTS Graces,    \* grace periods to consider
          Failures,  \* what a session factory or a prompt may reject with
          MaxLate    \* bound on how late a timer fires

\* What the request says itself is no rejection of a factory or a prompt.
ASSUME RequestAssumption ==
    /\ Limit \in Nat
    /\ Graces \subseteq Nat
    /\ Failures \intersect {"none", "plan", "expired", "cancelled"} = {}

VARIABLES config,   \* the grace period, and whether outages are limited
          run,      \* the run of runTodoPlanner
          guard,    \* its prompt
          open,     \* number of sessions created and not disposed
          aborted,  \* the caller's signal
          notes,    \* kinds of the planner diagnostics recorded
          result    \* "none", "plan" or what the request was rejected with

vars == <<config, run, guard, open, aborted, notes, result, recovery, events>>

\* `text` is what the session said last, `prompt` counts its prompts, `signal` is
\* the caller's signal combined with the deadline's, `awaited` says whether the
\* request still waits.
Creating(signal) ==
    [pc |-> "creating", prompt |-> 0, text |-> "none", signal |-> signal,
     awaited |-> TRUE, outcome |-> "none"]

NoRun == [pc |-> "none"]

Init ==
    /\ RecoveryInit
    /\ config \in [grace : Graces, limited : BOOLEAN]
    /\ run = Creating(FALSE)
    /\ guard = NoPrompt
    /\ open = 0
    /\ aborted = FALSE
    /\ notes = {}
    /\ result = "none"

-----------------------------------------------------------------------------
(* How the request goes on.                                                 *)
Answers(what) == result' = what

Pending == UNCHANGED result

\* An outcome in the eyes of the recovery.
Class(outcome) == CASE outcome = "plan" -> "value"
                    [] outcome = "network" -> "recoverable"
                    [] OTHER -> "terminal"

\* A recovery that failed is recorded unless a diagnostic of the retry says why.
Reported(noted) ==
    IF noted \intersect {"timeout", "cancelled", "network_failure"} # {} THEN noted
    ELSE noted \union {"network_failure"}

\* The first run settles.
FirstSettles(outcome, noted) ==
    \/ /\ outcome = "plan"
       /\ Answers("plan")
       /\ notes' = noted
       /\ UNCHANGED <<recovery, events>>
    \/ /\ outcome # "plan"
       /\ aborted \/ outcome = "abort"
       /\ Answers("cancelled")
       /\ notes' = noted \union {"cancelled"}
       /\ UNCHANGED <<recovery, events>>
    \/ /\ ~aborted
       /\ outcome = "network"
       /\ Pending
       /\ notes' = noted
       /\ Schedule(config.limited)
    \/ /\ ~aborted
       /\ outcome \notin {"plan", "network", "abort"}
       /\ Answers(outcome)
       /\ notes' = noted
       /\ UNCHANGED <<recovery, events>>

\* A retry settles; its failure is the request's unless it is one of the network.
RetryEnds(outcome, noted) ==
    /\ RetrySettles(config.limited, Class(outcome))
    /\ \/ recovery'.phase # "over" /\ Pending /\ notes' = noted
       \/ /\ recovery'.phase = "over"
          /\ Answers(IF outcome = "network" THEN "expired" ELSE outcome)
          /\ notes' = IF outcome = "plan" THEN noted ELSE Reported(noted)

\* The run is over and whoever waits for it goes on.
RunEnds(outcome, noted) ==
    /\ run' = NoRun
    /\ \/ /\ ~run.awaited
          /\ notes' = noted
          /\ UNCHANGED <<result, recovery, events>>
       \/ /\ run.awaited
          /\ recovery.phase = "off"
          /\ FirstSettles(outcome, noted)
       \/ /\ run.awaited
          /\ recovery.phase = "retrying"
          /\ RetryEnds(outcome, noted)

-----------------------------------------------------------------------------
(* runTodoPlanner.                                                          *)
Unchanged == UNCHANGED <<config, aborted>>

RequestUnchanged == UNCHANGED <<result, recovery, events>>

\* The run knows its outcome and disposes the session.
Disposing(r, outcome) == [r EXCEPT !.pc = "disposing", !.outcome = outcome]

\* Mutant: whatever valid plan the session has said is taken.
Safe_Said(g, text) == text = "plan"

\* Output of a prompt that ran out of time counts if the session finished it
\* within the grace period and it is a complete plan.
Safe(g, text) == CompletedDuringGrace(g) /\ text = "plan"

\* runTodoPlannerPrompt, when the guard gives its result: cancellation comes
\* first, then the timeout.
Ending(g, text) ==
    IF g.cancelled THEN "stopped"
    ELSE IF g.timedOut /\ ~Safe(g, text) THEN "timeout"
    ELSE IF g.failure # "none" THEN g.failure
    ELSE IF text = "plan" THEN "plan" ELSE "invalid"

Note(ending) == CASE ending = "stopped" -> {"cancelled"}
                  [] ending = "timeout" -> {"timeout"}
                  [] ending = "plan" -> {}
                  [] OTHER -> {"failure"}

\* extractTodoMarkdownWithOneRepair: the next state of the run and its guard, and
\* the diagnostic.
After(r, g) ==
    LET ending == Ending(g, r.text)
    IN  IF g.running THEN [run |-> r, guard |-> g, note |-> {}]
        ELSE IF ending = "invalid" /\ r.text = "invalid" /\ r.prompt = 1
        THEN [run |-> [r EXCEPT !.prompt = 2], guard |-> Prompted(r.signal),
              note |-> {}]
        ELSE [run |-> Disposing(r, ending), guard |-> g, note |-> Note(ending)]

Goes(r, g) ==
    LET next == After(r, g)
    IN  /\ run' = next.run
        /\ guard' = next.guard
        /\ notes' = notes \union next.note

Created ==
    /\ run.pc = "creating"
    /\ open' = open + 1
    /\ Goes([run EXCEPT !.pc = "prompting", !.prompt = 1], Prompted(run.signal))
    /\ Unchanged
    /\ RequestUnchanged

\* A factory that rejects leaves nothing to dispose.
CreationFails ==
    /\ run.pc = "creating"
    /\ \E f \in Failures : RunEnds(f, notes)
    /\ UNCHANGED <<guard, open>>
    /\ Unchanged

Says(text) ==
    /\ run.pc = "prompting"
    /\ run.text # text
    /\ run' = [run EXCEPT !.text = text]
    /\ UNCHANGED <<guard, open, notes>>
    /\ Unchanged
    /\ RequestUnchanged

PromptSettles ==
    /\ run.pc = "prompting"
    /\ \E f \in Failures \union {"none"} : Goes(run, Settled(guard, f))
    /\ UNCHANGED open
    /\ Unchanged
    /\ RequestUnchanged

PromptTimer ==
    /\ run.pc = "prompting"
    /\ Due(guard)
    /\ Goes(run, Fired(guard, config.grace))
    /\ UNCHANGED open
    /\ Unchanged
    /\ RequestUnchanged

\* The session is disposed; a failure to do so costs the plan.
Disposed ==
    /\ run.pc = "disposing"
    /\ open' = open - 1
    /\ \/ RunEnds(run.outcome, notes)
       \/ run.outcome = "plan" /\ RunEnds("dispose", notes)
    /\ UNCHANGED guard
    /\ Unchanged

-----------------------------------------------------------------------------
(* Recovery, cancellation and time.                                         *)
\* The run's signal fires; `awaited` says whether the request goes on waiting.
Told(awaited) ==
    LET told == [run EXCEPT !.signal = TRUE, !.awaited = @ /\ awaited]
    IN  CASE run.pc = "none" -> [run |-> run, guard |-> guard, note |-> {}]
          [] run.pc = "prompting" -> After(told, Cancelled(guard))
          [] OTHER -> [run |-> told, guard |-> guard, note |-> {}]

DelayEnds ==
    /\ WaitOver
    /\ \/ /\ MayRetry(config.limited)
          /\ StartRetry
          /\ run' = Creating(FALSE)
          /\ UNCHANGED <<notes, result>>
       \/ /\ ~MayRetry(config.limited)
          /\ Over("outage_expired")
          /\ Answers("expired")
          /\ notes' = Reported(notes)
          /\ UNCHANGED run
    /\ UNCHANGED <<guard, open>>
    /\ Unchanged

\* The deadline aborts the retry, whose prompt is given up, and noted, before the
\* request is rejected.
Deadline ==
    /\ DeadlineDue(config.limited)
    /\ LET next == Told(FALSE)
       IN  /\ run' = next.run
           /\ guard' = next.guard
           /\ notes' = Reported(notes \union next.note)
    /\ Over("outage_expired")
    /\ Answers("expired")
    /\ UNCHANGED open
    /\ Unchanged

\* The caller's signal: a first run is told and waited for, a recovery is left.
CallerAborts ==
    /\ result = "none"
    /\ ~aborted
    /\ aborted' = TRUE
    /\ LET next == Told(~Recovering)
       IN  /\ run' = next.run
           /\ guard' = next.guard
           /\ \/ /\ Recovering
                 /\ Over("cancelled")
                 /\ Answers("cancelled")
                 /\ notes' = notes \union next.note \union {"cancelled"}
              \/ /\ ~Recovering
                 /\ notes' = notes \union next.note
                 /\ RequestUnchanged
    /\ UNCHANGED <<open, config>>

Delaying == recovery.phase \in {"waiting", "expiring"}

Clocked == config.limited /\ Recovering

\* Time passes; a timer that is due fires at most MaxLate ticks late.
Tick ==
    /\ guard.timer # "none" \/ Delaying \/ Clocked
    /\ guard.timer # "none" => guard.left > -MaxLate
    /\ Delaying => recovery.left > -MaxLate
    /\ DeadlineDue(config.limited) => recovery.elapsed < MaxOutage + MaxLate
    /\ guard' = [guard EXCEPT !.left = IF guard.timer = "none" THEN @ ELSE @ - 1]
    /\ recovery' = [recovery EXCEPT !.left = IF Delaying THEN @ - 1 ELSE @,
                                    !.elapsed = IF Clocked THEN @ + 1 ELSE @]
    /\ UNCHANGED <<config, run, open, aborted, notes, result, events>>

Next ==
    \/ Created
    \/ CreationFails
    \/ \E text \in {"none", "invalid", "plan"} : Says(text)
    \/ PromptSettles
    \/ PromptTimer
    \/ Disposed
    \/ DelayEnds
    \/ Deadline
    \/ CallerAborts
    \/ Tick

Spec == Init /\ [][Next]_vars

\* Timers fire, and promises other than the prompt's settle.
FairSpec ==
    /\ Spec
    /\ WF_vars(Created \/ CreationFails)
    /\ WF_vars(Disposed)
    /\ WF_vars(PromptTimer)
    /\ WF_vars(DelayEnds)
    /\ WF_vars(Deadline)
    /\ WF_vars(Tick)

\* A plan comes only from a prompt that its session finished, without a failure,
\* and that nobody had given up; and cancellation wins over the timeout, also
\* during the grace period.
PlanFinished ==
    /\ run.pc = "disposing" /\ run.outcome = "plan" =>
          /\ guard.settled
          /\ guard.failure = "none"
          /\ ~guard.graceExpired
    /\ guard.cancelled =>
          /\ "timeout" \notin notes
          /\ run.pc = "disposing" => run.outcome = "stopped"

\* An outage ends with one terminal event, before its one cleanup, and the event
\* says what the caller got; a recovery that fails is never silent, and one that the
\* caller cancelled is not reported as a failure of the network.
OutcomeReported ==
    /\ events # <<>> <=> recovery.phase = "over"
    /\ events # <<>> =>
          /\ events[1] = CASE result = "plan" -> "recovered"
                           [] result = "cancelled" -> "cancelled"
                           [] result = "expired" -> "outage_expired"
                           [] OTHER -> "failed"
          /\ Tail(events) = <<"cleanup">>
          /\ result = "cancelled" =>
                "cancelled" \in notes /\ "network_failure" \notin notes
          /\ result \notin {"plan", "cancelled"} =>
                notes \intersect {"timeout", "cancelled", "network_failure"} # {}

\* A retry starts neither at the deadline or after it nor after a cancellation,
\* and only when the session of the attempt before it has been disposed.
RetryAllowed ==
    [][run.pc = "none" /\ run'.pc = "creating" =>
          /\ config.limited => recovery.elapsed < MaxOutage
          /\ ~aborted'
          /\ open = 0]_vars

\* A request is answered whatever the sessions do, and all of them are disposed.
\* An outage without a limit lasts until the network or the caller ends it.
RequestEnds ==
    \/ <>(result # "none" /\ open = 0 /\ run.pc = "none")
    \/ ~config.limited /\ <>[]Recovering
=============================================================================
