-------------------------------- MODULE GoalRun --------------------------------
(***************************************************************************)
(* runGoalLoop (src/src/goal_orchestrator.ts) with the phases it runs        *)
(* (goal_todo_generation.ts, goal_todo_execution.ts, goal_review.ts) and the *)
(* files of its run directory (goal_state.ts), over module GoalLoop.         *)
(*                                                                           *)
(* `run.pc` is where the process waits:                                      *)
(*                                                                           *)
(*   saving, appending  persistStateChange: the state, then each trace event *)
(*   begin, head        before discovery, and the top of the loop            *)
(*   preparing          the reads and writes before a phase's call           *)
(*   calling            the call: discovery, planner, workers or reviewer    *)
(*   recovering         between two calls of the reviewer during an outage   *)
(*   judging, settling  what the generation's, the review's call came to     *)
(*   publishing         the snapshot and GOAL_RESULT.md of a recorded phase  *)
(*   catching           the loop's catch, reading GOAL_STATE.json            *)
(*   over, rejected     it returned, it threw                                *)
(*   down               no process                                           *)
(*                                                                           *)
(* A process may die anywhere; a caller may then run the goal again from its *)
(* saved state.  Code between two awaits, and file operations, take no time. *)
(***************************************************************************)
EXTENDS GoalLoop

CONSTANTS Inputs,            \* pairs of limits a caller may ask for
          MaxClock,          \* bounds: time, ...
          MaxStarts,         \* ... processes, one after the other
          MaxFaults,         \* ... file operations that fail and crashes, together
          MaxInterruptions   \* ... and awaited reviewer calls lost to the network

ASSUME GoalRunAssumption == Inputs \subseteq Nat \X Nat

VARIABLES
    clock, aborted,  \* time, and the signal of the caller
    bounds,          \* how much of the bounds is used
    run,             \* the process
    state,           \* `state` of runGoalLoop
    local,           \* `state` and `previousTraceLength` of the phase
    stray,           \* a reviewer call that nobody waits for any more
    saved, file,     \* GOAL_STATE.json and GOAL_TRACE.jsonl
    spec,            \* whether GOAL_SPEC.json is there, or the goal needs none
    lapses           \* which of the faults that damage the files happened

vars == <<clock, aborted, bounds, run, state, local, stray, saved, file, spec,
          lapses>>

Nothing == [status |-> "nothing"]

NoLocal == [state |-> Nothing, base |-> 0]

NoStray == [pc |-> "none", write |-> Nothing, due |-> <<>>]

\* `write` and `due` are being persisted, `then` comes next; `outage` is the time
\* the network was away, `outcome` what the call came to, `retry` a reviewer call
\* made by the recovery.
Idle == [pc |-> "down", task |-> "none", write |-> Nothing, due |-> <<>>,
         then |-> "none", outcome |-> "none", outage |-> 0, retry |-> FALSE]

Stopped == run.pc \in {"down", "over", "rejected"}

Init ==
    /\ clock = 0
    /\ aborted = FALSE
    /\ bounds = [starts |-> 0, faults |-> 0, interruptions |-> 0]
    /\ run = Idle
    /\ state = Nothing
    /\ local = NoLocal
    /\ stray = NoStray
    /\ saved = Nothing
    /\ file = <<>>
    /\ spec \in BOOLEAN
    /\ lapses = {}

-----------------------------------------------------------------------------
(* Persisting.                                                              *)
World == <<clock, aborted, spec>>

Files == <<saved, file, lapses>>

From(s, base) == SubSeq(s.trace, base + 1, Len(s.trace))

\* persistStateChange(store, base, s), after which the run goes on at `then`.
Persist(r, s, base, then) ==
    run' = [r EXCEPT !.pc = "saving", !.write = s, !.due = From(s, base),
                     !.then = then]

\* A phase is left; a review that outlives it keeps its variables.
Left == IF stray = NoStray THEN NoLocal ELSE local

\* Where the phases set previousTraceLength.
Rebased == {"preparing", "judging", "recovering", "settling"}

\* The write is done.
Persisted(r) ==
    /\ run' = [r EXCEPT !.pc = r.then, !.due = <<>>, !.then = "none",
                        !.write = IF r.then = "publishing" THEN @ ELSE Nothing]
    /\ local' = IF r.then \in Rebased
                THEN [local EXCEPT !.base = Len(local.state.trace)] ELSE local

Save ==
    /\ run.pc = "saving"
    /\ saved' = run.write
    /\ IF run.due = <<>> THEN Persisted(run)
       ELSE run' = [run EXCEPT !.pc = "appending"] /\ UNCHANGED local
    /\ UNCHANGED <<World, bounds, state, stray, file, lapses>>

AppendTrace ==
    /\ run.pc = "appending"
    /\ file' = Append(file, Head(run.due))
    /\ LET rest == [run EXCEPT !.due = Tail(@)]
       IN  IF rest.due = <<>> THEN Persisted(rest)
           ELSE run' = rest /\ UNCHANGED local
    /\ UNCHANGED <<World, bounds, state, stray, saved, lapses>>

-----------------------------------------------------------------------------
(* runGoalLoop.                                                             *)
\* Mutant: the events of the loaded state are all taken for new.
DurableTraceLength_None == 0

DurableTraceLength == Len(file)

\* The caller runs a new goal, or one from its saved state.
Start ==
    /\ Stopped
    /\ bounds.starts < MaxStarts
    /\ bounds' = [bounds EXCEPT !.starts = @ + 1]
    /\ \E s \in IF saved # Nothing THEN {Loaded(saved)}
                ELSE {New(limits[1], limits[2], clock) : limits \in Inputs} :
          /\ state' = s
          /\ Persist([Idle EXCEPT !.task = "start"], s, DurableTraceLength, "begin")
    /\ aborted' = FALSE
    /\ local' = NoLocal
    /\ stray' = NoStray
    /\ UNCHANGED <<clock, spec, Files>>

\* maybeRunGoalDiscovery, unless the loop is to stop.
Begin ==
    /\ run.pc = "begin"
    /\ run' = IF StopReason(state, clock, aborted) = "none" /\ ~spec
              THEN [Idle EXCEPT !.pc = "calling", !.task = "discover"]
              ELSE [Idle EXCEPT !.pc = "head"]
    /\ UNCHANGED <<World, bounds, state, local, stray, Files>>

\* A phase starts from s, its first awaits before it has anything to persist.
Prepare(task, s) ==
    /\ run' = [Idle EXCEPT !.pc = "preparing", !.task = task]
    /\ local' = [state |-> s, base |-> Len(s.trace)]
    /\ UNCHANGED state

\* The loop stops at its top with s.
Stop(s) ==
    /\ state' = s
    /\ Persist([Idle EXCEPT !.task = "stop"], s, Len(state.trace), "over")
    /\ UNCHANGED local

Active == {"pending", "todo_generated", "todo_executed", "failed"}

\* The top of the loop, and the synchronous beginning of the phase it chooses.
LoopHead ==
    /\ run.pc = "head"
    /\ LET current == Current(state)
       IN  IF Terminal(state)
           THEN run' = [Idle EXCEPT !.pc = "over"] /\ UNCHANGED <<state, local>>
           ELSE IF StopReason(state, clock, aborted) # "none"
           THEN Stop(StartIteration(state, clock, aborted))
           ELSE IF current \in Active /\ clock >= state.iterationEnds
           THEN Stop(Fail(state, "partial"))
           ELSE IF current \in {"none", "reviewed_incomplete", "pending"}
           THEN LET s == IF current = "pending" THEN state
                         ELSE StartIteration(state, clock, aborted)
                IN  /\ local' = [state |-> s, base |-> Len(state.trace)]
                    /\ Persist([Idle EXCEPT !.task = "generate"], s,
                               Len(state.trace), "preparing")
                    /\ UNCHANGED state
           ELSE Prepare(IF current = "todo_generated" THEN "execute" ELSE "review",
                        state)
    /\ UNCHANGED <<World, bounds, stray, Files>>

\* Something was thrown: the loop reads what was saved last.
Throw ==
    /\ run' = [Idle EXCEPT !.pc = "catching"]
    /\ local' = Left

\* The state the catch goes on with: the saved one or, if it cannot be read, the
\* one the loop had before the phase.
Recovered ==
    {saved} \union (IF bounds.faults < MaxFaults THEN {state} ELSE {})

\* Mutant: the phase that threw is tried again.
Caught_Retried(s) ==
    run' = [Idle EXCEPT !.pc = "head"] /\ state' = s

\* Mutant: an aborted goal is cancelled even when it had ended.
Caught_Ended(s) ==
    LET end == IF aborted THEN Cancel(s) ELSE Fail(s, "failed")
    IN  /\ state' = end
        /\ Persist([Idle EXCEPT !.task = "catch"], end, Len(s.trace), "over")

Caught(s) ==
    IF Terminal(s) THEN run' = [Idle EXCEPT !.pc = "over"] /\ state' = s
    ELSE LET end == IF aborted THEN Cancel(s) ELSE Fail(s, "failed")
         IN  /\ state' = end
             /\ Persist([Idle EXCEPT !.task = "catch"], end, Len(s.trace), "over")

Catch ==
    /\ run.pc = "catching"
    /\ \E s \in Recovered :
          /\ Caught(s)
          /\ bounds' = [bounds EXCEPT !.faults = IF s = saved THEN @ ELSE @ + 1]
          /\ lapses' = IF s = saved THEN lapses ELSE lapses \union {"unread"}
    /\ UNCHANGED <<World, local, stray, saved, file>>

-----------------------------------------------------------------------------
(* The phases.                                                              *)
\* A phase has computed s, which is persisted and published.
Record(s) == Persist(run, s, local.base, "publishing")

\* ... and which its own `state` is set to.
Becomes(s) ==
    /\ local' = [local EXCEPT !.state = s]
    /\ Record(s)

\* writeIterationSnapshot and, mostly, appendIterationResult: the phase returns
\* its state, or throws an error that carries it.
Publish ==
    /\ run.pc = "publishing"
    /\ state' = run.write
    /\ run' = [Idle EXCEPT !.pc = "head"]
    /\ local' = Left
    /\ UNCHANGED <<World, bounds, stray, Files>>

\* Mutant: the deadline of the iteration is forgotten.
HasTime_Overall == clock < local.state.deadline

\* timeoutForIteration is positive.
HasTime == clock < local.state.iterationEnds /\ clock < local.state.deadline

Call == run' = [run EXCEPT !.pc = "calling"] /\ UNCHANGED local

\* The planner is called if there is time for it.
PrepareGeneration ==
    /\ run.task = "generate"
    /\ IF HasTime THEN Call ELSE Throw

\* The workers are called, unless the file with the TODO is not usable.
PrepareExecution ==
    /\ run.task = "execute"
    /\ IF aborted THEN Becomes(Cancel(local.state))
       ELSE \/ HasTime /\ Call
            \/ Becomes(WorkerResult(local.state, "failed"))

\* The reviewer gets what time is left, at least a millisecond.
PrepareReview ==
    /\ run.task = "review"
    /\ IF aborted THEN Becomes(Cancel(local.state)) ELSE Call

Prepared ==
    /\ run.pc = "preparing"
    /\ PrepareGeneration \/ PrepareExecution \/ PrepareReview
    /\ UNCHANGED <<World, bounds, state, stray, Files>>

\* Discovery ends with a specification, or throws.
DiscoveryEnds ==
    /\ run.pc = "calling"
    /\ run.task = "discover"
    /\ \/ spec' = TRUE /\ run' = [Idle EXCEPT !.pc = "head"]
       \/ run' = [Idle EXCEPT !.pc = "catching"] /\ UNCHANGED spec
    /\ UNCHANGED <<clock, aborted, bounds, state, local, stray, Files>>

\* The planner's call ends: an outage is excluded, and this persisted, before the
\* outcome is looked at.
GenerationEnds(outcome) ==
    /\ run.pc = "calling"
    /\ run.task = "generate"
    /\ LET judged == [run EXCEPT !.pc = "judging", !.outcome = outcome]
           s == Excluded(local.state, run.outage)
       IN  IF run.outage = 0 THEN run' = judged /\ UNCHANGED local
           ELSE /\ local' = [local EXCEPT !.state = s]
                /\ Persist(judged, s, local.base, "judging")
    /\ UNCHANGED <<World, bounds, state, stray, Files>>

GenerationJudged ==
    /\ run.pc = "judging"
    /\ IF aborted \/ run.outcome = "fails" THEN Throw
       ELSE /\ Updatable(local.state, {"pending"})
            /\ Becomes(GeneratedTodo(local.state))
    /\ UNCHANGED <<World, bounds, state, stray, Files>>

\* A coordinator that failed or threw makes a failed execution, any other result
\* an executed one.
ExecutionEnds(outcome) ==
    /\ run.pc = "calling"
    /\ run.task = "execute"
    /\ Updatable(local.state, {"todo_generated"})
    /\ Becomes(WorkerResult(local.state, outcome))
    /\ UNCHANGED <<World, bounds, state, stray, Files>>

-----------------------------------------------------------------------------
(* The review.                                                              *)
\* runReviewerWithNetworkRecovery is over: an outage is excluded and what is new
\* is persisted.
SessionOver(outcome, left) ==
    LET s == Excluded(left.state, run.outage)
        over == [run EXCEPT !.pc = "settling", !.outcome = outcome, !.outage = 0,
                            !.retry = FALSE, !.write = Nothing, !.due = <<>>]
    IN  /\ local' = [left EXCEPT !.state = s]
        /\ IF Len(s.trace) = left.base THEN run' = over
           ELSE Persist(over, s, left.base, "settling")

Decisions == {"complete", "incomplete", "blocked", "failed"}

\* The reviewer's session gives a result, or its runner throws: "lost".
ReviewEnds(outcome) ==
    /\ run.pc = "calling"
    /\ run.task = "review"
    /\ SessionOver(outcome, local)
    /\ UNCHANGED <<World, bounds, state, stray, Files>>

\* It was lost to the network: the evidence is recorded before anything else.
ReviewInterrupted ==
    /\ run.pc = "calling"
    /\ run.task = "review"
    /\ bounds.interruptions < MaxInterruptions
    /\ bounds' = [bounds EXCEPT !.interruptions = @ + 1]
    /\ Updatable(local.state, Reviewable)
    /\ LET s == Interrupted(local.state)
       IN  /\ local' = [local EXCEPT !.state = s]
           /\ Persist(run, s, local.base, "recovering")
    /\ UNCHANGED <<World, state, stray, Files>>

\* The delay is over and the reviewer is called again.
ReviewRetried ==
    /\ run.pc = "recovering"
    /\ ~aborted
    /\ run.outage > 0
    /\ run' = [run EXCEPT !.pc = "calling", !.retry = TRUE]
    /\ UNCHANGED <<World, bounds, state, local, stray, Files>>

\* There is no recovery, or the outage expires or is cancelled between two calls.
ReviewGivenUp ==
    /\ run.pc = "recovering"
    /\ SessionOver("lost", local)
    /\ UNCHANGED <<World, bounds, state, stray, Files>>

\* The outage expires, or is cancelled, during a call or the recording of its
\* interruption, which is not waited for.
ReviewAbandoned ==
    /\ run.retry
    /\ run.pc = "calling" \/ run.then = "recovering"
    /\ SessionOver("lost", local)
    /\ stray' = [pc |-> run.pc, write |-> run.write, due |-> run.due]
    /\ lapses' = IF run.pc = "calling" THEN lapses ELSE lapses \union {"stray"}
    /\ UNCHANGED <<World, bounds, state, saved, file>>

ReviewCancelled == run.outcome = "aborted" \/ (run.outcome = "lost" /\ aborted)

\* The end of runGoalReviewSession.  A failure is persisted, but the session's own
\* `state` is not set to it.
ReviewSettled ==
    /\ run.pc = "settling"
    /\ \/ /\ ReviewCancelled
          /\ Becomes(Cancel(local.state))
       \/ /\ ~ReviewCancelled
          /\ run.outcome \in {"lost", "error"}
          /\ Updatable(local.state, Reviewable)
          /\ Record(ReviewerResult(local.state, "failed"))
          /\ UNCHANGED local
       \/ /\ run.outcome \in Decisions
          /\ Updatable(local.state, Reviewable)
          /\ Becomes(ReviewerResult(local.state, Enforced(local.state, run.outcome)))
    /\ UNCHANGED <<World, bounds, state, stray, Files>>

-----------------------------------------------------------------------------
(* The abandoned reviewer call, which shares the variables of its review.    *)
StrayDone(base) ==
    /\ stray' = NoStray
    /\ local' = IF run.task = "review" THEN [local EXCEPT !.base = base]
                ELSE NoLocal

\* It settles, with a result that nobody takes ...
StraySettles ==
    /\ stray.pc = "calling"
    /\ StrayDone(local.base)
    /\ UNCHANGED <<World, bounds, run, state, Files>>

\* ... or lost to the network, which it records unless the review was cancelled.
StrayInterrupted ==
    /\ stray.pc = "calling"
    /\ Updatable(local.state, Reviewable)
    /\ LET s == Interrupted(local.state)
       IN  /\ local' = [local EXCEPT !.state = s]
           /\ stray' = [pc |-> "saving", write |-> s, due |-> From(s, local.base)]
    /\ lapses' = lapses \union {"stray"}
    /\ UNCHANGED <<World, bounds, run, state, saved, file>>

StraySaves ==
    /\ stray.pc = "saving"
    /\ saved' = stray.write
    /\ stray' = [stray EXCEPT !.pc = "appending", !.write = Nothing]
    /\ UNCHANGED <<World, bounds, run, state, local, file, lapses>>

StrayAppends ==
    /\ stray.pc = "appending"
    /\ file' = Append(file, Head(stray.due))
    /\ IF Len(stray.due) = 1 THEN StrayDone(Len(local.state.trace))
       ELSE stray' = [stray EXCEPT !.due = Tail(@)] /\ UNCHANGED local
    /\ UNCHANGED <<World, bounds, run, state, saved, lapses>>

-----------------------------------------------------------------------------
(* Faults, the caller and time.                                             *)
Fault ==
    /\ bounds.faults < MaxFaults
    /\ bounds' = [bounds EXCEPT !.faults = @ + 1]

\* What a failed write of persistStateChange means: the start and the catch have
\* nobody to catch it, an interruption that is not recorded ends the session.
PersistFails ==
    /\ run.pc \in {"saving", "appending"}
    /\ Fault
    /\ IF run.task \in {"start", "catch"}
       THEN run' = [Idle EXCEPT !.pc = "rejected"] /\ UNCHANGED <<local, lapses>>
       ELSE IF run.then = "recovering"
       THEN SessionOver("lost", local) /\ UNCHANGED lapses
       ELSE /\ Throw
            /\ lapses' = IF file = saved.trace THEN lapses
                         ELSE lapses \union {"gap"}
    /\ UNCHANGED <<World, state, stray, saved, file>>

\* Another file of a phase cannot be read or written.
PhaseFileFails ==
    /\ \/ run.pc \in {"preparing", "judging", "publishing"}
       \/ run.pc = "settling" /\ run.outcome # "lost"
    /\ Fault
    /\ Throw
    /\ UNCHANGED <<World, state, stray, Files>>

\* The abandoned call's rejection is not heard.
StrayFails ==
    /\ stray.pc \in {"saving", "appending"}
    /\ Fault
    /\ StrayDone(local.base)
    /\ UNCHANGED <<World, run, state, Files>>

Crash ==
    /\ ~Stopped
    /\ Fault
    /\ run' = Idle
    /\ aborted' = FALSE
    /\ state' = Nothing
    /\ local' = NoLocal
    /\ stray' = NoStray
    /\ UNCHANGED <<clock, spec, Files>>

Abort ==
    /\ ~Stopped
    /\ ~aborted
    /\ aborted' = TRUE
    /\ UNCHANGED <<clock, spec, bounds, run, state, local, stray, Files>>

Outage == run.pc = "recovering" \/ run.retry

MayBeOutage == Outage \/ (run.pc = "calling" /\ run.task = "generate")

\* Time passes; during the planner's call the network may be away.
Tick ==
    /\ run.pc \in {"down", "preparing", "calling", "recovering"}
    /\ clock < MaxClock
    /\ clock' = clock + 1
    /\ \/ MayBeOutage /\ run' = [run EXCEPT !.outage = @ + 1]
       \/ ~Outage /\ UNCHANGED run
    /\ UNCHANGED <<aborted, spec, bounds, state, local, stray, Files>>

Next ==
    \/ Start \/ Begin \/ LoopHead \/ Catch
    \/ Save \/ AppendTrace \/ Publish
    \/ Prepared
    \/ DiscoveryEnds
    \/ \E outcome \in {"ok", "fails"} : GenerationEnds(outcome)
    \/ GenerationJudged
    \/ \E outcome \in {"ok", "failed"} : ExecutionEnds(outcome)
    \/ \E outcome \in Decisions \union {"aborted", "error", "lost"} :
          ReviewEnds(outcome)
    \/ ReviewInterrupted \/ ReviewRetried \/ ReviewGivenUp \/ ReviewAbandoned
    \/ ReviewSettled
    \/ StraySettles \/ StrayInterrupted \/ StraySaves \/ StrayAppends
    \/ StrayFails
    \/ PersistFails \/ PhaseFileFails \/ Crash
    \/ Abort
    \/ Tick

Spec == Init /\ [][Next]_vars

\* What the process does by itself: it goes on, and what it calls ends.
Proceed ==
    \/ Begin \/ LoopHead \/ Catch \/ Save \/ AppendTrace \/ Publish
    \/ Prepared \/ DiscoveryEnds
    \/ \E outcome \in {"ok", "fails"} : GenerationEnds(outcome)
    \/ GenerationJudged
    \/ \E outcome \in {"ok", "failed"} : ExecutionEnds(outcome)
    \/ \E outcome \in Decisions : ReviewEnds(outcome)
    \/ ReviewGivenUp \/ ReviewSettled

FairSpec == Spec /\ WF_vars(Proceed)

-----------------------------------------------------------------------------
(* Properties.                                                              *)
\* Every state in memory or on disk is one of a goal run (Consistent): at most one
\* iteration is under way, the phase is that of its last record, and no phase of
\* an iteration was recorded twice, whatever failed and however often the goal was
\* resumed.
TypeOK ==
    /\ \A s \in {state, saved, local.state, run.write, stray.write} :
          s = Nothing \/ Consistent(s)
    /\ run.pc = "appending" => run.due # <<>>
    /\ run.pc \in {"saving", "publishing"} => run.write # Nothing
    /\ local = NoLocal <=> run.task \notin {"generate", "execute", "review"}
                             /\ stray = NoStray
    /\ stray.pc # "none" => ~run.retry

\* A goal is done only by the verdict of a reviewer on an iteration that is at
\* least the minimum one and at most the last one allowed, and it runs out of
\* iterations only when all of them were made.
StopEarned ==
    saved # Nothing =>
        /\ Len(saved.iterations) <= saved.max
        /\ saved.status = "done" =>
              /\ Len(saved.iterations) >= saved.min
              /\ Current(saved) = "reviewed_complete"
              /\ Last(saved.trace) = "reviewed"
        /\ Last(saved.trace) = "max_iterations" =>
              Len(saved.iterations) = saved.max

\* GOAL_STATE.json only moves on: its history is extended, its iterations remain,
\* and a goal that ended stays as it ended, through failures, crashes and
\* resumption.  Two lapses of the code are excepted: an abandoned reviewer that
\* writes, and a state that could not be read back.
SavedGrows ==
    [][saved # Nothing /\ saved' # saved /\ lapses' \subseteq {"gap"} =>
          /\ ~Terminal(saved)
          /\ IsStrictPrefix(saved.trace, saved'.trace)
          /\ IsPrefix(Front(<<"none">> \o saved.iterations),
                      <<"none">> \o saved'.iterations)]_vars

\* GOAL_TRACE.jsonl tells the history of GOAL_STATE.json, each event once and in
\* order, though they are written in two steps; and a run that returns returns
\* what is on disk.
Durable ==
    lapses = {} =>
        /\ saved # Nothing => IsPrefix(file, saved.trace)
        /\ run.pc = "over" =>
              Terminal(saved) /\ saved = state /\ file = saved.trace

\* A planner, worker or reviewer is called only for a phase that the state on disk
\* says is next, so that a crash during it neither repeats nor skips one; the
\* first two never at or after a deadline.
PhaseStarts ==
    [][run.pc = "preparing" /\ run'.pc = "calling" =>
          /\ saved = local.state
          /\ CASE run.task = "generate" -> Current(saved) = "pending"
               [] run.task = "execute" -> Current(saved) = "todo_generated"
               [] run.task = "review" -> Current(saved) \in Reviewable
          /\ run.task # "review" =>
                clock < saved.deadline /\ clock < saved.iterationEnds]_vars

\* A process that is not killed returns or throws.
GoalEnds == []<>Stopped
=============================================================================
