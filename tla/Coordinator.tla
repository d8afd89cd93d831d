----------------------------- MODULE Coordinator -----------------------------
(***************************************************************************)
(* runCoordinator of src/src/coordinator.ts from the moment the plan is     *)
(* written: the scheduler loop, the worker it runs, and the steering        *)
(* processor that revises the plan meanwhile.  The scheduler and the        *)
(* processor are the two clients of the plan store (module PlanStore), and  *)
(* the scheduler is the one waiter of the queue (module SteeringQueue).     *)
(*                                                                         *)
(* An action is the code from one await to the next.  `pc` names the await  *)
(* at which the scheduler is suspended:                                     *)
(*                                                                         *)
(*   planned    the plan is being written                                   *)
(*   select     waitForIdle at the loop's top                               *)
(*   working    the worker session                                          *)
(*   releasing  the owner of the session retains or disposes it             *)
(*   resolve    waitForIdle after the worker                                *)
(*   resolving  resolveTask                                                 *)
(*   recording  the append of the attempt's evidence                        *)
(*   settling   completeTask, or resolveTask for an unfinished outcome      *)
(*   disposing  the append of an obsolete disposition                       *)
(*   exhausted  waitForIdle before a task is declared exhausted             *)
(*   exhausting resolveTask after that                                      *)
(*   replaced   the append of an obsolete disposition after that            *)
(*   final      the last read of TODO.md is requested                       *)
(*   failing    the catch block's failure note and read                     *)
(*   finishing  the read was served, its continuation has not run           *)
(*   ended      runCoordinator has returned                                 *)
(*                                                                         *)
(* Continuations of settled promises are microtasks: they all run before    *)
(* the event loop takes another event (a file operation, the end of a       *)
(* worker or planner session, a key press).  `Quiet` says that none is due. *)
(***************************************************************************)
EXTENDS PlanStore

CONSTANTS Scheduler, Steering,  \* the two clients of the store
          Outcomes,             \* what a worker may report, "done" or not
          NoAssignment, NoProcessor,
          MaxAttempts,          \* runtime.maxAttemptsPerTask
          MaxMessages,          \* bound on the guidance ever typed
          MaxRuns               \* bound on the workers ever started

ASSUME CoordinatorAssumption ==
    /\ Clients = {Scheduler, Steering}
    /\ Scheduler # Steering
    /\ MaxRevisions = MaxMessages
    /\ MaxAttempts \in Nat \ {0}

VARIABLES messages, sequence, processor, processing, failed, closed,
          idleWaiters, accepted,  \* the queue
          pc,
          active,     \* activeTaskReference and activeWorkerAssignment are set
          assignment, \* constants and assignmentState of the loop's iteration
          attempts,   \* the array `attempts`
          evidence,   \* attempt entries of TASK_RESULT.md, in order
          failure,    \* "none", "exhausted", or "error" for the catch block
          aborted,    \* runtime.abortSignal
          result      \* what the run returns: the plan it read and its status

queueVars == <<messages, sequence, processor, processing, failed, closed,
               idleWaiters, accepted>>
runVars == <<pc, active, assignment, attempts, evidence, failure, result>>
vars == <<storeVars, queueVars, runVars, aborted>>

Queue == INSTANCE SteeringQueue
             WITH Processors <- {Steering}, Waiters <- {Scheduler},
                  RetryEnabled <- FALSE

NoResult == [status |-> "running", tasks |-> <<>>]

\* A checkbox that was set before the run is its own evidence.
Entry(work, done, obsolete) == [work |-> work, done |-> done, obsolete |-> obsolete]

Init == /\ plan \in InitialPlans
        /\ disk = plan
        /\ writeTail = <<>>
        /\ call = [c \in Clients |-> Idle]
        /\ revisions = 0
        /\ Queue!Init
        /\ pc = "planned"
        /\ active = FALSE
        /\ assignment = NoAssignment
        /\ attempts = <<>>
        /\ evidence = [i \in DOMAIN plan |->
                          Entry(Fingerprint(plan[i]), plan[i].done, FALSE)]
        /\ failure = "none"
        /\ aborted = FALSE
        /\ result = NoResult

-----------------------------------------------------------------------------
ActiveReference == IF active THEN assignment.ref ELSE NoReference

\* attemptsForTask: an attempt belongs to the one task with its fingerprint.
AttemptsFor(tasks, i) ==
    {k \in DOMAIN attempts :
        /\ ~attempts[k].obsolete
        /\ {j \in DOMAIN tasks : Fingerprint(tasks[j]) = attempts[k].work} = {i}}

\* deriveCoordinatorStatus over remainingTaskSummaries of the plan read last.
Status(tasks) ==
    LET undone  == {i \in DOMAIN tasks : ~tasks[i].done}
        last(i) == LET own == AttemptsFor(tasks, i)
                   IN  IF own = {} THEN "not_started"
                       ELSE attempts[CHOOSE k \in own : \A l \in own : l <= k].status
        incomplete == \/ failure # "none"
                      \/ aborted /\ undone # {}
    IN  CASE failure = "error" -> "failed"
          [] ~incomplete /\ undone = {} -> "done"
          [] /\ incomplete \/ undone # {}
             /\ failure # "error"
             /\ \E i \in undone : last(i) = "blocked"
             /\ \A i \in undone : last(i) \in {"blocked", "not_started"} -> "blocked"
          [] OTHER -> IF undone # DOMAIN tasks THEN "partial" ELSE "failed"

-----------------------------------------------------------------------------
(* Microtasks, waiting for the queue, and the call of the processor.        *)
Resumes(state) == pc = state /\ Scheduler \notin idleWaiters

Returned(c) == call[c].phase = "returned"

Quiet ==
    /\ \A state \in {"select", "resolve", "exhausted"} : ~Resumes(state)
    /\ \A c \in Clients :
          ~Returned(c) /\ ~(Holds(c) /\ call[c].phase = "waiting")

AwaitIdle(next) ==
    /\ pc' = next
    /\ idleWaiters' = IF processing' THEN idleWaiters \union {Scheduler}
                      ELSE idleWaiters

\* The loop's condition, then its first await.
LoopTop ==
    \/ aborted /\ pc' = "final" /\ UNCHANGED idleWaiters
    \/ ~aborted /\ AwaitIdle("select")

\* When the pump takes a head, the processor runs at once up to the planner
\* call: it takes the snapshot and looks up the active task in it.
HandOver ==
    IF processing' /\ ~processing
    THEN BeginRevision(Steering, ActiveReference)
    ELSE UNCHANGED storeVars

Start ==
    /\ Quiet
    /\ pc = "planned"
    /\ processor' = Steering
    /\ Queue!StartPump(messages, Steering, failed)
    /\ HandOver
    /\ LoopTop
    /\ UNCHANGED <<sequence, failed, closed, accepted, active, assignment,
                   attempts, evidence, failure, aborted, result>>

Select ==
    /\ Resumes("select")
    /\ LET undone == {i \in DOMAIN plan : ~plan[i].done}
       IN  \/ undone = {} /\ pc' = "final" /\ UNCHANGED <<active, assignment>>
           \/ /\ undone # {}
              /\ Len(attempts) < MaxRuns
              /\ LET next == CHOOSE i \in undone : \A j \in undone : i <= j
                 IN  assignment' =
                        [ref |-> Reference(plan, next), obsolete |-> FALSE,
                         attempt |-> Cardinality(AttemptsFor(plan, next)) + 1,
                         status |-> "none", stale |-> FALSE]
              /\ active' = TRUE
              /\ pc' = "working"
    /\ UNCHANGED <<storeVars, queueVars, attempts, evidence, failure, aborted,
                   result>>

-----------------------------------------------------------------------------
(* The worker and the settlement of its outcome.                            *)
\* runWorkerTaskAssignment: a session whose signal is aborted reports nothing
\* done, whatever it wrote.
WorkerReports(status) ==
    /\ Quiet
    /\ pc = "working"
    /\ status = "done" => ~assignment.obsolete /\ ~aborted
    /\ assignment' = [assignment EXCEPT !.status = status]
    /\ pc' = "releasing"
    /\ UNCHANGED <<storeVars, queueVars, active, attempts, evidence, failure,
                   aborted, result>>

\* The owner has retained or disposed the session and passes the outcome on.
WorkerReturns ==
    /\ Quiet
    /\ pc = "releasing"
    /\ processing' = processing
    /\ AwaitIdle("resolve")
    /\ UNCHANGED <<storeVars, messages, sequence, processor, failed, closed,
                   accepted, active, assignment, attempts, evidence, failure,
                   aborted, result>>

\* A rejected worker promise ends the run, unless the assignment is obsolete:
\* its rejection then stands for an unfinished outcome.
WorkerThrows ==
    /\ Quiet
    /\ pc = "working"
    /\ \/ /\ ~assignment.obsolete
          /\ pc' = "failing"
          /\ UNCHANGED <<assignment, processing, idleWaiters>>
       \/ /\ assignment.obsolete
          /\ assignment' = [assignment EXCEPT !.status = "failed"]
          /\ processing' = processing
          /\ AwaitIdle("resolve")
    /\ UNCHANGED <<storeVars, messages, sequence, processor, failed, closed,
                   accepted, active, attempts, evidence, failure, aborted, result>>

Resolving ==
    /\ Resumes("resolve")
    /\ RequestResolve(Scheduler, assignment.ref)
    /\ pc' = "resolving"
    /\ UNCHANGED <<queueVars, active, assignment, attempts, evidence, failure,
                   aborted, result>>

\* Mutant: one attempt too many.
Record_OffByOne(obsolete) ==
    /\ attempts' = Append(attempts,
                          [work |-> assignment.ref.fingerprint,
                           status |-> assignment.status,
                           obsolete |-> obsolete, flagged |-> assignment.obsolete])
    /\ active' = FALSE
    /\ processing' = processing
    /\ IF /\ ~obsolete
          /\ assignment.status # "done"
          /\ assignment.attempt > MaxAttempts
       THEN AwaitIdle("exhausted") /\ UNCHANGED assignment
       ELSE LoopTop /\ assignment' = NoAssignment

\* The attempts array, the cleared assignment, and where the loop goes next.
Record(obsolete) ==
    /\ attempts' = Append(attempts,
                          [work |-> assignment.ref.fingerprint,
                           status |-> assignment.status,
                           obsolete |-> obsolete, flagged |-> assignment.obsolete])
    /\ active' = FALSE
    /\ processing' = processing
    /\ IF /\ ~obsolete
          /\ assignment.status # "done"
          /\ assignment.attempt >= MaxAttempts
       THEN AwaitIdle("exhausted") /\ UNCHANGED assignment
       ELSE LoopTop /\ assignment' = NoAssignment

Resolved ==
    /\ pc = "resolving"
    /\ Returned(Scheduler)
    /\ call' = [call EXCEPT ![Scheduler] = Idle]
    /\ assignment' = [assignment EXCEPT !.stale =
                         call[Scheduler].outcome = "stale"]
    /\ pc' = "recording"
    /\ UNCHANGED <<plan, disk, writeTail, revisions, queueVars, active, attempts,
                   evidence, failure, aborted, result>>

\* The outcome is applied to the plan only if its task was still there.
RequestSettlement ==
    /\ \/ /\ assignment.stale
          /\ Record(TRUE)
          /\ UNCHANGED <<call, writeTail>>
       \/ /\ ~assignment.stale
          /\ Enter(Scheduler,
                [phase |-> "waiting", ref |-> assignment.ref, next |-> plan,
                 kind |-> IF assignment.status = "done" THEN "complete"
                          ELSE "resolve"])
          /\ pc' = "settling"
          /\ UNCHANGED <<processing, idleWaiters, attempts, active, assignment>>
    /\ UNCHANGED <<plan, disk, revisions, messages, sequence, processor, failed,
                   closed, accepted, failure, aborted, result>>

Evidence ==
    /\ Quiet
    /\ pc = "recording"
    /\ evidence' = Append(evidence, Entry(assignment.ref.fingerprint,
                                          assignment.status = "done",
                                          assignment.stale))
    /\ RequestSettlement

\* An append that fails ends the run through the catch block.
EvidenceFails ==
    /\ Quiet
    /\ pc = "recording"
    /\ pc' = "failing"
    /\ UNCHANGED <<storeVars, queueVars, active, assignment, attempts, evidence,
                   failure, aborted, result>>

Settlement ==
    /\ pc = "settling"
    /\ Returned(Scheduler)
    /\ call' = [call EXCEPT ![Scheduler] = Idle]
    /\ \/ /\ call[Scheduler].outcome \in {"applied", "unchanged"}
          /\ call[Scheduler].task # 0
          /\ Record(FALSE)
       \/ /\ call[Scheduler].outcome \in {"applied", "unchanged", "stale"}
          /\ call[Scheduler].task = 0
          /\ pc' = "disposing"
          /\ UNCHANGED <<processing, idleWaiters, attempts, active, assignment>>
       \/ /\ call[Scheduler].outcome = "failed"
          /\ pc' = "failing"
          /\ UNCHANGED <<processing, idleWaiters, attempts, active, assignment>>
    /\ UNCHANGED <<plan, disk, writeTail, revisions, messages, sequence, processor,
                   failed, closed, accepted, evidence, failure, aborted, result>>

Dispose ==
    /\ Quiet
    /\ pc = "disposing"
    /\ \/ Record(TRUE)
       \/ /\ pc' = "failing"
          /\ UNCHANGED <<processing, idleWaiters, attempts, active, assignment>>
    /\ UNCHANGED <<storeVars, messages, sequence, processor, failed, closed,
                   accepted, evidence, failure, aborted, result>>

-----------------------------------------------------------------------------
(* Exhausted attempts.                                                      *)
Exhausting ==
    /\ Resumes("exhausted")
    /\ RequestResolve(Scheduler, assignment.ref)
    /\ pc' = "exhausting"
    /\ UNCHANGED <<queueVars, active, assignment, attempts, evidence, failure,
                   aborted, result>>

\* The task may have been replaced while it failed for the last time; if it is
\* still there its attempts are counted again in the plan of now.
Exhausted ==
    /\ pc = "exhausting"
    /\ Returned(Scheduler)
    /\ call' = [call EXCEPT ![Scheduler] = Idle]
    /\ processing' = processing
    /\ assignment' = NoAssignment
    /\ LET task == call[Scheduler].task
           count == Cardinality(AttemptsFor(call[Scheduler].snapshot, task))
       IN  \/ /\ task = 0
              /\ attempts' = [attempts EXCEPT ![Len(attempts)] =
                                 [@ EXCEPT !.obsolete = TRUE]]
              /\ pc' = "replaced"
              /\ UNCHANGED <<failure, idleWaiters>>
           \/ /\ task # 0
              /\ count < MaxAttempts
              /\ LoopTop
              /\ UNCHANGED <<attempts, failure>>
           \/ /\ task # 0
              /\ count >= MaxAttempts
              /\ failure' = "exhausted"
              /\ pc' = "final"
              /\ UNCHANGED <<attempts, idleWaiters>>
    /\ UNCHANGED <<plan, disk, writeTail, revisions, messages, sequence, processor,
                   failed, closed, accepted, active, evidence, aborted, result>>

Replaced ==
    /\ Quiet
    /\ pc = "replaced"
    /\ processing' = processing
    /\ \/ LoopTop
       \/ pc' = "failing" /\ UNCHANGED idleWaiters
    /\ UNCHANGED <<storeVars, messages, sequence, processor, failed, closed,
                   accepted, active, assignment, attempts, evidence, failure,
                   aborted, result>>

-----------------------------------------------------------------------------
(* The end of the run.                                                      *)
FinalRead ==
    /\ Quiet
    /\ pc = "final"
    /\ \/ result' = [NoResult EXCEPT !.tasks = disk] /\ pc' = "finishing"
       \/ pc' = "failing" /\ UNCHANGED result
    /\ UNCHANGED <<storeVars, queueVars, active, assignment, attempts, evidence,
                   failure, aborted>>

\* The catch block: an assignment that was not settled counts as failed.
Catch ==
    /\ Quiet
    /\ pc = "failing"
    /\ attempts' = IF active
                   THEN Append(attempts, [work |-> assignment.ref.fingerprint,
                                          status |-> "failed", obsolete |-> FALSE,
                                          flagged |-> assignment.obsolete])
                   ELSE attempts
    /\ failure' = "error"
    /\ result' = [NoResult EXCEPT !.tasks = disk]
    /\ pc' = "finishing"
    /\ UNCHANGED <<storeVars, queueVars, active, assignment, evidence, aborted>>

\* The result is built and `finally` removes the processor; a revision that is
\* being generated or applied is not interrupted.
Finish ==
    /\ Quiet
    /\ pc = "finishing"
    /\ result' = [result EXCEPT !.status = Status(result.tasks)]
    /\ Queue!RemoveProcessor(Steering)
    /\ pc' = "ended"
    /\ UNCHANGED <<storeVars, active, assignment, attempts, evidence, failure,
                   aborted>>

\* execute() of the tool closes the queue after the run.
CloseQueue ==
    /\ pc = "ended"
    /\ Queue!Close
    /\ UNCHANGED <<storeVars, runVars, aborted>>

-----------------------------------------------------------------------------
(* The environment and the steering processor.                              *)
Abort ==
    /\ Quiet
    /\ pc # "ended"
    /\ ~aborted
    /\ aborted' = TRUE
    /\ UNCHANGED <<storeVars, queueVars, runVars>>

TypeGuidance ==
    /\ Quiet
    /\ Queue!Enqueue
    /\ HandOver
    /\ UNCHANGED <<runVars, aborted>>

\* The planner's answer; the active task is looked up again when it arrives.
PlannerAnswers ==
    /\ Quiet
    /\ call[Steering].phase = "planning"
    /\ \/ \E proposal \in Proposals(call[Steering].base) :
              RequestApply(Steering, proposal, ActiveReference)
       \/ RevisionFails(Steering)
    /\ UNCHANGED <<queueVars, runVars, aborted>>

\* What the pump does once the processor's promise is settled: it hands over
\* the next message in the same segment, or leaves.
NextMessage ==
    IF processing'
    THEN /\ call' = [call EXCEPT ![Steering] = Planning(ActiveReference)]
         /\ revisions' = revisions + 1
    ELSE /\ call' = [call EXCEPT ![Steering] = Idle]
         /\ UNCHANGED revisions

\* Mutant: the worker of replaced work is left alone.
RevisionInstalled_KeepsWorker ==
    /\ Returned(Steering)
    /\ call[Steering].outcome = "applied"
    /\ Queue!Accept
    /\ NextMessage
    /\ UNCHANGED <<plan, disk, writeTail, runVars, aborted>>

\* The revision is installed.  An active assignment whose task is gone becomes
\* obsolete and is aborted, and the processor awaits the owner of its session
\* (invalidateAssignment, which never rejects); otherwise it is done.
RevisionInstalled ==
    /\ Returned(Steering)
    /\ call[Steering].outcome = "applied"
    /\ LET gone == active /\ Resolve(plan, assignment.ref) = 0
       IN  \/ /\ gone
              /\ assignment' = [assignment EXCEPT !.obsolete = TRUE]
              /\ call' = [call EXCEPT ![Steering] = [phase |-> "invalidating"]]
              /\ UNCHANGED <<queueVars, revisions>>
           \/ /\ ~gone
              /\ Queue!Accept
              /\ NextMessage
              /\ UNCHANGED assignment
    /\ UNCHANGED <<plan, disk, writeTail, pc, active, attempts, evidence, failure,
                   aborted, result>>

Invalidated ==
    /\ Quiet
    /\ call[Steering].phase = "invalidating"
    /\ Queue!Accept
    /\ NextMessage
    /\ UNCHANGED <<plan, disk, writeTail, runVars, aborted>>

RevisionRejected ==
    /\ Returned(Steering)
    /\ call[Steering].outcome # "applied"
    /\ Queue!Reject
    /\ NextMessage
    /\ UNCHANGED <<plan, disk, writeTail, runVars, aborted>>

-----------------------------------------------------------------------------
Schedule ==
    \/ Start
    \/ Select
    \/ \E status \in Outcomes : WorkerReports(status)
    \/ WorkerReturns
    \/ WorkerThrows
    \/ Resolving
    \/ Resolved
    \/ Evidence
    \/ EvidenceFails
    \/ Settlement
    \/ Dispose
    \/ Exhausting
    \/ Exhausted
    \/ Replaced
    \/ FinalRead
    \/ Catch
    \/ Finish

Steer ==
    \/ PlannerAnswers
    \/ RevisionInstalled
    \/ Invalidated
    \/ RevisionRejected

\* Lock turns are microtasks, the callback and the file operations events.
Store ==
    /\ \E c \in Clients : (call[c].phase = "waiting" \/ Quiet) /\ StoreStep(c)
    /\ UNCHANGED <<queueVars, runVars, aborted>>

Next ==
    \/ Schedule
    \/ Steer
    \/ Store
    \/ Abort
    \/ TypeGuidance
    \/ CloseQueue

Spec == Init /\ [][Next]_vars

\* File operations, worker sessions and planner calls settle (the last two are
\* bounded by timeouts) and due continuations run.  Stated as "not for ever able
\* to move without moving", for the scheduler and for the calls of each client.
SchedulerReady ==
    /\ pc # "ended"
    /\ Scheduler \notin idleWaiters
    /\ call[Scheduler].phase \in {"idle", "returned"}

CallReady(c) ==
    \/ Holds(c)
    \/ c = Steering /\ call[c].phase \in {"planning", "invalidating", "returned"}

Fairness ==
    /\ []<>(~SchedulerReady) \/ []<><<pc' # pc>>_vars
    /\ \A c \in Clients :
          []<>(~CallReady(c)) \/ []<><<call'[c] # call[c]>>_vars

FairSpec == Spec /\ Fairness

Earned(work) ==
    Cardinality({k \in DOMAIN evidence :
        evidence[k].work = work /\ evidence[k].done /\ ~evidence[k].obsolete})

\* A checked task rests on durable evidence that a worker, given exactly this
\* text, finished it: the evidence is appended before the completion marker
\* whatever is revised in between, and no evidence pays for two checkboxes.
EvidenceBeforeCheckbox ==
    \A tasks \in {plan, disk} : \A i \in DOMAIN tasks :
        tasks[i].done =>
            Cardinality({j \in DOMAIN tasks :
                tasks[j].done /\ Fingerprint(tasks[j]) = Fingerprint(tasks[i])})
                <= Earned(Fingerprint(tasks[i]))

Failures(work) ==
    Cardinality({k \in DOMAIN attempts :
        /\ attempts[k].work = work
        /\ attempts[k].status # "done"
        /\ ~attempts[k].obsolete})

\* A task is retried up to the configured limit and no further, whatever
\* revisions do to it and to its attempts' records in between (README: "retries
\* unfinished tasks up to the configured attempt limit").
AttemptLimit ==
    \A i \in DOMAIN plan :
        LET work == Fingerprint(plan[i])
        IN  Failures(work) <= MaxAttempts *
                Cardinality({j \in DOMAIN plan : Fingerprint(plan[j]) = work})

\* Between revisions a worker that was not told to stop works on a task of the
\* accepted plan.
ActiveWorkIsCurrent ==
    pc = "working" /\ ~processing /\ ~assignment.obsolete =>
        Resolve(plan, assignment.ref) # 0

\* A worker that was told its task is gone completes nothing (README: "its stale
\* result is recorded as obsolete and cannot complete the replacement").
ReplacedWorkCompletesNothing ==
    \A k \in DOMAIN attempts :
        attempts[k].flagged /\ attempts[k].status = "done" => attempts[k].obsolete

\* Whatever is typed, if the user stops typing at some time, however workers and
\* planner calls end and whichever file operations fail, the run returns.
RunReturns == Queue!GuidanceStops => <>(pc = "ended")
=============================================================================
