--------------------------- MODULE WorkerAssignment ---------------------------
(***************************************************************************)
(* runWorkerTaskAssignment of src/src/worker_session.ts: one assignment in  *)
(* a session that already exists, with its two prompts, its time limit, its *)
(* grace period and its cancellation.  A call of CoordinatorWorkerSession-  *)
(* Owner.run (module WorkerSessionOwner) is a member of Calls; the phases   *)
(* of its `pc` that belong to this module are                               *)
(*                                                                         *)
(*   starting   awaits the session's statistics before the first prompt     *)
(*   prompting  awaits session.prompt, or the completion gate of an abort   *)
(*   closing    the finally block awaits the statistics again               *)
(*   measuring  the assignment has returned its outcome to the owner        *)
(*                                                                         *)
(* A session is external: it may say anything while it is prompted, and its *)
(* prompt may settle at any time or never, also after it was aborted.       *)
(***************************************************************************)
EXTENDS Naturals, Sequences, FiniteSets

CONSTANTS Calls,     \* calls of the owner, recycled once they are consumed
          Sessions,  \* session objects, recycled once they are disposed
          Results,   \* statuses a complete TASK_RESULT may carry
          Failures,  \* what a prompt or a session factory may reject with
          NoSession

VARIABLES session,   \* the sessions
          call       \* the calls

\* `said` is the last result in the session's messages and the assignment it answered;
\* `served` (a history variable) what its last assignment came to.
Unborn == [open |-> FALSE, prompts |-> 0, level |-> "none",
           said |-> [by |-> 0, status |-> "none"],
           served |-> [result |-> "none", task |-> 0, attempt |-> 0]]

\* A call: what it was asked for (`job`), and the local variables of run and of
\* runWorkerTaskAssignment.  `failure` is what the prompt or the factory rejected
\* with; an aborted assignment has an error text even without one.
Begun(job, phase) ==
    [pc |-> phase, job |-> job, tainted |-> FALSE, session |-> NoSession,
     fresh |-> TRUE, signal |-> job.cancelled, sent |-> 0, timers |-> {},
     listening |-> FALSE, timedOut |-> FALSE, aborted |-> FALSE,
     failure |-> "none", text |-> "none", result |-> "none"]

Idle == [pc |-> "idle"]

-----------------------------------------------------------------------------
\* Mutant: messages of earlier assignments in the same session are not skipped.
TextOf_WholeSession(c) == session[call[c].session].said.status

\* latestInvocationAssistantText: what the session said to this call.
TextOf(c) ==
    LET said == session[call[c].session].said
    IN  IF said.by = call[c].job.identity THEN said.status ELSE "none"

Failed(r) == r.aborted \/ r.failure # "none"

\* The finally block, up to its await.
Closing(r, text) ==
    [r EXCEPT !.pc = "closing", !.timers = {}, !.listening = FALSE, !.text = text]

\* abortSession: the completion gate opens although the prompt has not settled.
AbortSession(r, text) == Closing([r EXCEPT !.aborted = TRUE], text)

\* options.abortSignal fires.  Nobody listens before the first prompt.
Signalled(c) ==
    LET r == [call[c] EXCEPT !.signal = TRUE]
    IN  IF r.pc = "prompting" /\ r.listening THEN AbortSession(r, TextOf(c)) ELSE r

\* The assignment is entered in session s.
Entered(r, s, fresh) ==
    LET in == [r EXCEPT !.session = s, !.fresh = fresh]
    IN  IF r.signal THEN Closing([in EXCEPT !.failure = "cancelled"], "none")
        ELSE [in EXCEPT !.pc = "starting"]

-----------------------------------------------------------------------------
Prompted(c) == [session EXCEPT ![call[c].session].prompts = @ + 1]

\* The listener is added and the time limit armed after the await: a signal that
\* fired during it is noticed only when the prompt ends.
Subscribe(c) ==
    /\ call[c].pc = "starting"
    /\ call' = [call EXCEPT ![c].pc = "prompting", ![c].listening = ~call[c].signal,
                            ![c].timers = {"limit"}, ![c].sent = 1]
    /\ session' = Prompted(c)

Says(c, status) ==
    /\ call[c].pc = "prompting"
    /\ TextOf(c) # status
    /\ session' = [session EXCEPT ![call[c].session].said =
                      [by |-> call[c].job.identity, status |-> status]]
    /\ UNCHANGED call

\* An incomplete answer is asked once for the required block.
MissingResult(c) ==
    /\ call[c].sent = 1
    /\ TextOf(c) = "none"
    /\ ~Failed(call[c])
    /\ ~call[c].timedOut
    /\ ~call[c].signal

PromptResolves(c) ==
    /\ call[c].pc = "prompting"
    /\ \/ /\ MissingResult(c)
          /\ call' = [call EXCEPT ![c].sent = 2]
          /\ UNCHANGED session
       \/ /\ ~MissingResult(c)
          /\ call' = [call EXCEPT ![c] = Closing(@, TextOf(c))]
          /\ session' = [session EXCEPT ![call[c].session].prompts = @ - 1]

PromptRejects(c, f) ==
    /\ call[c].pc = "prompting"
    /\ call' = [call EXCEPT ![c] = Closing([@ EXCEPT !.failure = f], TextOf(c))]
    /\ session' = [session EXCEPT ![call[c].session].prompts = @ - 1]

\* The prompt of an aborted session settles while the finally block waits; a
\* rejection still becomes the assignment's failure.
LateSettlement(c, f) ==
    /\ call[c].pc = "closing"
    /\ call[c].session # NoSession
    /\ session[call[c].session].prompts > 0
    /\ session' = [session EXCEPT ![call[c].session].prompts = @ - 1]
    /\ call' = [call EXCEPT ![c].failure = IF @ = "none" THEN f ELSE @]

\* Mutant: the grace period starts when the session has answered the request,
\* which it may never do.
LimitFires_AwaitsAnswer(c) ==
    /\ call[c].pc = "prompting"
    /\ "limit" \in call[c].timers
    /\ call' = [call EXCEPT ![c].timers = {}, ![c].timedOut = TextOf(c) = "none"]
    /\ UNCHANGED session

\* The time limit does nothing once a complete result stands; otherwise the
\* session is asked to finish, and the grace period starts whether it answers
\* or not.
LimitFires(c) ==
    /\ call[c].pc = "prompting"
    /\ "limit" \in call[c].timers
    /\ call' = [call EXCEPT ![c].timers = IF TextOf(c) = "none" THEN {"grace"} ELSE {},
                            ![c].timedOut = TextOf(c) = "none"]
    /\ UNCHANGED session

GraceFires(c) ==
    /\ call[c].pc = "prompting"
    /\ "grace" \in call[c].timers
    /\ call' = [call EXCEPT ![c] = AbortSession(@, TextOf(c))]
    /\ UNCHANGED session

-----------------------------------------------------------------------------
(* The outcome.                                                             *)
\* A session that ended without a result is given one that says "partial".
ReportedStatus(r) ==
    IF r.text = "none" /\ (Failed(r) \/ r.timedOut) THEN "partial" ELSE r.text

Done(r) == r.text = "done" /\ ~Failed(r) /\ ~r.timedOut /\ ~r.signal

\* workerSessionHealthForOutcome: only "healthy" matters to its callers.
Healthy(r) ==
    /\ ~r.timedOut
    /\ ~r.signal
    /\ ~Failed(r)
    /\ ReportedStatus(r) # "none"

\* classifyWorkerSessionRetry: mayContinueInSession.
MayContinue(r) ==
    /\ ~r.timedOut
    /\ ~r.signal
    /\ ~Failed(r)
    /\ ~Done(r)
    /\ ReportedStatus(r) = "partial"

Result(r) == CASE Done(r) -> "done"
               [] MayContinue(r) -> "partial"
               [] OTHER -> "failed"

\* The SessionOutcome; the other local variables are gone.
Outcome(r) == [r EXCEPT !.pc = "measuring", !.result = Result(r), !.sent = 0,
                        !.timedOut = FALSE, !.text = "none"]

AssignmentStep(c) ==
    \/ Subscribe(c)
    \/ \E status \in Results \union {"none"} : Says(c, status)
    \/ PromptResolves(c)
    \/ \E f \in Failures : PromptRejects(c, f)
    \/ \E f \in Failures \union {"none"} : LateSettlement(c, f)
    \/ LimitFires(c)
    \/ GraceFires(c)
=============================================================================
