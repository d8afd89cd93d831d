---------------------------- MODULE SteeringQueue ----------------------------
(***************************************************************************)
(* SerializedSteeringQueue of src/src/steering.ts: the run-scoped FIFO that *)
(* holds guidance typed by the user while a long task is executing.         *)
(*                                                                         *)
(* JavaScript runs a handler to its next await without interruption, so an  *)
(* action is one such segment.  The only await of the pump is the call of   *)
(* the attached processor: `processing` is TRUE exactly while that call is  *)
(* outstanding, and every other operation runs in between.                  *)
(***************************************************************************)
EXTENDS Naturals, Sequences

CONSTANTS Processors,   \* callbacks that may be attached with setProcessor
          NoProcessor,  \* `undefined` in the code
          Waiters,      \* callers of waitForIdle
          MaxMessages,  \* bound on the messages ever enqueued
          RetryEnabled  \* whether some caller uses retryFailed()

ASSUME QueueAssumption ==
    /\ NoProcessor \notin Processors
    /\ MaxMessages \in Nat
    /\ RetryEnabled \in BOOLEAN

VARIABLES messages,    \* the array `messages`, oldest first
          sequence,    \* number given to the latest message
          processor,   \* the attached processor, or NoProcessor
          processing,  \* the pump awaits the processor's promise
          failed,      \* the head failed and the queue is paused
          closed,
          idleWaiters, \* callers whose waitForIdle promise is unresolved
          accepted     \* history: sequence numbers in order of acceptance

vars == <<messages, sequence, processor, processing, failed, closed,
          idleWaiters, accepted>>

\* The publish()ed "accepted" status never rests in the array: the message is
\* shifted in the same segment.
MessageStatus == {"queued", "processing", "failed"}
Message == [sequence : 1..MaxMessages, status : MessageStatus]

Init == /\ messages = <<>>
        /\ sequence = 0
        /\ processor = NoProcessor
        /\ processing = FALSE
        /\ failed = FALSE
        /\ closed = FALSE
        /\ idleWaiters = {}
        /\ accepted = <<>>

-----------------------------------------------------------------------------
WithHead(msgs, status) == [msgs EXCEPT ![1] = [@ EXCEPT !.status = status]]

\* startPump(): a no-op when the pump runs, is paused or has nothing to do.
\* Otherwise the pump runs up to its await, the head now "processing".
StartPump(msgs, attached, paused) ==
    \/ /\ processing \/ paused \/ attached = NoProcessor \/ msgs = <<>>
       /\ messages' = msgs
       /\ UNCHANGED processing
    \/ /\ ~processing /\ ~paused /\ attached # NoProcessor /\ msgs # <<>>
       /\ messages' = WithHead(msgs, "processing")
       /\ processing' = TRUE

Enqueue ==
    /\ ~closed
    /\ sequence < MaxMessages
    /\ sequence' = sequence + 1
    /\ StartPump(Append(messages, [sequence |-> sequence + 1,
                                   status   |-> "queued"]),
                 processor, failed)
    /\ UNCHANGED <<processor, failed, closed, idleWaiters, accepted>>

\* Throws, changing nothing, when another processor is attached.
SetProcessor(p) ==
    /\ processor \in {NoProcessor, p}
    /\ processor' = p
    /\ StartPump(messages, p, failed)
    /\ UNCHANGED <<sequence, failed, closed, idleWaiters, accepted>>

\* The function setProcessor returned: detaches only its own processor.  A
\* call that is in flight is not interrupted.
RemoveProcessor(p) ==
    /\ processor = p
    /\ processor' = NoProcessor
    /\ UNCHANGED <<messages, sequence, processing, failed, closed,
                   idleWaiters, accepted>>

RetryFailed ==
    /\ RetryEnabled
    /\ failed
    /\ failed' = FALSE
    /\ StartPump(IF messages # <<>> /\ messages[1].status = "failed"
                 THEN WithHead(messages, "queued") ELSE messages,
                 processor, FALSE)
    /\ UNCHANGED <<sequence, processor, closed, idleWaiters, accepted>>

\* waitForIdle() outside processing returns a resolved promise, which changes
\* nothing here.
WaitForIdle(w) ==
    /\ processing
    /\ idleWaiters' = idleWaiters \union {w}
    /\ UNCHANGED <<messages, sequence, processor, processing, failed, closed,
                   accepted>>

Close ==
    /\ ~closed
    /\ closed' = TRUE
    /\ processor' = NoProcessor
    /\ idleWaiters' = IF processing THEN idleWaiters ELSE {}
    /\ UNCHANGED <<messages, sequence, processing, failed, accepted>>

-----------------------------------------------------------------------------
\* Mutant: the pump handles one message and leaves.
PumpOn_OneMessage(msgs) ==
    /\ messages' = msgs
    /\ processing' = FALSE
    /\ idleWaiters' = {}

\* Mutant: leaving the pump does not resolve the waiters.
PumpOn_NoWakeup(msgs) ==
    \/ /\ ~failed /\ processor # NoProcessor /\ msgs # <<>>
       /\ messages' = WithHead(msgs, "processing")
       /\ processing' = TRUE
       /\ UNCHANGED idleWaiters
    \/ /\ failed \/ processor = NoProcessor \/ msgs = <<>>
       /\ messages' = msgs
       /\ processing' = FALSE
       /\ UNCHANGED idleWaiters

\* The while loop of pump() after a message left the array: take the next one,
\* or leave through `finally`, which resolves the waiters.  Its closing
\* startPump() tests what the loop has just found false.
PumpOn(msgs) ==
    \/ /\ ~failed /\ processor # NoProcessor /\ msgs # <<>>
       /\ messages' = WithHead(msgs, "processing")
       /\ processing' = TRUE
       /\ UNCHANGED idleWaiters
    \/ /\ failed \/ processor = NoProcessor \/ msgs = <<>>
       /\ messages' = msgs
       /\ processing' = FALSE
       /\ idleWaiters' = {}

\* The processor's promise is fulfilled.
Accept ==
    /\ processing
    /\ accepted' = Append(accepted, messages[1].sequence)
    /\ PumpOn(Tail(messages))
    /\ UNCHANGED <<sequence, processor, failed, closed>>

\* Mutant: a failed revision is dropped, so later guidance overtakes it.
Reject_Drops ==
    /\ processing
    /\ PumpOn(Tail(messages))
    /\ UNCHANGED <<sequence, processor, failed, closed, accepted>>

\* Mutant: a failed revision leaves the waiters behind.
Reject_NoWakeup ==
    /\ processing
    /\ messages' = WithHead(messages, "failed")
    /\ failed' = TRUE
    /\ processing' = FALSE
    /\ UNCHANGED <<sequence, processor, closed, idleWaiters, accepted>>

\* The processor's promise is rejected: the head stays and the queue pauses.
Reject ==
    /\ processing
    /\ messages' = WithHead(messages, "failed")
    /\ failed' = TRUE
    /\ processing' = FALSE
    /\ idleWaiters' = {}
    /\ UNCHANGED <<sequence, processor, closed, accepted>>

Settle == Accept \/ Reject

Next == \/ Enqueue
        \/ \E p \in Processors : SetProcessor(p) \/ RemoveProcessor(p)
        \/ RetryFailed
        \/ \E w \in Waiters : WaitForIdle(w)
        \/ Close
        \/ Accept
        \/ Reject

Spec == Init /\ [][Next]_vars

\* A processor is a bounded planner call: its promise settles.
FairSpec == Spec /\ WF_vars(Settle)

-----------------------------------------------------------------------------
TypeOK ==
    /\ messages \in Seq(Message)
    /\ sequence \in 0..MaxMessages
    /\ processor \in Processors \union {NoProcessor}
    /\ processing \in BOOLEAN
    /\ failed \in BOOLEAN
    /\ closed \in BOOLEAN
    /\ idleWaiters \in SUBSET Waiters
    /\ accepted \in Seq(1..MaxMessages)

\* Guidance is accepted in submission order and none is lost: what was accepted
\* followed by what waits is 1, 2, ..., sequence (README: "queues rapid messages
\* in submission order").
NoGuidanceLost ==
    /\ sequence = Len(accepted) + Len(messages)
    /\ \A i \in 1..Len(accepted) : accepted[i] = i
    /\ \A i \in 1..Len(messages) : messages[i].sequence = Len(accepted) + i

\* Only the head is ever handed to a processor or failed, whoever attaches,
\* detaches, retries or closes in the meantime: later guidance cannot overtake
\* it, and two revisions are never generated at once.
HeadOnlyInFlight ==
    /\ processing <=> messages # <<>> /\ messages[1].status = "processing"
    /\ failed <=> messages # <<>> /\ messages[1].status = "failed"
    /\ \A i \in 2..Len(messages) : messages[i].status = "queued"

\* The pump never sleeps on deliverable work: a message that arrives while the
\* pump is leaving its loop is not stranded.
NoStalledPump ==
    ~processing /\ ~failed /\ processor # NoProcessor => messages = <<>>

\* No lost wakeup: a caller blocked in waitForIdle has a running pump, whose exit
\* releases it, also after close() and after the processor was removed.
NoLostWakeup == idleWaiters # {} => processing

\* From some moment on nothing more is typed.
GuidanceStops == <>[][sequence' = sequence]_vars

\* The scheduler, blocked at a task boundary while revisions are generated, gets
\* past it once the user stops typing, however many messages wait by then and
\* whether their revisions succeed or fail.  The pump resolves the waiters where it
\* leaves its loop only (steering.ts:135-160), so guidance that keeps arriving
\* while a processor call is out would block them for ever.
WaitersReleased ==
    GuidanceStops =>
        \A w \in Waiters : w \in idleWaiters ~> w \notin idleWaiters
=============================================================================
