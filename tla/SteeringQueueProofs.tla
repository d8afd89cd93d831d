------------------------- MODULE SteeringQueueProofs -------------------------
(***************************************************************************)
(* The safety of the steering queue for any processors, waiters and number  *)
(* of messages.  The conjunction of the properties that TLC checks is       *)
(* inductive: the numbering needs the type of the sequence numbers, the     *)
(* pump needs to know that only the head is in flight, and a lost wakeup is *)
(* excluded because the pump runs exactly while the head is "processing".   *)
(***************************************************************************)
EXTENDS SteeringQueue, SequenceTheorems, TLAPS

\* The array with the pump running or not, and paused or not.
Shape(msgs, running, paused) ==
    /\ msgs \in Seq(Message)
    /\ running <=> msgs # <<>> /\ msgs[1].status = "processing"
    /\ paused <=> msgs # <<>> /\ msgs[1].status = "failed"
    /\ \A i \in 2..Len(msgs) : msgs[i].status = "queued"

\* An array whose head is not in flight.
Queued(msgs) ==
    /\ msgs \in Seq(Message)
    /\ \A i \in 1..Len(msgs) : msgs[i].status = "queued"

\* Consecutive numbers after the first n.
Numbered(msgs, n) == \A i \in 1..Len(msgs) : msgs[i].sequence = n + i

Inv == /\ TypeOK
       /\ NoGuidanceLost
       /\ HeadOnlyInFlight
       /\ NoStalledPump
       /\ NoLostWakeup

-----------------------------------------------------------------------------
\* Changing the status of the head changes nothing else of the array.
LEMMA WithHeadProperties ==
    ASSUME NEW msgs \in Seq(Message), msgs # <<>>, NEW status \in MessageStatus
    PROVE  /\ WithHead(msgs, status) \in Seq(Message)
           /\ WithHead(msgs, status) # <<>>
           /\ Len(WithHead(msgs, status)) = Len(msgs)
           /\ WithHead(msgs, status)[1].status = status
           /\ \A i \in 2..Len(msgs) : WithHead(msgs, status)[i] = msgs[i]
           /\ \A n : Numbered(msgs, n) => Numbered(WithHead(msgs, status), n)
<1> DEFINE head == [msgs[1] EXCEPT !.status = status]
           new  == [msgs EXCEPT ![1] = head]
<1>1. /\ Len(msgs) \in Nat \ {0}
      /\ DOMAIN msgs = 1..Len(msgs)
      /\ 1 \in 1..Len(msgs)
  BY EmptySeq, LenProperties
<1>2. msgs[1] \in Message
  BY <1>1, ElementOfSeq
<1>3. /\ head \in Message
      /\ head.status = status
      /\ head.sequence = msgs[1].sequence
  BY <1>2 DEF Message
<1>4. /\ new \in Seq(Message)
      /\ Len(new) = Len(msgs)
      /\ \A j \in 1..Len(msgs) : new[j] = IF j = 1 THEN head ELSE msgs[j]
  BY <1>1, <1>3, ExceptSeq
<1>5. WithHead(msgs, status) = new
  BY DEF WithHead
<1>6. new # <<>>
  BY <1>1, <1>4, EmptySeq
<1>7. \A i \in 2..Len(msgs) : new[i] = msgs[i]
  BY <1>1, <1>4
<1>8. ASSUME NEW n, Numbered(msgs, n) PROVE Numbered(new, n)
  BY <1>1, <1>3, <1>4, <1>8 DEF Numbered
<1> QED
  BY <1>1, <1>3, <1>4, <1>5, <1>6, <1>7, <1>8

\* startPump() keeps the array in shape and starts the pump if it can.
LEMMA StartPumpProperties ==
    ASSUME NEW msgs, NEW attached, NEW paused, NEW n,
           Shape(msgs, processing, paused),
           Numbered(msgs, n),
           StartPump(msgs, attached, paused),
           processing \in BOOLEAN
    PROVE  /\ Shape(messages', processing', paused)
           /\ Numbered(messages', n)
           /\ Len(messages') = Len(msgs)
           /\ processing => processing'
           /\ processing' \in BOOLEAN
           /\ ~processing' /\ ~paused /\ attached # NoProcessor => messages' = <<>>
<1>1. CASE /\ processing \/ paused \/ attached = NoProcessor \/ msgs = <<>>
           /\ messages' = msgs
           /\ UNCHANGED processing
  BY <1>1 DEF Shape
<1>2. CASE /\ ~processing /\ ~paused /\ attached # NoProcessor /\ msgs # <<>>
           /\ messages' = WithHead(msgs, "processing")
           /\ processing' = TRUE
  <2>1. msgs \in Seq(Message) /\ "processing" \in MessageStatus
    BY DEF Shape, MessageStatus
  <2>2. /\ messages' \in Seq(Message)
        /\ messages' # <<>>
        /\ Len(messages') = Len(msgs)
        /\ messages'[1].status = "processing"
        /\ \A i \in 2..Len(msgs) : messages'[i] = msgs[i]
        /\ Numbered(messages', n)
    BY <1>2, <2>1, WithHeadProperties
  <2> QED
    BY <1>2, <2>2 DEF Shape
<1> QED
  BY <1>1, <1>2 DEF StartPump

\* The loop of the pump, given what remains once the head left the array.
LEMMA PumpOnProperties ==
    ASSUME NEW msgs, NEW n,
           Queued(msgs), ~failed,
           Numbered(msgs, n),
           PumpOn(msgs)
    PROVE  /\ Shape(messages', processing', failed)
           /\ Numbered(messages', n)
           /\ Len(messages') = Len(msgs)
           /\ processing' \in BOOLEAN
           /\ ~processing' => idleWaiters' = {}
           /\ processing' => idleWaiters' = idleWaiters
           /\ ~processing' /\ ~failed /\ processor # NoProcessor => messages' = <<>>
<1>1. CASE /\ failed \/ processor = NoProcessor \/ msgs = <<>>
           /\ messages' = msgs
           /\ processing' = FALSE
           /\ idleWaiters' = {}
  <2>1. msgs # <<>> => msgs[1].status = "queued"
    BY EmptySeq DEF Queued
  <2>2. \A i \in 2..Len(msgs) : msgs[i].status = "queued"
    BY LenProperties DEF Queued
  <2> QED
    BY <1>1, <2>1, <2>2 DEF Shape, Queued
<1>2. CASE /\ ~failed /\ processor # NoProcessor /\ msgs # <<>>
           /\ messages' = WithHead(msgs, "processing")
           /\ processing' = TRUE
           /\ UNCHANGED idleWaiters
  <2>1. msgs \in Seq(Message) /\ "processing" \in MessageStatus
    BY DEF Queued, MessageStatus
  <2>2. /\ messages' \in Seq(Message)
        /\ messages' # <<>>
        /\ Len(messages') = Len(msgs)
        /\ messages'[1].status = "processing"
        /\ \A i \in 2..Len(msgs) : messages'[i] = msgs[i]
        /\ Numbered(messages', n)
    BY <1>2, <2>1, WithHeadProperties
  <2>3. \A i \in 2..Len(messages') : messages'[i].status = "queued"
    BY <2>1, <2>2, LenProperties DEF Queued
  <2> QED
    BY <1>2, <2>2, <2>3 DEF Shape
<1> QED
  BY <1>1, <1>2 DEF PumpOn

\* The invariant in terms of the shape of the array.
LEMMA InvShape ==
    Inv => /\ Shape(messages, processing, failed)
           /\ Numbered(messages, Len(accepted))
  BY DEF Inv, TypeOK, HeadOnlyInFlight, NoGuidanceLost, Shape, Numbered

-----------------------------------------------------------------------------
LEMMA InitInv == Init => Inv
<1> SUFFICES ASSUME Init PROVE Inv
  OBVIOUS
<1>1. /\ <<>> \in Seq(Message) /\ <<>> \in Seq(1..MaxMessages)
      /\ 0 \in 0..MaxMessages
      /\ Len(<<>>) = 0
  BY QueueAssumption, EmptySeq
<1>2. TypeOK
  BY <1>1 DEF Init, TypeOK
<1>3. NoGuidanceLost
  BY <1>1 DEF Init, NoGuidanceLost
<1>4. HeadOnlyInFlight
  BY <1>1 DEF Init, HeadOnlyInFlight
<1>5. NoStalledPump /\ NoLostWakeup
  BY DEF Init, NoStalledPump, NoLostWakeup
<1> QED
  BY <1>2, <1>3, <1>4, <1>5 DEF Inv

\* What a step must establish of the array and of the other variables.
LEMMA ShapeInvNext ==
    ASSUME Shape(messages', processing', failed'),
           Numbered(messages', Len(accepted')),
           accepted' \in Seq(1..MaxMessages),
           \A i \in 1..Len(accepted') : accepted'[i] = i,
           sequence' \in 0..MaxMessages,
           sequence' = Len(accepted') + Len(messages'),
           processor' \in Processors \union {NoProcessor},
           closed' \in BOOLEAN,
           processing' \in BOOLEAN,
           failed' \in BOOLEAN,
           idleWaiters' \in SUBSET Waiters,
           NoStalledPump',
           NoLostWakeup'
    PROVE  Inv'
<1>1. TypeOK'
  BY DEF TypeOK, Shape
<1>2. NoGuidanceLost'
  BY DEF NoGuidanceLost, Numbered
<1>3. HeadOnlyInFlight'
  BY DEF HeadOnlyInFlight, Shape
<1> QED
  BY <1>1, <1>2, <1>3 DEF Inv

\* Each action preserves the invariant.
LEMMA NextInv == Inv /\ [Next]_vars => Inv'
<1> SUFFICES ASSUME Inv, [Next]_vars PROVE Inv'
  OBVIOUS
<1> DEFINE n == Len(accepted)
<1>a. /\ Shape(messages, processing, failed)
      /\ Numbered(messages, n)
      /\ messages \in Seq(Message)
      /\ Len(messages) \in Nat /\ n \in Nat
      /\ messages # <<>> => Len(messages) \in Nat \ {0}
  BY InvShape, LenProperties, EmptySeq DEF Inv, TypeOK
<1>b. /\ sequence \in 0..MaxMessages /\ sequence = n + Len(messages)
      /\ accepted \in Seq(1..MaxMessages)
      /\ \A i \in 1..n : accepted[i] = i
      /\ processor \in Processors \union {NoProcessor}
      /\ closed \in BOOLEAN /\ processing \in BOOLEAN /\ failed \in BOOLEAN
      /\ idleWaiters \in SUBSET Waiters
      /\ idleWaiters # {} => processing
      /\ ~processing /\ ~failed /\ processor # NoProcessor => messages = <<>>
  BY DEF Inv, TypeOK, NoGuidanceLost, NoLostWakeup, NoStalledPump
<1>c. MaxMessages \in Nat
  BY QueueAssumption
<1>d. ~(processing /\ failed)
  BY <1>a DEF Shape
<1>1. CASE Enqueue
  <2> DEFINE new  == [sequence |-> sequence + 1, status |-> "queued"]
             msgs == Append(messages, new)
  <2>1. new \in Message
    BY <1>1, <1>b, <1>c DEF Enqueue, Message, MessageStatus
  <2>2. /\ msgs \in Seq(Message)
        /\ Len(msgs) = Len(messages) + 1
        /\ \A i \in 1..Len(messages) : msgs[i] = messages[i]
        /\ msgs[Len(messages) + 1] = new
    BY <1>a, <2>1, AppendProperties
  <2> HIDE DEF msgs
  <2>3. Shape(msgs, processing, failed)
    <3>1. msgs # <<>>
      BY <1>a, <2>2, EmptySeq
    <3>2. CASE messages = <<>>
      <4>1. Len(msgs) = 1 /\ msgs[1].status = "queued"
        BY <2>2, <3>2, EmptySeq
      <4> QED
        BY <1>a, <2>2, <3>1, <3>2, <4>1 DEF Shape
    <3>3. CASE messages # <<>>
      <4>1. msgs[1] = messages[1]
        BY <1>a, <2>2, <3>3
      <4>2. \A i \in 2..Len(msgs) : msgs[i].status = "queued"
        BY <1>a, <2>2 DEF Shape
      <4> QED
        BY <1>a, <2>2, <3>1, <3>3, <4>1, <4>2 DEF Shape
    <3> QED
      BY <3>2, <3>3
  <2>4. Numbered(msgs, n)
    <3>1. \A i \in 1..Len(messages) : msgs[i].sequence = n + i
      BY <1>a, <2>2 DEF Numbered
    <3>2. msgs[Len(messages) + 1].sequence = n + (Len(messages) + 1)
      BY <1>a, <1>b, <2>2
    <3>3. \A i \in 1..Len(msgs) : i \in 1..Len(messages) \/ i = Len(messages) + 1
      BY <1>a, <2>2
    <3> QED
      BY <3>1, <3>2, <3>3 DEF Numbered
  <2>5. StartPump(msgs, processor, failed)
    BY <1>1 DEF Enqueue, msgs
  <2>6. /\ Shape(messages', processing', failed)
        /\ Numbered(messages', n)
        /\ Len(messages') = Len(msgs)
        /\ processing => processing'
        /\ processing' \in BOOLEAN
        /\ ~processing' /\ ~failed /\ processor # NoProcessor => messages' = <<>>
    BY <1>b, <2>3, <2>4, <2>5, StartPumpProperties
  <2>7. /\ UNCHANGED <<processor, failed, closed, idleWaiters, accepted>>
        /\ sequence' = sequence + 1 /\ sequence < MaxMessages
    BY <1>1 DEF Enqueue
  <2>8. NoStalledPump' /\ NoLostWakeup'
    BY <1>b, <2>6, <2>7 DEF NoStalledPump, NoLostWakeup
  <2>9. sequence' \in 0..MaxMessages /\ sequence' = Len(accepted') + Len(messages')
    BY <1>a, <1>b, <1>c, <2>2, <2>6, <2>7
  <2> QED
    BY <1>b, <2>6, <2>7, <2>8, <2>9, ShapeInvNext
<1>2. ASSUME NEW p \in Processors, SetProcessor(p) PROVE Inv'
  <2>1. /\ StartPump(messages, p, failed)
        /\ processor' = p
        /\ UNCHANGED <<sequence, failed, closed, idleWaiters, accepted>>
    BY <1>2 DEF SetProcessor
  <2>2. /\ Shape(messages', processing', failed)
        /\ Numbered(messages', n)
        /\ Len(messages') = Len(messages)
        /\ processing => processing'
        /\ processing' \in BOOLEAN
        /\ ~processing' /\ ~failed /\ p # NoProcessor => messages' = <<>>
    BY <1>a, <1>b, <2>1, StartPumpProperties
  <2>3. NoStalledPump' /\ NoLostWakeup'
    BY <1>b, <2>1, <2>2 DEF NoStalledPump, NoLostWakeup
  <2> QED
    BY <1>b, <2>1, <2>2, <2>3, ShapeInvNext
<1>3. ASSUME NEW p \in Processors, RemoveProcessor(p) PROVE Inv'
  <2>1. /\ processor' = NoProcessor
        /\ UNCHANGED <<messages, sequence, processing, failed, closed,
                       idleWaiters, accepted>>
    BY <1>3 DEF RemoveProcessor
  <2>2. NoStalledPump' /\ NoLostWakeup'
    BY <1>b, <2>1 DEF NoStalledPump, NoLostWakeup
  <2> QED
    BY <1>a, <1>b, <2>1, <2>2, ShapeInvNext
<1>4. CASE RetryFailed
  <2> DEFINE msgs == IF messages # <<>> /\ messages[1].status = "failed"
                     THEN WithHead(messages, "queued") ELSE messages
  <2>1. /\ failed /\ failed' = FALSE
        /\ StartPump(msgs, processor, FALSE)
        /\ UNCHANGED <<sequence, processor, closed, idleWaiters, accepted>>
    BY <1>4 DEF RetryFailed
  <2>2. messages # <<>> /\ messages[1].status = "failed" /\ ~processing
    BY <1>a, <1>d, <2>1 DEF Shape
  <2>3. /\ msgs \in Seq(Message) /\ msgs # <<>>
        /\ Len(msgs) = Len(messages)
        /\ msgs[1].status = "queued"
        /\ \A i \in 2..Len(messages) : msgs[i] = messages[i]
        /\ Numbered(msgs, n)
    BY <1>a, <2>2, WithHeadProperties DEF MessageStatus
  <2> HIDE DEF msgs
  <2>4. \/ /\ processor = NoProcessor
           /\ messages' = msgs /\ processing' = processing
        \/ /\ processor # NoProcessor
           /\ messages' = WithHead(msgs, "processing") /\ processing' = TRUE
    BY <2>1, <2>2, <2>3 DEF StartPump
  <2>5. /\ Shape(messages', processing', failed')
        /\ Numbered(messages', n)
        /\ Len(messages') = Len(msgs)
        /\ processing' \in BOOLEAN
        /\ ~processing' /\ processor # NoProcessor => messages' = <<>>
    <3>1. \A i \in 2..Len(messages) : msgs[i].status = "queued"
      BY <1>a, <2>3 DEF Shape
    <3>2. CASE processor = NoProcessor
      BY <1>b, <2>1, <2>2, <2>3, <2>4, <3>1, <3>2 DEF Shape
    <3>3. CASE processor # NoProcessor
      <4>1. /\ messages' \in Seq(Message) /\ messages' # <<>>
            /\ Len(messages') = Len(messages)
            /\ messages'[1].status = "processing"
            /\ \A i \in 2..Len(messages) : messages'[i] = msgs[i]
            /\ Numbered(messages', n)
        BY <2>3, <2>4, <3>3, WithHeadProperties DEF MessageStatus
      <4>2. \A i \in 2..Len(messages') : messages'[i].status = "queued"
        BY <3>1, <4>1
      <4>3. Shape(messages', processing', failed')
        BY <2>1, <2>4, <3>3, <4>1, <4>2 DEF Shape
      <4> QED
        BY <2>3, <2>4, <3>3, <4>1, <4>3
    <3> QED
      BY <3>2, <3>3
  <2>6. NoStalledPump' /\ NoLostWakeup'
    BY <1>b, <2>1, <2>2, <2>5 DEF NoStalledPump, NoLostWakeup
  <2> QED
    BY <1>b, <2>1, <2>3, <2>5, <2>6, ShapeInvNext
<1>5. ASSUME NEW w \in Waiters, WaitForIdle(w) PROVE Inv'
  <2>1. /\ processing
        /\ idleWaiters' = idleWaiters \union {w}
        /\ UNCHANGED <<messages, sequence, processor, processing, failed, closed,
                       accepted>>
    BY <1>5 DEF WaitForIdle
  <2>2. NoStalledPump' /\ NoLostWakeup'
    BY <1>b, <2>1 DEF NoStalledPump, NoLostWakeup
  <2> QED
    BY <1>a, <1>b, <2>1, <2>2, ShapeInvNext
<1>6. CASE Close
  <2>1. /\ closed' = TRUE
        /\ processor' = NoProcessor
        /\ idleWaiters' = IF processing THEN idleWaiters ELSE {}
        /\ UNCHANGED <<messages, sequence, processing, failed, accepted>>
    BY <1>6 DEF Close
  <2>2. NoStalledPump' /\ NoLostWakeup'
    BY <1>b, <2>1 DEF NoStalledPump, NoLostWakeup
  <2> QED
    BY <1>a, <1>b, <2>1, <2>2, ShapeInvNext
<1>7. CASE Accept
  <2> DEFINE rest == Tail(messages)
  <2>1. /\ processing
        /\ accepted' = Append(accepted, messages[1].sequence)
        /\ PumpOn(rest)
        /\ UNCHANGED <<sequence, processor, failed, closed>>
    BY <1>7 DEF Accept
  <2>2. messages # <<>> /\ Len(messages) \in Nat \ {0} /\ ~failed
    BY <1>a, <1>d, <2>1 DEF Shape
  <2>3. /\ rest \in Seq(Message)
        /\ Len(rest) = Len(messages) - 1
        /\ \A i \in 1..Len(rest) : rest[i] = messages[i + 1]
    BY <1>a, <2>2, HeadTailProperties
  <2>4. messages[1].sequence = n + 1 /\ n + 1 \in 1..MaxMessages
    BY <1>a, <1>b, <1>c, <2>2 DEF Numbered
  <2>5. /\ accepted' \in Seq(1..MaxMessages)
        /\ Len(accepted') = n + 1
        /\ \A i \in 1..Len(accepted') : accepted'[i] = i
    BY <1>a, <1>b, <2>1, <2>4, AppendProperties
  <2>6. \A i \in 1..Len(rest) : rest[i].status = "queued"
    BY <1>a, <2>2, <2>3 DEF Shape
  <2> HIDE DEF rest
  <2>7. Queued(rest)
    BY <2>3, <2>6 DEF Queued
  <2>8. Numbered(rest, n + 1)
    <3> SUFFICES ASSUME NEW i \in 1..Len(rest) PROVE rest[i].sequence = (n + 1) + i
      BY DEF Numbered
    <3>1. i + 1 \in 1..Len(messages) /\ rest[i] = messages[i + 1]
      BY <1>a, <2>2, <2>3
    <3>2. messages[i + 1].sequence = n + (i + 1)
      BY <1>a, <3>1 DEF Numbered
    <3> QED
      BY <1>a, <3>1, <3>2
  <2>9. /\ Shape(messages', processing', failed)
        /\ Numbered(messages', n + 1)
        /\ Len(messages') = Len(rest)
        /\ processing' \in BOOLEAN
        /\ ~processing' => idleWaiters' = {}
        /\ processing' => idleWaiters' = idleWaiters
        /\ ~processing' /\ ~failed /\ processor # NoProcessor => messages' = <<>>
    BY <2>1, <2>2, <2>7, <2>8, PumpOnProperties
  <2>10. NoStalledPump' /\ NoLostWakeup'
    BY <2>1, <2>9 DEF NoStalledPump, NoLostWakeup
  <2>11. idleWaiters' \in SUBSET Waiters
    BY <1>b, <2>9
  <2>12. sequence' \in 0..MaxMessages /\ sequence' = Len(accepted') + Len(messages')
    BY <1>a, <1>b, <2>1, <2>2, <2>3, <2>5, <2>9
  <2> QED
    BY <1>b, <2>1, <2>5, <2>9, <2>10, <2>11, <2>12, ShapeInvNext
<1>8. CASE Reject
  <2>1. /\ processing
        /\ messages' = WithHead(messages, "failed")
        /\ failed' = TRUE /\ processing' = FALSE /\ idleWaiters' = {}
        /\ UNCHANGED <<sequence, processor, closed, accepted>>
    BY <1>8 DEF Reject
  <2>2. messages # <<>>
    BY <1>a, <2>1 DEF Shape
  <2>3. /\ messages' \in Seq(Message) /\ messages' # <<>>
        /\ Len(messages') = Len(messages)
        /\ messages'[1].status = "failed"
        /\ \A i \in 2..Len(messages) : messages'[i] = messages[i]
        /\ Numbered(messages', n)
    BY <1>a, <2>1, <2>2, WithHeadProperties DEF MessageStatus
  <2>4. Shape(messages', processing', failed')
    <3>1. \A i \in 2..Len(messages') : messages'[i].status = "queued"
      BY <1>a, <2>3 DEF Shape
    <3> QED
      BY <2>1, <2>3, <3>1 DEF Shape
  <2>5. NoStalledPump' /\ NoLostWakeup'
    BY <2>1 DEF NoStalledPump, NoLostWakeup
  <2> QED
    BY <1>b, <2>1, <2>3, <2>4, <2>5, ShapeInvNext
<1>9. CASE UNCHANGED vars
  BY <1>9 DEF vars, Inv, TypeOK, NoGuidanceLost, HeadOnlyInFlight, NoStalledPump,
              NoLostWakeup
<1> QED
  BY <1>1, <1>2, <1>3, <1>4, <1>5, <1>6, <1>7, <1>8, <1>9 DEF Next

-----------------------------------------------------------------------------
\* The invariant holds of every reachable state of the queue.
THEOREM Invariance == Spec => []Inv
  BY InitInv, NextInv, PTL DEF Spec

\* Every variable of the queue keeps its type, sequence numbers included.
THEOREM TypeCorrect == Spec => []TypeOK
<1>1. Inv => TypeOK
  BY DEF Inv
<1> QED
  BY <1>1, Invariance, PTL

\* No guidance is lost, duplicated or reordered by the queue, for any number of
\* messages and whatever is attached, detached, retried or closed meanwhile.
THEOREM SubmissionOrder == Spec => []NoGuidanceLost
<1>1. Inv => NoGuidanceLost
  BY DEF Inv
<1> QED
  BY <1>1, Invariance, PTL

\* At most one message, the oldest, is ever being revised or paused on.
THEOREM OneRevisionAtATime == Spec => []HeadOnlyInFlight
<1>1. Inv => HeadOnlyInFlight
  BY DEF Inv
<1> QED
  BY <1>1, Invariance, PTL

\* The pump never sleeps on deliverable guidance, and whoever waits for the queue
\* waits for a pump that runs.
THEOREM PumpAwake == Spec => [](NoStalledPump /\ NoLostWakeup)
<1>1. Inv => NoStalledPump /\ NoLostWakeup
  BY DEF Inv
<1> QED
  BY <1>1, Invariance, PTL
=============================================================================
