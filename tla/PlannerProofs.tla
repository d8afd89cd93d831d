---------------------------- MODULE PlannerProofs ----------------------------
(***************************************************************************)
(* Two results about the planner.                                           *)
(*                                                                         *)
(* A request, for every limit, delay, grace period and lateness of a timer: *)
(* a plan is one that its session finished, an outage ends with one event    *)
(* that says what the caller got, and a retry starts only while it may.      *)
(*                                                                         *)
(* The TODO document a plan is written as, for every text and whatever is    *)
(* quoted or fenced in it: checking off a task of a valid document is never  *)
(* refused, and does to the tasks what it should.                            *)
(***************************************************************************)
EXTENDS PlannerRequest, TodoDocument, FiniteSetTheorems, SequenceTheorems,
        WellFoundedInduction, TLAPS

-----------------------------------------------------------------------------
(* The inductive invariant.                                                 *)
Texts == {"none", "invalid", "plan"}

Outcomes == Failures \union {"none", "plan", "invalid", "stopped", "timeout"}

Runs == [pc : {"creating", "prompting", "disposing"}, prompt : {0, 1, 2}, text : Texts,
         signal : BOOLEAN, awaited : BOOLEAN, outcome : Outcomes]

Recoveries == [phase : {"off", "waiting", "expiring", "retrying", "over"},
               retries : Nat, elapsed : Nat, left : Int]

Guards == [running : BOOLEAN, timer : {"none", "limit", "grace"}, left : Int,
           settled : BOOLEAN, failure : Failures \union {"none"}, timedOut : BOOLEAN,
           graceExpired : BOOLEAN, cancelled : BOOLEAN]

Shape ==
    /\ config \in [grace : Graces, limited : BOOLEAN]
    /\ run \in Runs \union {NoRun}
    /\ guard \in Guards
    /\ recovery \in Recoveries
    /\ open = IF run.pc \in {"prompting", "disposing"} THEN 1 ELSE 0

\* A guard whose prompt is out.
Live(g) == /\ g.running
           /\ ~g.settled
           /\ ~g.cancelled
           /\ ~g.graceExpired
           /\ g.failure = "none"
           /\ g.timer = "grace" => g.timedOut

\* A guard whose caller has the result.
Ended(g) == /\ ~g.running
            /\ g.graceExpired => g.timedOut
            /\ g.cancelled \/ g.settled \/ g.graceExpired

\* What a run may conclude from its guard.
Concluded(r, g) ==
    /\ r.outcome = "plan" =>
          g.settled /\ g.failure = "none" /\ ~g.graceExpired /\ ~g.cancelled
    /\ g.cancelled => r.outcome = "stopped"
    /\ r.outcome # "none"

RunInv ==
    /\ run.pc = "prompting" => Live(guard) /\ ~run.signal
    /\ run.pc = "disposing" => Concluded(run, guard)

\* Who waits for the run, and what has been answered.
WaitInv ==
    /\ result = "none" => recovery.phase # "over"
    /\ Recovering => result = "none" /\ ~aborted
    /\ recovery.phase \in {"waiting", "expiring"} => run.pc = "none"
    /\ recovery.phase = "retrying" => run.pc # "none"
    /\ run.pc = "none" => result # "none" \/ recovery.phase \in {"waiting", "expiring"}
    /\ run.pc # "none" =>
          IF run.awaited THEN result = "none" /\ recovery.phase \in {"off", "retrying"}
          ELSE result # "none" /\ recovery.phase = "over"

\* A timeout ends the request, and comes before any cancellation; the recovery's
\* own diagnostic comes with its answer.
NotesInv ==
    /\ "timeout" \in notes => \/ run.pc = "disposing" /\ run.outcome = "timeout"
                              \/ run.pc = "none" /\ result # "none"
    /\ guard.cancelled => "timeout" \notin notes
    /\ "network_failure" \in notes => result # "none"

EventOf(answer) == CASE answer = "plan" -> "recovered"
                     [] answer = "cancelled" -> "cancelled"
                     [] answer = "expired" -> "outage_expired"
                     [] OTHER -> "failed"

EventsInv ==
    IF recovery.phase # "over" THEN events = <<>>
    ELSE /\ events = <<EventOf(result), "cleanup">>
         /\ result = "cancelled" =>
               "cancelled" \in notes /\ "network_failure" \notin notes
         /\ result \notin {"plan", "cancelled"} =>
               notes \intersect {"timeout", "cancelled", "network_failure"} # {}

IInv == Shape /\ RunInv /\ WaitInv /\ NotesInv /\ EventsInv

-----------------------------------------------------------------------------
(* What the guard's transitions make of a prompt that is out.               *)
LEMMA PromptedFacts ==
    ASSUME NEW signal \in BOOLEAN
    PROVE  /\ Prompted(signal) \in Guards
           /\ signal => Ended(Prompted(signal)) /\ Prompted(signal).cancelled
           /\ ~signal => Live(Prompted(signal))
<1>1. NoPrompt \in Guards
  BY DEF NoPrompt, Guards
<1>2. Limit \in Int
  BY RequestAssumption
<1>3. /\ NoPrompt.running = FALSE /\ NoPrompt.settled = FALSE
      /\ NoPrompt.cancelled = FALSE /\ NoPrompt.graceExpired = FALSE
      /\ NoPrompt.failure = "none"
  BY DEF NoPrompt
<1> DEFINE none == NoPrompt
           given == [none EXCEPT !.cancelled = TRUE]
           out   == [none EXCEPT !.running = TRUE, !.timer = "limit", !.left = Limit]
<1>4. Prompted(signal) = IF signal THEN given ELSE out
  BY DEF Prompted
<1> HIDE DEF none
<1>5. given \in Guards /\ out \in Guards
  BY <1>1, <1>2 DEF Guards, none
<1>6. given.running = FALSE /\ given.cancelled = TRUE /\ given.graceExpired = FALSE
  BY <1>1, <1>3 DEF Guards, none
<1>7. /\ out.running = TRUE /\ out.settled = FALSE
      /\ out.cancelled = FALSE /\ out.graceExpired = FALSE
  BY <1>1, <1>3 DEF Guards, none
<1>8. out.failure = "none" /\ out.timer = "limit"
  BY <1>1, <1>3 DEF Guards, none
<1> HIDE DEF given, out
<1>9. Ended(given) /\ Live(out)
  BY <1>6, <1>7, <1>8 DEF Ended, Live
<1>10. CASE signal
  BY <1>4, <1>5, <1>6, <1>9, <1>10
<1>11. CASE ~signal
  BY <1>4, <1>5, <1>9, <1>11
<1> QED
  BY <1>10, <1>11

\* A guard whose prompt came back has no timer, and keeps what it had concluded.
LEMMA FinishedFacts ==
    ASSUME NEW g \in Guards
    PROVE  /\ Finished(g) \in Guards
           /\ Finished(g).running = FALSE
           /\ Finished(g).settled = g.settled
           /\ Finished(g).failure = g.failure
           /\ Finished(g).timedOut = g.timedOut
           /\ Finished(g).graceExpired = g.graceExpired
           /\ Finished(g).cancelled = g.cancelled
<1>1. Finished(g) \in Guards
  <2> DEFINE a == [g EXCEPT !.running = FALSE]
             b == [a EXCEPT !.timer = "none"]
  <2>1. Finished(g) = [b EXCEPT !.left = 0]
    BY DEF Finished
  <2>2. a \in Guards
    BY DEF Guards
  <2> HIDE DEF a
  <2>3. b \in Guards
    BY <2>2 DEF Guards
  <2> HIDE DEF b
  <2> QED
    BY <2>1, <2>3 DEF Guards
<1>2. Finished(g).running = FALSE
  BY DEF Finished, Guards
<1>3. Finished(g).settled = g.settled
  BY DEF Finished, Guards
<1>4. Finished(g).failure = g.failure
  BY DEF Finished, Guards
<1>5. Finished(g).timedOut = g.timedOut
  BY DEF Finished, Guards
<1>6. Finished(g).graceExpired = g.graceExpired
  BY DEF Finished, Guards
<1>7. Finished(g).cancelled = g.cancelled
  BY DEF Finished, Guards
<1> QED
  BY <1>1, <1>2, <1>3, <1>4, <1>5, <1>6, <1>7

\* A guard whose prompt settled is ended, with the failure it settled with.
LEMMA SettledFacts ==
    ASSUME NEW g \in Guards, Live(g), NEW f \in Failures \union {"none"}
    PROVE  Settled(g, f) \in Guards /\ Ended(Settled(g, f))
<1> DEFINE h == [g EXCEPT !.settled = TRUE, !.failure = f]
<1>1. h \in Guards
  BY DEF Guards
<1>2. h.settled = TRUE
  BY DEF Guards
<1>3. h.graceExpired = g.graceExpired
  BY DEF Guards
<1>4. Settled(g, f) = Finished(h)
  BY DEF Settled
<1> HIDE DEF h
<1> QED
  BY <1>1, <1>2, <1>3, <1>4, FinishedFacts DEF Live, Ended

\* A guard that is cancelled is ended, and knows why.
LEMMA CancelledFacts ==
    ASSUME NEW g \in Guards, Live(g)
    PROVE  Cancelled(g) \in Guards /\ Ended(Cancelled(g)) /\ Cancelled(g).cancelled
<1> DEFINE h == [g EXCEPT !.cancelled = TRUE]
<1>1. h \in Guards
  BY DEF Guards
<1>2. h.cancelled = TRUE
  BY DEF Guards
<1>3. h.graceExpired = g.graceExpired
  BY DEF Guards
<1>4. Cancelled(g) = Finished(h)
  BY DEF Cancelled
<1> HIDE DEF h
<1> QED
  BY <1>1, <1>2, <1>3, <1>4, FinishedFacts DEF Live, Ended

\* The caller has the result of a prompt that ran out of time for good.
LEMMA HardAbortedFacts ==
    ASSUME NEW g \in Guards, g.timedOut
    PROVE  HardAborted(g) \in Guards /\ Ended(HardAborted(g))
<1> DEFINE h == [g EXCEPT !.graceExpired = TRUE]
<1>1. h \in Guards
  BY DEF Guards
<1>2. h.graceExpired = TRUE
  BY DEF Guards
<1>3. h.timedOut = g.timedOut
  BY DEF Guards
<1>4. HardAborted(g) = Finished(h)
  BY DEF HardAborted
<1> HIDE DEF h
<1> QED
  BY <1>1, <1>2, <1>3, <1>4, FinishedFacts DEF Ended

\* A guard whose timer fired has its grace period before it, or is ended.
LEMMA FiredFacts ==
    ASSUME NEW g \in Guards, Live(g), Due(g), NEW grace \in Nat
    PROVE  /\ Fired(g, grace) \in Guards
           /\ Live(Fired(g, grace)) \/ Ended(Fired(g, grace))
<1> DEFINE late == [g EXCEPT !.timedOut = TRUE]
           more == [late EXCEPT !.timer = "grace", !.left = grace]
<1>1. late \in Guards
  BY DEF Guards
<1>2. late.timedOut = TRUE
  BY DEF Guards
<1>3. CASE g.timer = "limit" /\ grace = 0
  <2>1. Fired(g, grace) = HardAborted(late)
    BY <1>3 DEF Fired, LimitPassed
  <2> HIDE DEF late
  <2> QED
    BY <1>1, <1>2, <2>1, HardAbortedFacts
<1>4. CASE g.timer = "limit" /\ grace # 0
  <2>1. Fired(g, grace) = more
    BY <1>4 DEF Fired, LimitPassed
  <2>2. /\ late.running = g.running /\ late.failure = g.failure
    BY DEF Guards
  <2>3. late.settled = g.settled
    BY DEF Guards
  <2>4. late.cancelled = g.cancelled
    BY DEF Guards
  <2>5. late.graceExpired = g.graceExpired
    BY DEF Guards
  <2>6. grace \in Int
    OBVIOUS
  <2> HIDE DEF late
  <2>7. more \in Guards
    BY <1>1, <2>6 DEF Guards
  <2>8. more.running = late.running /\ more.failure = late.failure
    BY <1>1 DEF Guards
  <2>9. more.settled = late.settled
    BY <1>1 DEF Guards
  <2>10. more.cancelled = late.cancelled
    BY <1>1 DEF Guards
  <2>11. more.graceExpired = late.graceExpired
    BY <1>1 DEF Guards
  <2>12. more.timedOut = late.timedOut
    BY <1>1 DEF Guards
  <2> HIDE DEF more
  <2> QED
    BY <1>2, <2>1, <2>2, <2>3, <2>4, <2>5, <2>7, <2>8, <2>9, <2>10, <2>11, <2>12 DEF Live
<1>5. CASE g.timer = "grace"
  <2>1. Fired(g, grace) = HardAborted(g)
    BY <1>5 DEF Fired
  <2> QED
    BY <1>5, <2>1, HardAbortedFacts DEF Live
<1> QED
  BY <1>3, <1>4, <1>5 DEF Due, Guards

\* How a run with a prompt may go on.
Fits(next, r) ==
    /\ next.run \in Runs
    /\ next.guard \in Guards
    /\ next.run.awaited = r.awaited
    /\ \/ next.run.pc = "prompting" /\ Live(next.guard) /\ ~next.run.signal
       \/ next.run.pc = "disposing" /\ Concluded(next.run, next.guard)
    /\ next.note \subseteq {"cancelled", "timeout", "failure"}
    /\ "timeout" \in next.note =>
          /\ next.run.pc = "disposing"
          /\ next.run.outcome = "timeout"
          /\ ~next.guard.cancelled

\* A run goes on with its prompt, repairs it with one more, or is over.
LEMMA AfterFacts ==
    ASSUME NEW r \in Runs, r.pc = "prompting", NEW g \in Guards, Live(g) \/ Ended(g),
           r.signal => Ended(g) /\ g.cancelled
    PROVE  Fits(After(r, g), r)
<1> DEFINE next == After(r, g)
           ending == Ending(g, r.text)
<1>1. CASE g.running
  BY <1>1 DEF After, Live, Ended, Fits
<1>2. CASE ~g.running /\ ending = "invalid" /\ r.text = "invalid" /\ r.prompt = 1
  <2>1. ~r.signal
    BY <1>2 DEF Ending, Runs
  <2>2. Prompted(r.signal) \in Guards /\ Live(Prompted(r.signal))
    BY <2>1, PromptedFacts DEF Runs
  <2>3. next = [run |-> [r EXCEPT !.prompt = 2], guard |-> Prompted(r.signal), note |-> {}]
    BY <1>2 DEF After
  <2> DEFINE again == [r EXCEPT !.prompt = 2]
  <2>4. again \in Runs /\ again.pc = r.pc
    BY DEF Runs
  <2>5. again.signal = r.signal
    BY DEF Runs
  <2>6. again.awaited = r.awaited
    BY DEF Runs
  <2> HIDE DEF again
  <2>7. next.run = again /\ next.guard = Prompted(r.signal) /\ next.note = {}
    BY <2>3 DEF again
  <2> HIDE DEF next
  <2> QED
    <3>1. next.run \in Runs /\ next.guard \in Guards
      BY <2>2, <2>4, <2>7
    <3>2. next.run.awaited = r.awaited
      BY <2>6, <2>7
    <3>3. next.run.pc = "prompting" /\ Live(next.guard) /\ ~next.run.signal
      BY <2>1, <2>2, <2>4, <2>5, <2>7
    <3> QED
      BY <2>7, <3>1, <3>2, <3>3 DEF Fits, next
<1>3. CASE ~g.running /\ ~(ending = "invalid" /\ r.text = "invalid" /\ r.prompt = 1)
  <2>1. next = [run |-> Disposing(r, ending), guard |-> g, note |-> Note(ending)]
    BY <1>3 DEF After
  <2>2. /\ ending \in Outcomes \ {"none"}
        /\ ending = "plan" =>
              g.settled /\ g.failure = "none" /\ ~g.graceExpired /\ ~g.cancelled
        /\ g.cancelled => ending = "stopped"
    <3>1. Ended(g) /\ g.failure \in Failures \union {"none"}
      BY <1>3 DEF Live, Guards
    <3>2. CASE g.cancelled
      BY <3>2 DEF Ending, Outcomes
    <3>3. CASE ~g.cancelled /\ g.timedOut /\ ~Safe(g, r.text)
      BY <3>3 DEF Ending, Outcomes
    <3>4. CASE ~g.cancelled /\ g.failure # "none" /\ ~(g.timedOut /\ ~Safe(g, r.text))
      BY <3>1, <3>4, RequestAssumption DEF Ending, Outcomes
    <3>5. CASE /\ ~g.cancelled /\ g.failure = "none" /\ r.text = "plan"
               /\ ~(g.timedOut /\ ~Safe(g, r.text))
      <4>1. ending = "plan"
        BY <3>5 DEF Ending
      <4>2. g.settled /\ ~g.graceExpired
        BY <3>1, <3>5 DEF Ended, Safe, CompletedDuringGrace
      <4> QED
        BY <3>5, <4>1, <4>2 DEF Outcomes
    <3>6. CASE /\ ~g.cancelled /\ g.failure = "none" /\ r.text # "plan"
               /\ ~(g.timedOut /\ ~Safe(g, r.text))
      BY <3>6 DEF Ending, Outcomes
    <3> QED
      BY <3>2, <3>3, <3>4, <3>5, <3>6
  <2>3. /\ Note(ending) \subseteq {"cancelled", "timeout", "failure"}
        /\ "timeout" \in Note(ending) => ending = "timeout"
    BY DEF Note
  <2>4. /\ next.run = Disposing(r, ending) /\ next.guard = g
        /\ next.note = Note(ending)
    BY <2>1
  <2> HIDE DEF next, ending
  <2>5. /\ Disposing(r, ending) \in Runs
        /\ Disposing(r, ending).pc = "disposing"
        /\ Disposing(r, ending).outcome = ending
    BY <2>2 DEF Disposing, Runs
  <2>6. Disposing(r, ending).awaited = r.awaited
    BY DEF Disposing, Runs
  <2>7. Concluded(next.run, next.guard)
    BY <2>2, <2>4, <2>5 DEF Concluded
  <2>8. "timeout" \in next.note => ending = "timeout" /\ ~g.cancelled
    BY <2>2, <2>3, <2>4
  <2> QED
    <3>1. next.run \in Runs /\ next.guard \in Guards
      BY <2>4, <2>5
    <3>2. next.run.awaited = r.awaited
      BY <2>4, <2>6
    <3>3. next.run.pc = "disposing" /\ Concluded(next.run, next.guard)
      BY <2>4, <2>5, <2>7
    <3>4. "timeout" \in next.note =>
             next.run.outcome = "timeout" /\ ~next.guard.cancelled
      BY <2>4, <2>5, <2>8
    <3>5. next.note \subseteq {"cancelled", "timeout", "failure"}
      BY <2>3, <2>4
    <3> QED
      BY <3>1, <3>2, <3>3, <3>4, <3>5 DEF Fits, next
<1> QED
  BY <1>1, <1>2, <1>3

-----------------------------------------------------------------------------
(* What the recovery's transitions make of it.                              *)
LEMMA WaitFacts ==
    ASSUME recovery \in Recoveries, NEW phase \in {"waiting", "expiring"},
           NEW ticks \in Int, NEW retries \in Nat, Wait(phase, ticks, retries)
    PROVE  recovery' \in Recoveries /\ recovery'.phase = phase /\ events' = events
<1> DEFINE a == [recovery EXCEPT !.phase = phase]
           b == [a EXCEPT !.left = ticks]
<1>1. recovery' = [b EXCEPT !.retries = retries]
  BY DEF Wait
<1>2. a \in Recoveries /\ a.phase = phase
  BY DEF Recoveries
<1> HIDE DEF a
<1>3. b \in Recoveries /\ b.phase = phase
  BY <1>2 DEF Recoveries
<1> HIDE DEF b
<1> QED
  BY <1>1, <1>3 DEF Recoveries, Wait

\* After a failure the request waits, for the retry or for its deadline.
LEMMA ScheduleFacts ==
    ASSUME recovery \in Recoveries, NEW limited, Schedule(limited)
    PROVE  /\ recovery' \in Recoveries
           /\ recovery'.phase \in {"waiting", "expiring"}
           /\ events' = events
<1>1. PICK d \in Delays(Counted(recovery.retries)) : Scheduled(limited, d)
  BY DEF Schedule
<1>2. d \in Int
  BY <1>1 DEF Delays
<1>3. recovery.retries \in Nat /\ Counted(recovery.retries) \in Nat
  BY DEF Recoveries, Counted
<1>4. Remaining \in Int
  BY RecoveryAssumption DEF Remaining, Recoveries
<1>5. \/ Wait("expiring", Remaining, recovery.retries)
      \/ Wait("waiting", d, Counted(recovery.retries))
  BY <1>1 DEF Scheduled
<1> QED
  BY <1>2, <1>3, <1>4, <1>5, WaitFacts

\* A recovery that is over told its last event and then cleaned up.
LEMMA OverFacts ==
    ASSUME recovery \in Recoveries, events = <<>>, NEW event, Over(event)
    PROVE  /\ recovery' \in Recoveries
           /\ recovery'.phase = "over"
           /\ events' = <<event, "cleanup">>
<1> DEFINE a == [recovery EXCEPT !.phase = "over"]
<1>1. recovery' = [a EXCEPT !.left = 0]
  BY DEF Over
<1>2. a \in Recoveries /\ a.phase = "over"
  BY DEF Recoveries
<1> HIDE DEF a
<1>3. recovery' \in Recoveries /\ recovery'.phase = "over"
  BY <1>1, <1>2 DEF Recoveries
<1>4. events' = <<event, "cleanup">>
  BY DEF Over
<1> QED
  BY <1>3, <1>4

-----------------------------------------------------------------------------
(* The ways in which a run goes on.                                         *)
\* The prompt of a run goes on or is over; nobody else learns of it.
LEMMA GoesOn ==
    ASSUME IInv, run.pc \in {"creating", "prompting"},
           NEW next, NEW r, Fits(next, r), r.awaited = run.awaited,
           run' = next.run, guard' = next.guard, notes' = notes \union next.note,
           open' = 1, UNCHANGED config, RequestUnchanged, Recovering => ~aborted'
    PROVE  IInv'
<1>1. Shape'
  <2>1. run' \in Runs /\ guard' \in Guards /\ run'.pc \in {"prompting", "disposing"}
    BY DEF Fits
  <2> QED
    BY <2>1 DEF IInv, Shape, RequestUnchanged
<1>2. RunInv'
  <2>1. CASE next.run.pc = "prompting" /\ Live(next.guard) /\ ~next.run.signal
    BY <2>1 DEF RunInv, Live
  <2>2. CASE next.run.pc = "disposing" /\ Concluded(next.run, next.guard)
    BY <2>2 DEF RunInv, Concluded
  <2> QED
    BY <2>1, <2>2 DEF Fits
<1>3. WaitInv'
  <2>1. run'.pc \in {"prompting", "disposing"} /\ run.pc # "none"
    BY DEF Fits
  <2>2. run'.awaited = run.awaited
    BY DEF Fits
  <2>3. recovery' = recovery /\ result' = result
    BY DEF RequestUnchanged
  <2>4. WaitInv
    BY DEF IInv
  <2> QED
    BY <2>1, <2>2, <2>3, <2>4 DEF WaitInv, Recovering
<1>4. NotesInv'
  <2>1. "timeout" \notin notes
    BY DEF IInv, NotesInv
  <2>2. "network_failure" \notin next.note
    BY DEF Fits
  <2> QED
    BY <2>1, <2>2 DEF IInv, NotesInv, Fits, RequestUnchanged
<1>5. EventsInv'
  <2>1. "network_failure" \notin next.note
    BY DEF Fits
  <2> QED
    BY <2>1 DEF IInv, EventsInv, RequestUnchanged
<1> QED
  BY <1>1, <1>2, <1>3, <1>4, <1>5 DEF IInv

\* A run that has not been noted as timed out, or whose outcome says so, ends.
LEMMA RunOver ==
    ASSUME IInv, run.pc # "none", NEW outcome,
           outcome \notin {"none", "expired", "cancelled"},
           "timeout" \in notes => outcome = "timeout",
           RunEnds(outcome, notes), open' = 0, UNCHANGED <<guard, config, aborted>>
    PROVE  IInv'
<1>1. /\ config' = config /\ guard' = guard /\ aborted' = aborted
      /\ run' = NoRun /\ run'.pc = "none"
  BY DEF RunEnds, NoRun
<1>2. RunInv'
  BY <1>1 DEF RunInv
<1>3. recovery \in Recoveries
  BY DEF IInv, Shape
<1>4. ASSUME recovery' \in Recoveries
      PROVE  Shape'
  BY <1>1, <1>4 DEF IInv, Shape
<1>5. CASE ~run.awaited
  <2>1. notes' = notes /\ result' = result /\ recovery' = recovery /\ events' = events
    BY <1>5 DEF RunEnds
  <2>2. result # "none" /\ recovery.phase = "over"
    BY <1>5 DEF IInv, WaitInv
  <2>3. WaitInv'
    BY <1>1, <2>1, <2>2 DEF WaitInv, Recovering
  <2>4. NotesInv'
    BY <1>1, <2>1, <2>2 DEF IInv, NotesInv
  <2>5. EventsInv'
    BY <2>1 DEF IInv, EventsInv
  <2> QED
    BY <1>2, <1>3, <1>4, <2>1, <2>3, <2>4, <2>5 DEF IInv
<1>6. CASE run.awaited /\ recovery.phase = "off"
  <2>1. result = "none" /\ events = <<>>
    BY <1>6 DEF IInv, WaitInv, EventsInv
  <2>2. FirstSettles(outcome, notes)
    BY <1>6 DEF RunEnds
  <2>3. ASSUME result' # "none", recovery' = recovery, events' = events,
               notes' \subseteq notes \union {"cancelled"}
        PROVE  IInv'
    <3>1. WaitInv'
      BY <1>1, <1>6, <2>3 DEF WaitInv, Recovering
    <3>2. NotesInv'
      BY <1>1, <2>3 DEF IInv, NotesInv
    <3>3. EventsInv'
      BY <1>6, <2>1, <2>3 DEF EventsInv
    <3> QED
      BY <1>2, <1>3, <1>4, <2>3, <3>1, <3>2, <3>3 DEF IInv
  <2>4. ASSUME ~aborted, outcome = "network", result' = "none", notes' = notes,
               Schedule(config.limited)
        PROVE  IInv'
    <3>1. /\ recovery' \in Recoveries /\ recovery'.phase \in {"waiting", "expiring"}
          /\ events' = events
      BY <1>3, <2>4, ScheduleFacts
    <3>2. WaitInv'
      BY <1>1, <2>4, <3>1 DEF WaitInv, Recovering
    <3>3. NotesInv'
      BY <1>1, <2>1, <2>4 DEF IInv, NotesInv
    <3>4. EventsInv'
      BY <2>1, <3>1 DEF EventsInv
    <3> QED
      BY <1>2, <1>4, <3>1, <3>2, <3>3, <3>4 DEF IInv
  <2> QED
    BY <2>1, <2>2, <2>3, <2>4 DEF FirstSettles, Answers, Pending
<1>7. CASE run.awaited /\ recovery.phase = "retrying"
  <2>1. result = "none" /\ events = <<>> /\ ~aborted
    BY <1>7 DEF IInv, WaitInv, EventsInv, Recovering
  <2>2. RetryEnds(outcome, notes)
    BY <1>7 DEF RunEnds
  <2>3. CASE Schedule(config.limited) /\ outcome = "network"
    <3>1. /\ recovery' \in Recoveries /\ recovery'.phase \in {"waiting", "expiring"}
          /\ events' = events
      BY <1>3, <2>3, ScheduleFacts
    <3>2. result' = "none" /\ notes' = notes
      BY <2>1, <2>2, <3>1 DEF RetryEnds, Pending
    <3>3. WaitInv'
      BY <1>1, <2>1, <3>1, <3>2 DEF WaitInv, Recovering
    <3>4. NotesInv'
      BY <1>1, <2>1, <2>3, <3>2 DEF IInv, NotesInv
    <3>5. EventsInv'
      BY <2>1, <3>1 DEF EventsInv
    <3> QED
      BY <1>2, <1>4, <3>1, <3>3, <3>4, <3>5 DEF IInv
  <2>4. ASSUME NEW event, Over(event),
               event = EventOf(IF outcome = "network" THEN "expired" ELSE outcome)
        PROVE  IInv'
    <3>1. /\ recovery' \in Recoveries /\ recovery'.phase = "over"
          /\ events' = <<event, "cleanup">>
      BY <1>3, <2>1, <2>4, OverFacts
    <3>2. /\ result' = IF outcome = "network" THEN "expired" ELSE outcome
          /\ notes' = IF outcome = "plan" THEN notes ELSE Reported(notes)
      BY <2>2, <3>1 DEF RetryEnds, Answers
    <3>3. result' \notin {"none", "cancelled"}
      BY <3>2
    <3>4. notes' \subseteq notes \union {"network_failure"}
      BY <3>2 DEF Reported
    <3>5. result' # "plan" =>
             notes' \intersect {"timeout", "cancelled", "network_failure"} # {}
      BY <3>2 DEF Reported
    <3>6. WaitInv'
      BY <1>1, <3>1, <3>3 DEF WaitInv, Recovering
    <3>7. NotesInv'
      BY <1>1, <3>3, <3>4 DEF IInv, NotesInv
    <3>8. EventsInv'
      BY <2>4, <3>1, <3>2, <3>3, <3>5 DEF EventsInv
    <3> QED
      BY <1>2, <1>4, <3>1, <3>6, <3>7, <3>8 DEF IInv
  <2>5. CASE outcome = "plan"
    <3>1. Over("recovered")
      BY <2>2, <2>5 DEF RetryEnds, RetrySettles, Class
    <3> QED
      BY <2>4, <2>5, <3>1 DEF EventOf
  <2>6. CASE outcome = "network" /\ ~Schedule(config.limited)
    <3>1. Over("outage_expired")
      BY <2>2, <2>6 DEF RetryEnds, RetrySettles, Class
    <3> QED
      BY <2>4, <2>6, <3>1 DEF EventOf
  <2>7. CASE outcome \notin {"plan", "network"}
    <3>1. Over("failed")
      BY <2>2, <2>7 DEF RetryEnds, RetrySettles, Class
    <3> QED
      BY <2>4, <2>7, <3>1 DEF EventOf
  <2> QED
    BY <2>3, <2>5, <2>6, <2>7
<1> QED
  BY <1>5, <1>6, <1>7 DEF RunEnds

\* Where a run stands when its signal fires.
ToldFits(next, awaited) ==
    /\ next.run.pc = "none" <=> run.pc = "none"
    /\ next.run \in Runs \union {NoRun}
    /\ next.guard \in Guards
    /\ next.run.pc # "none" =>
          /\ next.run.awaited = (run.awaited /\ awaited)
          /\ next.run.pc = "creating" <=> run.pc = "creating"
          /\ next.run.pc = "prompting" => Live(next.guard) /\ ~next.run.signal
          /\ next.run.pc = "disposing" => Concluded(next.run, next.guard)
    /\ next.note \subseteq {"cancelled", "timeout", "failure"}
    /\ "timeout" \in notes \union next.note =>
          \/ next.run.pc = "disposing" /\ next.run.outcome = "timeout"
          \/ run.pc = "none" /\ result # "none"
    /\ next.guard.cancelled => "timeout" \notin notes \union next.note

\* What becomes of the run and the guard when the caller aborts fits the invariant.
LEMMA ToldFacts ==
    ASSUME IInv, NEW awaited \in BOOLEAN
    PROVE  ToldFits(Told(awaited), awaited)
<1> DEFINE next == Told(awaited)
           signalled == [run EXCEPT !.signal = TRUE]
           told == [run EXCEPT !.signal = TRUE, !.awaited = @ /\ awaited]
<1>1. /\ run \in Runs \union {NoRun} /\ guard \in Guards
      /\ RunInv /\ NotesInv
  BY DEF IInv, Shape
<1>2. ASSUME run \in Runs
      PROVE  /\ told \in Runs
             /\ told.pc = run.pc
             /\ told.outcome = run.outcome
             /\ told.signal = TRUE
             /\ told.awaited = (run.awaited /\ awaited)
  <2>1. signalled \in Runs /\ signalled.pc = run.pc /\ signalled.outcome = run.outcome
    BY <1>2 DEF Runs
  <2>2. signalled.signal = TRUE
    BY <1>2 DEF Runs
  <2>3. signalled.awaited = run.awaited
    BY <1>2 DEF Runs
  <2>4. told = [signalled EXCEPT !.awaited = run.awaited /\ awaited]
    BY <1>2 DEF Runs
  <2> HIDE DEF signalled, told
  <2> DEFINE stays == run.awaited /\ awaited
  <2>5. stays \in BOOLEAN
    OBVIOUS
  <2>6. told = [signalled EXCEPT !.awaited = stays]
    BY <2>4
  <2> HIDE DEF stays
  <2>7. told \in Runs /\ told.pc = signalled.pc /\ told.outcome = signalled.outcome
    BY <2>1, <2>5, <2>6 DEF Runs
  <2>8. told.signal = signalled.signal
    BY <2>1, <2>6 DEF Runs
  <2>9. told.awaited = stays
    BY <2>1, <2>6 DEF Runs
  <2> QED
    BY <2>1, <2>2, <2>7, <2>8, <2>9 DEF stays
<1>3. CASE run.pc = "none"
  <2>1. next = [run |-> run, guard |-> guard, note |-> {}]
    BY <1>3 DEF Told
  <2>2. next.run = run /\ next.guard = guard /\ next.note = {}
    BY <2>1
  <2> HIDE DEF next
  <2>3. /\ "timeout" \in notes => result # "none"
        /\ guard.cancelled => "timeout" \notin notes
    BY <1>1, <1>3 DEF NotesInv
  <2> QED
    BY <1>1, <1>3, <2>2, <2>3 DEF ToldFits, next
<1>4. CASE run.pc = "prompting"
  <2>1. run \in Runs /\ Live(guard)
    BY <1>1, <1>4 DEF NoRun, RunInv
  <2>2. next = After(told, Cancelled(guard))
    BY <1>4 DEF Told
  <2>3. Fits(next, told)
    <3> HIDE DEF next, told
    <3> QED
      BY <1>1, <1>2, <1>4, <2>1, <2>2, CancelledFacts, AfterFacts
  <2>4. next.run.pc = "disposing"
    <3>1. ~Cancelled(guard).running
      BY <1>1, <2>1, CancelledFacts DEF Ended
    <3>2. Ending(Cancelled(guard), told.text) = "stopped"
      BY <1>1, <2>1, CancelledFacts DEF Ending
    <3>3. next.run = Disposing(told, "stopped")
      <4> HIDE DEF told
      <4> QED
        BY <2>2, <3>1, <3>2 DEF After
    <3> HIDE DEF told, next
    <3> QED
      BY <1>2, <2>1, <3>3 DEF Disposing, Runs
  <2>5. "timeout" \notin notes
    BY <1>1, <1>4 DEF NotesInv
  <2>6. told.awaited = (run.awaited /\ awaited)
    BY <1>2, <2>1
  <2> HIDE DEF next, told
  <2>7. /\ next.run \in Runs /\ next.guard \in Guards
        /\ Concluded(next.run, next.guard)
        /\ next.note \subseteq {"cancelled", "timeout", "failure"}
        /\ "timeout" \in next.note =>
              next.run.outcome = "timeout" /\ ~next.guard.cancelled
    BY <2>3, <2>4 DEF Fits
  <2>8. next.run.awaited = (run.awaited /\ awaited)
    BY <2>3, <2>6 DEF Fits
  <2> QED
    BY <1>4, <2>4, <2>5, <2>7, <2>8 DEF ToldFits, next
<1>5. CASE run.pc \in {"creating", "disposing"}
  <2>1. run \in Runs
    BY <1>1, <1>5 DEF NoRun
  <2>2. next = [run |-> told, guard |-> guard, note |-> {}]
    BY <1>5 DEF Told
  <2>3. next.run = told /\ next.guard = guard /\ next.note = {}
    BY <2>2
  <2> HIDE DEF next, told
  <2>4. next.run.awaited = (run.awaited /\ awaited)
    BY <1>2, <2>1, <2>3
  <2>5. /\ next.run \in Runs
        /\ next.run.pc = run.pc /\ next.run.outcome = run.outcome
    BY <1>2, <2>1, <2>3
  <2>6. run.pc = "disposing" => Concluded(next.run, next.guard)
    BY <1>1, <2>3, <2>5 DEF RunInv, Concluded
  <2>7. /\ "timeout" \in notes => run.pc = "disposing" /\ run.outcome = "timeout"
        /\ guard.cancelled => "timeout" \notin notes
    BY <1>1, <1>5 DEF NotesInv
  <2> QED
    BY <1>1, <1>5, <2>3, <2>4, <2>5, <2>6, <2>7 DEF ToldFits, next
<1> QED
  BY <1>1, <1>3, <1>4, <1>5 DEF Runs, NoRun

\* The request is left by its recovery.
LEMMA LeftFacts ==
    ASSUME IInv, Recovering, NEW next, ToldFits(next, FALSE),
           run' = next.run, guard' = next.guard,
           NEW event, NEW answer, event = EventOf(answer), Over(event), Answers(answer),
           answer \notin {"none", "plan"},
           notes' \in SUBSET (notes \union next.note \union {"cancelled", "network_failure"}),
           notes \union next.note \subseteq notes',
           answer = "cancelled" => "cancelled" \in notes' /\ "network_failure" \notin notes',
           notes' \intersect {"timeout", "cancelled", "network_failure"} # {},
           UNCHANGED <<open, config>>
    PROVE  IInv'
<1>1. recovery \in Recoveries /\ events = <<>> /\ result' = answer
  BY DEF IInv, Shape, EventsInv, Recovering, Answers
<1>2. /\ recovery' \in Recoveries /\ recovery'.phase = "over"
      /\ events' = <<event, "cleanup">>
  BY <1>1, OverFacts
<1>3. Shape'
  <2>1. run' \in Runs \union {NoRun} /\ guard' \in Guards
    BY DEF ToldFits
  <2>2. run'.pc \in {"prompting", "disposing"} <=> run.pc \in {"prompting", "disposing"}
    BY <2>1 DEF ToldFits, IInv, Shape, Runs, NoRun
  <2> QED
    BY <1>2, <2>1, <2>2 DEF IInv, Shape
<1>4. RunInv'
  <2>1. CASE next.run.pc = "prompting"
    BY <2>1 DEF ToldFits, RunInv, Live
  <2>2. CASE next.run.pc = "disposing"
    BY <2>2 DEF ToldFits, RunInv, Concluded
  <2>3. CASE next.run.pc \notin {"prompting", "disposing"}
    BY <2>3 DEF RunInv
  <2> QED
    BY <2>1, <2>2, <2>3
<1>5. WaitInv'
  <2>1. run'.pc # "none" => ~run'.awaited
    BY DEF ToldFits
  <2> QED
    BY <1>1, <1>2, <2>1 DEF WaitInv, Recovering
<1>6. NotesInv'
  <2>1. "timeout" \in notes' => "timeout" \in notes \union next.note
    OBVIOUS
  <2>2. "timeout" \in notes' => \/ run'.pc = "disposing" /\ run'.outcome = "timeout"
                                \/ run'.pc = "none" /\ result' # "none"
    BY <1>1, <2>1 DEF ToldFits
  <2>3. guard'.cancelled => "timeout" \notin notes'
    BY <2>1 DEF ToldFits
  <2> QED
    BY <1>1, <2>2, <2>3 DEF NotesInv
<1>7. EventsInv'
  BY <1>1, <1>2 DEF EventsInv
<1> QED
  BY <1>3, <1>4, <1>5, <1>6, <1>7 DEF IInv

-----------------------------------------------------------------------------
(* The invariant of the specification.                                      *)
LEMMA InitInv ==
    Init => IInv
<1> SUFFICES ASSUME Init
             PROVE  IInv
  OBVIOUS
<1>1. /\ run = Creating(FALSE) /\ guard = NoPrompt /\ notes = {} /\ events = <<>>
      /\ result = "none" /\ open = 0
  BY DEF Init, RecoveryInit
<1>2. recovery \in Recoveries /\ recovery.phase = "off"
  BY DEF Init, RecoveryInit, Recoveries
<1>3. run \in Runs /\ run.pc = "creating"
  BY <1>1 DEF Creating, Runs, Texts, Outcomes
<1>4. run.awaited
  BY <1>1 DEF Creating
<1>5. guard \in Guards
  BY <1>1 DEF NoPrompt, Guards
<1>6. guard.cancelled = FALSE
  BY <1>1 DEF NoPrompt
<1>7. Shape
  BY <1>1, <1>2, <1>3, <1>5 DEF Init, Shape
<1>8. RunInv
  BY <1>3 DEF RunInv
<1>9. WaitInv
  BY <1>1, <1>2, <1>3, <1>4 DEF WaitInv, Recovering
<1>10. NotesInv /\ EventsInv
  BY <1>1, <1>2, <1>6 DEF NotesInv, EventsInv
<1> QED
  BY <1>7, <1>8, <1>9, <1>10 DEF IInv

\* Every step of a request keeps the invariant.
LEMMA StepInv ==
    IInv /\ [Next]_vars => IInv'
<1> SUFFICES ASSUME IInv, [Next]_vars
             PROVE  IInv'
  OBVIOUS
<1> USE DEF Unchanged
<1>1. /\ Shape /\ RunInv /\ WaitInv /\ NotesInv /\ EventsInv
      /\ run.pc # "none" => run \in Runs
  BY DEF IInv, Shape, NoRun
<1>2. CASE Created
  <2> DEFINE sent == [run EXCEPT !.pc = "prompting", !.prompt = 1]
             first == [run EXCEPT !.pc = "prompting"]
  <2>1. run.pc = "creating" /\ run \in Runs /\ Goes(sent, Prompted(run.signal))
    BY <1>1, <1>2 DEF Created
  <2>2. first \in Runs /\ first.pc = "prompting"
    BY <2>1 DEF Runs
  <2>3. first.signal = run.signal
    BY <2>1 DEF Runs
  <2>4. first.awaited = run.awaited
    BY <2>1 DEF Runs
  <2>5. sent = [first EXCEPT !.prompt = 1]
    BY <2>1 DEF Runs
  <2> HIDE DEF first, sent
  <2>6. sent \in Runs /\ sent.pc = "prompting"
    BY <2>2, <2>5 DEF Runs
  <2>7. sent.signal = run.signal
    BY <2>2, <2>3, <2>5 DEF Runs
  <2>8. sent.awaited = run.awaited
    BY <2>2, <2>4, <2>5 DEF Runs
  <2>9. run.signal \in BOOLEAN
    BY <2>1 DEF Runs
  <2> DEFINE asked == Prompted(run.signal)
  <2>10. /\ asked \in Guards
         /\ run.signal => Ended(asked) /\ asked.cancelled
         /\ ~run.signal => Live(asked)
    BY <2>9, PromptedFacts
  <2> HIDE DEF asked
  <2>11. Fits(After(sent, asked), sent)
    BY <2>6, <2>7, <2>10, AfterFacts
  <2>12. /\ run' = After(sent, asked).run /\ guard' = After(sent, asked).guard
         /\ notes' = notes \union After(sent, asked).note
    BY <2>1 DEF Goes, asked
  <2>13. open' = 1
    BY <1>1, <1>2, <2>1 DEF Created, Shape
  <2>14. UNCHANGED config /\ RequestUnchanged /\ (Recovering => ~aborted')
    BY <1>1, <1>2 DEF Created, WaitInv
  <2> QED
    BY <2>1, <2>8, <2>11, <2>12, <2>13, <2>14, GoesOn
<1>3. CASE CreationFails
  <2>1. PICK f \in Failures : RunEnds(f, notes)
    BY <1>3 DEF CreationFails
  <2>2. run.pc = "creating" /\ open' = 0 /\ UNCHANGED <<guard, config, aborted>>
    BY <1>1, <1>3 DEF CreationFails, Shape
  <2>3. f \notin {"none", "expired", "cancelled"}
    BY RequestAssumption
  <2>4. "timeout" \notin notes
    BY <1>1, <2>2 DEF NotesInv
  <2> QED
    BY <2>1, <2>2, <2>3, <2>4, RunOver
<1>4. ASSUME NEW text \in {"none", "invalid", "plan"}, Says(text)
      PROVE  IInv'
  <2>1. /\ run.pc = "prompting" /\ run \in Runs /\ run' = [run EXCEPT !.text = text]
        /\ UNCHANGED <<config, guard, open, aborted, notes, result, recovery, events>>
    BY <1>1, <1>4 DEF Says, RequestUnchanged
  <2>2. run' \in Runs /\ run'.pc = "prompting"
    BY <2>1 DEF Runs, Texts
  <2>3. run'.signal = run.signal
    BY <2>1 DEF Runs
  <2>4. run'.awaited = run.awaited
    BY <2>1 DEF Runs
  <2>5. Shape'
    BY <1>1, <2>1, <2>2 DEF Shape
  <2>6. RunInv'
    BY <1>1, <2>1, <2>2, <2>3 DEF RunInv, Live
  <2>7. WaitInv'
    BY <1>1, <2>1, <2>2, <2>4 DEF WaitInv, Recovering
  <2>8. NotesInv' /\ EventsInv'
    BY <1>1, <2>1, <2>2 DEF NotesInv, EventsInv
  <2> QED
    BY <2>5, <2>6, <2>7, <2>8 DEF IInv
<1>5. ASSUME NEW g, g \in Guards, Live(g) \/ Ended(g), run.pc = "prompting", Goes(run, g),
             UNCHANGED <<open, config, aborted>>, RequestUnchanged
      PROVE  IInv'
  <2>1. run \in Runs /\ ~run.signal
    BY <1>1, <1>5 DEF RunInv
  <2>2. Fits(After(run, g), run)
    BY <1>5, <2>1, AfterFacts
  <2>3. /\ run' = After(run, g).run /\ guard' = After(run, g).guard
        /\ notes' = notes \union After(run, g).note
    BY <1>5 DEF Goes
  <2>4. open' = 1 /\ (Recovering => ~aborted')
    BY <1>1, <1>5 DEF Shape, WaitInv
  <2> QED
    BY <1>5, <2>2, <2>3, <2>4, GoesOn
<1>6. CASE PromptSettles
  <2>1. PICK f \in Failures \union {"none"} : Goes(run, Settled(guard, f))
    BY <1>6 DEF PromptSettles
  <2>2. run.pc = "prompting" /\ guard \in Guards /\ Live(guard)
    BY <1>1, <1>6 DEF PromptSettles, Shape, RunInv
  <2>3. Settled(guard, f) \in Guards /\ Ended(Settled(guard, f))
    BY <2>2, SettledFacts
  <2>4. UNCHANGED <<open, config, aborted>> /\ RequestUnchanged
    BY <1>6 DEF PromptSettles
  <2> QED
    BY <1>5, <2>1, <2>2, <2>3, <2>4
<1>7. CASE PromptTimer
  <2>1. /\ run.pc = "prompting" /\ guard \in Guards /\ Live(guard) /\ Due(guard)
        /\ config.grace \in Nat
    BY <1>1, <1>7, RequestAssumption DEF PromptTimer, Shape, RunInv
  <2> DEFINE fired == Fired(guard, config.grace)
  <2>2. fired \in Guards /\ (Live(fired) \/ Ended(fired))
    BY <2>1, FiredFacts
  <2>3. Goes(run, fired) /\ UNCHANGED <<open, config, aborted>> /\ RequestUnchanged
    BY <1>7 DEF PromptTimer
  <2> HIDE DEF fired
  <2> QED
    BY <1>5, <2>1, <2>2, <2>3
<1>8. CASE Disposed
  <2>1. run.pc = "disposing" /\ run \in Runs /\ Concluded(run, guard)
    BY <1>1, <1>8 DEF Disposed, RunInv
  <2>2. open' = 0 /\ UNCHANGED <<guard, config, aborted>>
    BY <1>1, <1>8, <2>1 DEF Disposed, Shape
  <2>3. run.outcome \notin {"none", "expired", "cancelled"}
    BY <2>1, RequestAssumption DEF Concluded, Runs, Outcomes
  <2>4. "timeout" \in notes => run.outcome = "timeout"
    BY <1>1, <2>1 DEF NotesInv
  <2>5. CASE RunEnds(run.outcome, notes)
    BY <2>1, <2>2, <2>3, <2>4, <2>5, RunOver
  <2>6. CASE run.outcome = "plan" /\ RunEnds("dispose", notes)
    <3>1. "timeout" \notin notes
      BY <2>4, <2>6
    <3> QED
      BY <2>1, <2>2, <2>6, <3>1, RunOver
  <2> QED
    BY <1>8, <2>5, <2>6 DEF Disposed
<1>9. CASE DelayEnds
  <2>1. /\ Recovering /\ result = "none" /\ ~aborted /\ run.pc = "none"
        /\ recovery \in Recoveries
        /\ UNCHANGED <<guard, open, config, aborted>>
    BY <1>1, <1>9 DEF DelayEnds, WaitOver, Recovering, WaitInv, Shape
  <2>2. CASE StartRetry /\ run' = Creating(FALSE) /\ UNCHANGED <<notes, result>>
    <3> DEFINE a == [recovery EXCEPT !.phase = "retrying"]
    <3>1. recovery' = [a EXCEPT !.left = 0] /\ events' = events
      BY <2>2 DEF StartRetry
    <3>2. a \in Recoveries /\ a.phase = "retrying"
      BY <2>1 DEF Recoveries
    <3> HIDE DEF a
    <3>3. recovery' \in Recoveries /\ recovery'.phase = "retrying"
      BY <3>1, <3>2 DEF Recoveries
    <3>4. run' \in Runs /\ run'.pc = "creating"
      BY <2>2 DEF Creating, Runs, Texts, Outcomes
    <3>5. run'.awaited
      BY <2>2 DEF Creating
    <3>6. Shape'
      BY <1>1, <2>1, <3>3, <3>4 DEF Shape
    <3>7. RunInv'
      BY <3>4 DEF RunInv
    <3>8. WaitInv'
      BY <2>1, <2>2, <3>3, <3>4, <3>5 DEF WaitInv, Recovering
    <3>9. NotesInv'
      BY <1>1, <2>1, <2>2 DEF NotesInv
    <3>10. EventsInv'
      BY <1>1, <2>1, <3>1, <3>3 DEF EventsInv, Recovering
    <3> QED
      BY <3>6, <3>7, <3>8, <3>9, <3>10 DEF IInv
  <2>3. CASE Over("outage_expired") /\ Answers("expired") /\ notes' = Reported(notes)
             /\ UNCHANGED run
    <3> DEFINE next == [run |-> run, guard |-> guard, note |-> {}]
    <3>1. next.run = run /\ next.guard = guard /\ next.note = {}
      OBVIOUS
    <3> HIDE DEF next
    <3>2. ToldFits(next, FALSE)
      BY <1>1, <2>1, <3>1 DEF ToldFits, Shape, NotesInv
    <3>3. /\ notes' \in SUBSET (notes \union next.note \union {"cancelled", "network_failure"})
          /\ notes \union next.note \subseteq notes'
          /\ notes' \intersect {"timeout", "cancelled", "network_failure"} # {}
      BY <2>3, <3>1 DEF Reported
    <3> QED
      BY <2>1, <2>3, <3>1, <3>2, <3>3, LeftFacts DEF EventOf
  <2> QED
    BY <1>9, <2>2, <2>3 DEF DelayEnds
<1>10. CASE Deadline
  <2> DEFINE next == Told(FALSE)
  <2>1. /\ Recovering /\ run' = next.run /\ guard' = next.guard
        /\ notes' = Reported(notes \union next.note)
        /\ Over("outage_expired") /\ Answers("expired")
        /\ UNCHANGED <<open, config, aborted>>
    BY <1>10 DEF Deadline, DeadlineDue, Recovering
  <2>2. ToldFits(next, FALSE)
    BY ToldFacts
  <2> HIDE DEF next
  <2>3. /\ notes' \in SUBSET (notes \union next.note \union {"cancelled", "network_failure"})
        /\ notes \union next.note \subseteq notes'
        /\ notes' \intersect {"timeout", "cancelled", "network_failure"} # {}
    BY <2>1 DEF Reported
  <2> QED
    BY <2>1, <2>2, <2>3, LeftFacts DEF EventOf
<1>11. CASE CallerAborts /\ Recovering
  <2> DEFINE next == Told(~Recovering)
  <2>1. /\ run' = next.run /\ guard' = next.guard
        /\ notes' = notes \union next.note \union {"cancelled"}
        /\ Over("cancelled") /\ Answers("cancelled")
        /\ UNCHANGED <<open, config>>
    BY <1>11 DEF CallerAborts
  <2>2. ToldFits(next, FALSE)
    BY <1>11, ToldFacts
  <2> HIDE DEF next
  <2>3. result = "none"
    BY <1>11 DEF CallerAborts
  <2>4. "network_failure" \notin notes'
    BY <1>1, <2>1, <2>2, <2>3 DEF NotesInv, ToldFits
  <2>5. /\ notes' \in SUBSET (notes \union next.note \union {"cancelled", "network_failure"})
        /\ notes \union next.note \subseteq notes'
        /\ "cancelled" \in notes'
        /\ notes' \intersect {"timeout", "cancelled", "network_failure"} # {}
    BY <2>1
  <2> QED
    BY <1>11, <2>1, <2>2, <2>4, <2>5, LeftFacts DEF EventOf
<1>12. CASE CallerAborts /\ ~Recovering
  <2> DEFINE next == Told(~Recovering)
  <2>1. /\ run' = next.run /\ guard' = next.guard /\ notes' = notes \union next.note
        /\ UNCHANGED <<open, config>> /\ result' = result /\ result = "none"
        /\ recovery' = recovery /\ events' = events
    BY <1>12 DEF CallerAborts, RequestUnchanged
  <2>2. ToldFits(next, TRUE)
    BY <1>12, ToldFacts
  <2> HIDE DEF next
  <2>3. run'.pc # "none"
    BY <1>1, <1>12, <2>1, <2>2 DEF WaitInv, Recovering, ToldFits
  <2>4. run'.awaited = run.awaited
    <3>1. run.awaited \in BOOLEAN
      BY <1>1, <2>1, <2>2, <2>3 DEF ToldFits, Runs
    <3> QED
      BY <2>1, <2>2, <2>3, <3>1 DEF ToldFits
  <2>5. Shape'
    <3>1. run' \in Runs \union {NoRun} /\ guard' \in Guards
      BY <2>1, <2>2 DEF ToldFits
    <3>2. run'.pc \in {"prompting", "disposing"} <=> run.pc \in {"prompting", "disposing"}
      BY <1>1, <2>1, <2>2, <3>1 DEF ToldFits, Shape, Runs, NoRun
    <3> QED
      BY <1>1, <2>1, <3>1, <3>2 DEF Shape
  <2>6. RunInv'
    <3>1. CASE next.run.pc = "prompting"
      BY <2>1, <2>2, <3>1 DEF ToldFits, RunInv, Live
    <3>2. CASE next.run.pc = "disposing"
      BY <2>1, <2>2, <3>2 DEF ToldFits, RunInv, Concluded
    <3>3. CASE next.run.pc \notin {"prompting", "disposing"}
      BY <2>1, <3>3 DEF RunInv
    <3> QED
      BY <3>1, <3>2, <3>3
  <2>7. WaitInv'
    <3>1. run.pc # "none"
      BY <2>1, <2>2, <2>3 DEF ToldFits
    <3> QED
      BY <1>1, <1>12, <2>1, <2>3, <2>4, <3>1 DEF WaitInv, Recovering
  <2>8. NotesInv'
    BY <1>1, <2>1, <2>2 DEF ToldFits, NotesInv
  <2>9. EventsInv'
    BY <1>1, <2>1 DEF EventsInv, WaitInv
  <2> QED
    BY <2>5, <2>6, <2>7, <2>8, <2>9 DEF IInv
<1>13. CASE Tick
  <2>1. /\ UNCHANGED <<config, run, open, aborted, notes, result, events>>
        /\ guard \in Guards /\ recovery \in Recoveries
    BY <1>1, <1>13 DEF Tick, Shape
  <2> DEFINE gone == IF guard.timer = "none" THEN guard.left ELSE guard.left - 1
             wait == IF Delaying THEN recovery.left - 1 ELSE recovery.left
             spent == IF Clocked THEN recovery.elapsed + 1 ELSE recovery.elapsed
             a == [recovery EXCEPT !.left = wait]
  <2>2. gone \in Int /\ wait \in Int /\ spent \in Nat
    BY <2>1 DEF Guards, Recoveries
  <2>3. guard' = [guard EXCEPT !.left = gone]
    BY <1>13 DEF Tick
  <2>4. recovery' = [a EXCEPT !.elapsed = spent]
    BY <1>13 DEF Tick
  <2> HIDE DEF gone, wait, spent
  <2>5. a \in Recoveries /\ a.phase = recovery.phase
    BY <2>1, <2>2 DEF Recoveries
  <2> HIDE DEF a
  <2>6. recovery' \in Recoveries /\ recovery'.phase = recovery.phase
    BY <2>2, <2>4, <2>5 DEF Recoveries
  <2>7. guard' \in Guards
    BY <2>1, <2>2, <2>3 DEF Guards
  <2>8. guard'.running = guard.running /\ guard'.failure = guard.failure
    BY <2>1, <2>3 DEF Guards
  <2>9. guard'.settled = guard.settled
    BY <2>1, <2>3 DEF Guards
  <2>10. guard'.cancelled = guard.cancelled
    BY <2>1, <2>3 DEF Guards
  <2>11. guard'.graceExpired = guard.graceExpired
    BY <2>1, <2>3 DEF Guards
  <2>12. guard'.timedOut = guard.timedOut
    BY <2>1, <2>3 DEF Guards
  <2>13. guard'.timer = guard.timer
    BY <2>1, <2>3 DEF Guards
  <2>14. Shape'
    BY <1>1, <2>1, <2>6, <2>7 DEF Shape
  <2>15. RunInv'
    BY <1>1, <2>1, <2>8, <2>9, <2>10, <2>11, <2>12, <2>13 DEF RunInv, Live, Concluded
  <2>16. WaitInv'
    BY <1>1, <2>1, <2>6 DEF WaitInv, Recovering
  <2>17. NotesInv'
    BY <1>1, <2>1, <2>10 DEF NotesInv
  <2>18. EventsInv'
    BY <1>1, <2>1, <2>6 DEF EventsInv
  <2> QED
    BY <2>14, <2>15, <2>16, <2>17, <2>18 DEF IInv
<1>14. CASE UNCHANGED vars
  BY <1>1, <1>14 DEF vars, IInv, Shape, RunInv, WaitInv, NotesInv, EventsInv, Recovering,
                     Live, Concluded
<1> QED
  BY <1>2, <1>3, <1>4, <1>6, <1>7, <1>8, <1>9, <1>10, <1>11, <1>12, <1>13, <1>14 DEF Next

\* Every reachable state of a request satisfies the invariant.
THEOREM RequestInvariant ==
    Spec => []IInv
BY InitInv, StepInv, PTL DEF Spec

\* Whatever the sessions do, however long the limits and late the timers: a plan
\* comes from a prompt that its session finished without a failure and that nobody
\* had given up, and cancellation wins over the timeout.
THEOREM PlanComesFinished ==
    Spec => []PlanFinished
<1>1. IInv => PlanFinished
  BY DEF IInv, RunInv, NotesInv, PlanFinished, Concluded
<1> QED
  BY <1>1, RequestInvariant, PTL

\* An outage ends with one event, before its one cleanup, that says what the caller
\* got, and no failed recovery is silent.
THEOREM OutageIsReported ==
    Spec => []OutcomeReported
<1>1. IInv => OutcomeReported
  <2> SUFFICES ASSUME IInv
               PROVE  OutcomeReported
    OBVIOUS
  <2>1. CASE recovery.phase # "over"
    BY <2>1 DEF IInv, EventsInv, OutcomeReported
  <2>2. CASE recovery.phase = "over"
    <3>1. events = <<EventOf(result), "cleanup">>
      BY <2>2 DEF IInv, EventsInv
    <3>2. events # <<>> /\ events[1] = EventOf(result) /\ Tail(events) = <<"cleanup">>
      <4> HIDE DEF EventOf
      <4> QED
        BY <3>1
    <3> QED
      BY <2>2, <3>2 DEF IInv, EventsInv, OutcomeReported, EventOf
  <2> QED
    BY <2>1, <2>2
<1> QED
  BY <1>1, RequestInvariant, PTL

\* A retry starts before the deadline, without a cancellation, and after the session
\* of the attempt before it has been disposed.
THEOREM RetriesAreAllowed ==
    Spec => RetryAllowed
<1> DEFINE Allowed == run.pc = "none" /\ run'.pc = "creating" =>
                         /\ config.limited => recovery.elapsed < MaxOutage
                         /\ ~aborted'
                         /\ open = 0
<1>1. IInv /\ [Next]_vars => [Allowed]_vars
  <2> SUFFICES ASSUME IInv, Next, run.pc = "none", run'.pc = "creating"
               PROVE  Allowed
    OBVIOUS
  <2>1. run' # run /\ run'.pc # "none"
    OBVIOUS
  <2>2. DelayEnds /\ MayRetry(config.limited)
    <3>1. ~CallerAborts /\ ~Deadline
      <4> DEFINE same == [run |-> run, guard |-> guard, note |-> {}]
      <4>1. Told(FALSE) = same /\ Told(~Recovering) = same
        BY DEF Told
      <4>2. same.run = run
        OBVIOUS
      <4> HIDE DEF same
      <4> QED
        BY <2>1, <4>1, <4>2 DEF CallerAborts, Deadline
    <3> QED
      BY <2>1, <3>1 DEF Next, Created, CreationFails, Says, PromptSettles, PromptTimer,
                        Disposed, DelayEnds, Tick, RunEnds, NoRun
  <2>3. open = 0 /\ ~aborted
    BY <2>2 DEF IInv, Shape, WaitInv, MayRetry, Recovering
  <2>4. aborted' = aborted
    BY <2>2 DEF DelayEnds, Unchanged
  <2>5. config.limited => recovery.elapsed < MaxOutage
    BY <2>2 DEF MayRetry, Remaining
  <2> QED
    BY <2>3, <2>4, <2>5
<1> QED
  BY <1>1, RequestInvariant, PTL DEF Spec, RetryAllowed

-----------------------------------------------------------------------------
(* TODO documents.                                                          *)

\* A set of numbers has a smallest one.
LEMMA SmallestPosition ==
    ASSUME NEW S, S \subseteq Nat, S # {}
    PROVE  \E i \in S : \A j \in S : i <= j
<1> DEFINE Less == OpToRel(<, Nat)
<1>1. IsWellFoundedOn(Less, Nat)
  BY NatLessThanWellFounded
<1>2. \A j \in Nat, i \in Nat : j < i => <<j, i>> \in Less
  BY Zenon DEF OpToRel
<1> HIDE DEF Less
<1>3. PICK i \in S : \A j \in S : ~ (<<j, i>> \in Less)
  BY <1>1, WFMin
<1>4. \A j \in S : ~ (j < i)
  BY <1>2, <1>3
<1> QED
  BY <1>3, <1>4

\* Positions can be put in their order: each comes after as many as are smaller.
LEMMA OrderIsSequence ==
    ASSUME NEW S, S \subseteq Nat, IsFiniteSet(S)
    PROVE  /\ InOrder(S) \in Seq(S) /\ Len(InOrder(S)) = Cardinality(S)
           /\ DOMAIN InOrder(S) = 1..Cardinality(S)
           /\ \A j, k \in 1..Cardinality(S) : j < k => InOrder(S)[j] < InOrder(S)[k]
<1> DEFINE n == Cardinality(S)
           upTo(x) == {y \in S : y <= x}
           rank == [x \in S |-> Cardinality(upTo(x))]
<1>1. n \in Nat
  BY FS_CardinalityType
<1>2. \A x \in S : IsFiniteSet(upTo(x))
  BY FS_Subset
<1>3. rank \in [S -> 1..n]
  <2> SUFFICES ASSUME NEW x \in S PROVE Cardinality(upTo(x)) \in 1..n
    OBVIOUS
  <2>1. Cardinality(upTo(x)) <= n /\ Cardinality(upTo(x)) \in Nat
    BY <1>2, FS_Subset, FS_CardinalityType
  <2>2. Cardinality(upTo(x)) # 0
    <3>1. x \in upTo(x)
      OBVIOUS
    <3> HIDE DEF upTo
    <3> QED
      BY <1>2, <3>1, FS_EmptySet
  <2> HIDE DEF upTo, n
  <2> QED
    BY <1>1, <2>1, <2>2
<1>4. ASSUME NEW x \in S, NEW y \in S, x < y PROVE rank[x] < rank[y]
  <2> HIDE DEF rank, n
  <2>0. x \in Nat /\ y \in Nat /\ ~ (y <= x)
    BY <1>4
  <2>1. upTo(x) \subseteq upTo(y) /\ y \in upTo(y) /\ y \notin upTo(x)
    <3>1. ASSUME NEW z \in S, z <= x PROVE z <= y
      BY <1>4, <2>0, <3>1
    <3>2. upTo(x) \subseteq upTo(y)
      BY <3>1
    <3>3. y \in upTo(y)
      BY <2>0
    <3>4. y \notin upTo(x)
      BY <2>0
    <3> QED
      BY <3>2, <3>3, <3>4
  <2> USE DEF rank
  <2> HIDE DEF upTo
  <2>2. Cardinality(upTo(x)) <= Cardinality(upTo(y)) /\ Cardinality(upTo(x)) # Cardinality(upTo(y))
    BY <1>2, <2>1, FS_Subset
  <2>3. Cardinality(upTo(x)) \in Nat /\ Cardinality(upTo(y)) \in Nat
    BY <1>2, FS_CardinalityType
  <2> QED
    BY <2>2, <2>3
<1> HIDE DEF rank, n
<1>5. rank \in Injection(S, 1..n)
  <2>1. \A x, y \in S : rank[x] = rank[y] => x = y
    <3> SUFFICES ASSUME NEW x \in S, NEW y \in S, rank[x] = rank[y], x # y PROVE FALSE
      OBVIOUS
    <3>1. x < y \/ y < x
      OBVIOUS
    <3>2. rank[x] \in Nat
      BY <1>1, <1>3
    <3> QED
      BY <1>4, <3>1, <3>2
  <2> QED
    BY <1>3, <2>1 DEF Injection, IsInjective
<1>6. rank \in Surjection(S, 1..n)
  <2>1. IsFiniteSet(1..n) /\ Cardinality(1..n) = n
    BY <1>1, FS_Interval
  <2> QED
    BY <1>5, <2>1, FS_Injection DEF n
<1> DEFINE seq == [k \in 1..n |-> CHOOSE x \in S : Cardinality(upTo(x)) = k]
<1>7. \A k \in 1..n : seq[k] \in S /\ rank[seq[k]] = k
  <2>1. \A k \in 1..n : \E x \in S : rank[x] = k
    BY <1>6 DEF Surjection
  <2>2. \A x \in S : rank[x] = Cardinality(upTo(x))
    BY DEF rank
  <2> HIDE DEF upTo
  <2> QED
    BY <2>1, <2>2
<1>8. InOrder(S) = seq
  BY DEF InOrder, n
<1>9. seq \in [1..n -> S]
  BY <1>7
<1> HIDE DEF seq
<1>10. ASSUME NEW j \in 1..n, NEW k \in 1..n, j < k PROVE seq[j] < seq[k]
  <2>1. seq[j] \in S /\ seq[k] \in S /\ rank[seq[j]] = j /\ rank[seq[k]] = k
    BY <1>7
  <2>2. j \in Nat /\ k \in Nat
    BY <1>1
  <2> HIDE DEF upTo
  <2>3. ~ (seq[k] < seq[j])
    <3> SUFFICES ASSUME seq[k] < seq[j] PROVE FALSE
      OBVIOUS
    <3>1. rank[seq[k]] < rank[seq[j]]
      BY <1>4, <2>1
    <3> QED
      BY <1>10, <2>1, <2>2, <3>1
  <2>4. seq[k] # seq[j]
    BY <1>10, <2>1, <2>2
  <2>5. seq[j] \in Nat /\ seq[k] \in Nat
    BY <2>1
  <2> QED
    BY <2>3, <2>4, <2>5
<1>11. /\ InOrder(S) \in [1..n -> S]
       /\ \A j, k \in 1..n : j < k => InOrder(S)[j] < InOrder(S)[k]
  BY <1>8, <1>9, <1>10
<1> QED
  BY <1>1, <1>11 DEF n

-----------------------------------------------------------------------------
\* The first of some positions is one of them, and none comes before it.
LEMMA FirstIsFirst ==
    ASSUME NEW S, S \subseteq Nat, S # {}
    PROVE  Min(S) \in S /\ \A i \in S : Min(S) <= i
BY SmallestPosition DEF Min

\* The first of some positions or else a default is a number among them.
LEMMA FirstOfIsOne ==
    ASSUME NEW S, S \subseteq Nat, NEW d \in Nat
    PROVE  FirstOf(S, d) \in S \union {d} /\ FirstOf(S, d) \in Nat
<1>1. S \union {d} \subseteq Nat /\ S \union {d} # {}
  OBVIOUS
<1> QED
  BY <1>1, FirstIsFirst DEF FirstOf

\* No position comes before the first one, nor does the default.
LEMMA FirstOfIsLeast ==
    ASSUME NEW S, S \subseteq Nat, NEW d \in Nat
    PROVE  \A i \in S \union {d} : FirstOf(S, d) <= i
<1>1. S \union {d} \subseteq Nat /\ S \union {d} # {}
  OBVIOUS
<1> QED
  BY <1>1, FirstIsFirst DEF FirstOf

\* Lines that differ in their check marks only.
Alike(lines, others) ==
    /\ Len(others) = Len(lines)
    /\ \A i \in 1..Len(lines) : /\ others[i].kind = lines[i].kind
                                /\ others[i].n = lines[i].n
                                /\ others[i].t = lines[i].t

\* Alike lines have each kind at the same positions, all in the document.
LEMMA SameKinds ==
    ASSUME NEW L, NEW lines \in Seq(L), NEW others \in Seq(L), Alike(lines, others)
    PROVE  /\ DOMAIN lines = 1..Len(lines) /\ DOMAIN others = 1..Len(lines)
           /\ Len(lines) \in Nat
           /\ \A kinds : Of(others, kinds) = Of(lines, kinds) /\ Of(lines, kinds) \subseteq 1..Len(lines)
<1>1. DOMAIN lines = 1..Len(lines) /\ DOMAIN others = 1..Len(lines) /\ Len(lines) \in Nat
  BY DEF Alike
<1> QED
  BY <1>1 DEF Of, Alike

\* Alike lines have the same fences open at each of them, so the same ones are visible.
LEMMA SameVisible ==
    ASSUME NEW L, NEW lines \in Seq(L), NEW others \in Seq(L), Alike(lines, others)
    PROVE  Visible(others) = Visible(lines)
<1> DEFINE step(ls, scan) == [i \in 0..Len(ls) |->
            IF i = 0 THEN [open |-> NoFence, seen |-> {}]
            ELSE LET before == scan[i - 1]
                     shown  == before.open = NoFence /\ ls[i].kind \notin Fences
                 IN  [open |-> NextFence(before.open, ls[i]),
                      seen |-> before.seen \union (IF shown THEN {i} ELSE {})]]
<1>1. ASSUME NEW scan PROVE step(others, scan) = step(lines, scan)
  <2>1. Len(lines) \in Nat /\ Len(others) = Len(lines)
    BY DEF Alike
  <2>2. ASSUME NEW i \in 1..Len(lines), NEW fence
        PROVE  /\ NextFence(fence, others[i]) = NextFence(fence, lines[i])
               /\ (others[i].kind \notin Fences) = (lines[i].kind \notin Fences)
    BY DEF Alike, NextFence
  <2>3. \A i \in 0..Len(lines) : i # 0 => i \in 1..Len(lines)
    BY <2>1
  <2> QED
    BY <2>1, <2>2, <2>3
<1>2. (CHOOSE scan : scan = step(others, scan)) = (CHOOSE scan : scan = step(lines, scan))
  <2> HIDE DEF step
  <2> QED
    BY <1>1
<1>3. Len(others) = Len(lines)
  BY DEF Alike
<1> QED
  BY <1>2, <1>3 DEF Visible

\* The headings of tasks are lines of the document, and the same ones.
LEMMA HeadingsInDocument ==
    ASSUME NEW L, NEW lines \in Seq(L)
    PROVE  /\ TaskHeadings(lines) \in Seq(1..Len(lines))
           /\ \A k \in DOMAIN TaskHeadings(lines) :
                /\ TaskHeadings(lines)[k] \in 1..Len(lines)
                /\ TaskHeadings(lines)[k] \in Of(lines, {"heading"})
                /\ SectionEnd(lines, TaskHeadings(lines), k) \in 0..Len(lines)
           /\ \A j, k \in DOMAIN TaskHeadings(lines) :
                j < k => TaskHeadings(lines)[j] < TaskHeadings(lines)[k]
<1> DEFINE at == Visible(lines) \intersect Of(lines, {"heading"})
<1>1. at \subseteq 1..Len(lines) /\ Len(lines) \in Nat
  BY DEF Of
<1>2. at \subseteq Nat /\ IsFiniteSet(at)
  <2>1. IsFiniteSet(1..Len(lines))
    BY <1>1, FS_Interval
  <2> QED
    BY <1>1, <2>1, FS_Subset
<1> HIDE DEF at
<1> DEFINE h == TaskHeadings(lines)
<1>3. /\ h \in Seq(at) /\ DOMAIN h = 1..Len(h) /\ Len(h) \in Nat
      /\ \A j, k \in DOMAIN h : j < k => h[j] < h[k]
  <2>1. h = InOrder(at)
    BY DEF TaskHeadings, at
  <2> HIDE DEF h
  <2>2. /\ InOrder(at) \in Seq(at) /\ Len(InOrder(at)) = Cardinality(at)
        /\ DOMAIN InOrder(at) = 1..Cardinality(at)
        /\ \A j, k \in 1..Cardinality(at) : j < k => InOrder(at)[j] < InOrder(at)[k]
    BY <1>2, OrderIsSequence
  <2> QED
    BY <2>1, <2>2
<1>4. at \subseteq Of(lines, {"heading"})
  BY DEF at
<1> HIDE DEF h
<1>5. h \in Seq(1..Len(lines)) /\ \A k \in DOMAIN h : h[k] \in at
  <2>1. \A k \in DOMAIN h : h[k] \in at
    BY <1>3
  <2>2. h \in [1..Len(h) -> 1..Len(lines)]
    <3>1. h \in [1..Len(h) -> at]
      BY <1>3
    <3> QED
      BY <1>1, <3>1
  <2> QED
    BY <1>3, <2>1, <2>2
<1>6. ASSUME NEW k \in DOMAIN h PROVE h[k] \in 1..Len(lines) /\ SectionEnd(lines, h, k) \in 0..Len(lines)
  <2>1. k < Len(h) => k + 1 \in DOMAIN h
    BY <1>3
  <2> QED
    BY <1>1, <1>3, <1>5, <2>1 DEF SectionEnd
<1> QED
  BY <1>3, <1>4, <1>5, <1>6 DEF h

\* Alike lines have the same tasks, with the same ends of their sections.
LEMMA SameHeadings ==
    ASSUME NEW L, NEW lines \in Seq(L), NEW others \in Seq(L), Alike(lines, others)
    PROVE  /\ TaskHeadings(others) = TaskHeadings(lines)
           /\ \A k : SectionEnd(others, TaskHeadings(others), k) = SectionEnd(lines, TaskHeadings(lines), k)
<1>1. TaskHeadings(others) = TaskHeadings(lines)
  <2>1. Visible(others) = Visible(lines)
    BY SameVisible
  <2>2. Of(others, {"heading"}) = Of(lines, {"heading"})
    BY SameKinds
  <2> QED
    BY <2>1, <2>2 DEF TaskHeadings
<1> QED
  BY <1>1 DEF SectionEnd, Alike

\* Alike lines have the same boxes in each Status block, which are lines of the document.
LEMMA SameStatus ==
    ASSUME NEW L, NEW lines \in Seq(L), NEW others \in Seq(L), Alike(lines, others),
           NEW from \in 1..Len(lines), NEW to \in 0..Len(lines)
    PROVE  /\ StatusBoxes(others, from, to) = StatusBoxes(lines, from, to)
           /\ StatusBoxes(lines, from, to) \subseteq 1..Len(lines)
<1>1. /\ Len(lines) \in Nat /\ DOMAIN others = 1..Len(lines)
      /\ \A kinds : Of(others, kinds) = Of(lines, kinds) /\ Of(lines, kinds) \subseteq 1..Len(lines)
  BY SameKinds
<1> DEFINE start == FirstOf(Of(lines, {"status"}) \intersect from..to, to)
<1>2. start \in Nat
  <2>1. Of(lines, {"status"}) \intersect from..to \subseteq Nat /\ to \in Nat
    BY <1>1
  <2> HIDE DEF start
  <2> QED
    BY <2>1, FirstOfIsOne DEF start
<1> HIDE DEF start
<1>3. \A i \in (start + 1)..to : others[i].kind = lines[i].kind
  <2> SUFFICES ASSUME NEW i \in (start + 1)..to PROVE others[i].kind = lines[i].kind
    OBVIOUS
  <2>1. i \in 1..Len(lines)
    BY <1>1, <1>2
  <2> QED
    BY <2>1 DEF Alike
<1>4. StatusBoxes(others, from, to) = StatusBoxes(lines, from, to)
  <2> DEFINE boxes == {i \in Of(lines, Checkboxes) : start < i /\ i <= to}
             ends(ls) == {i \in (start + 1)..to :
                             /\ ls[i].kind \notin Checkboxes \union {"status"}
                             /\ \/ ls[i].kind \in Fields
                                \/ \E b \in boxes : b < i}
  <2>1. /\ start = FirstOf(Of(others, {"status"}) \intersect from..to, to)
        /\ boxes = {i \in Of(others, Checkboxes) : start < i /\ i <= to}
    BY <1>1 DEF start
  <2> HIDE DEF boxes
  <2>2. ends(others) = ends(lines)
    BY <1>3
  <2>3. StatusBoxes(others, from, to) = {i \in boxes : i < FirstOf(ends(others), to + 1)}
    BY <2>1 DEF StatusBoxes
  <2>4. StatusBoxes(lines, from, to) = {i \in boxes : i < FirstOf(ends(lines), to + 1)}
    BY DEF StatusBoxes, start, boxes
  <2> HIDE DEF ends
  <2> QED
    BY <2>2, <2>3, <2>4
<1>5. StatusBoxes(lines, from, to) \subseteq Of(lines, Checkboxes)
  BY DEF StatusBoxes
<1> QED
  BY <1>1, <1>4, <1>5

\* The boxes of a task in the progress section.
ProgressBoxes(lines, n) ==
    LET start == FirstOf(Of(lines, {"progress"}), Len(lines) + 1)
        stop  == FirstOf({i \in Of(lines, {"rule", "heading"}) : i > start}, Len(lines) + 1)
    IN  {i \in Of(lines, {"box"}) : start < i /\ i < stop /\ lines[i].n = n}

\* They have the same boxes of a task in the progress section, whose first one is read.
LEMMA SameProgress ==
    ASSUME NEW L, NEW lines \in Seq(L), NEW others \in Seq(L), Alike(lines, others), NEW n
    PROVE  /\ ProgressBoxes(others, n) = ProgressBoxes(lines, n)
           /\ ProgressBoxes(lines, n) \subseteq {i \in Of(lines, {"box"}) : lines[i].n = n}
           /\ ProgressDone(lines, n) = IF ProgressBoxes(lines, n) = {} THEN {}
                                       ELSE {lines[Min(ProgressBoxes(lines, n))].done}
           /\ ProgressDone(others, n) = IF ProgressBoxes(lines, n) = {} THEN {}
                                        ELSE {others[Min(ProgressBoxes(lines, n))].done}
<1>1. /\ Len(others) = Len(lines)
      /\ \A kinds : Of(others, kinds) = Of(lines, kinds) /\ Of(lines, kinds) \subseteq 1..Len(lines)
  BY SameKinds DEF Alike
<1>2. \A i \in Of(lines, {"box"}) : others[i].n = lines[i].n
  BY <1>1 DEF Alike
<1>3. ProgressBoxes(others, n) = ProgressBoxes(lines, n)
  <2> DEFINE start == FirstOf(Of(lines, {"progress"}), Len(lines) + 1)
             after == {i \in Of(lines, {"rule", "heading"}) : i > start}
             stop == FirstOf(after, Len(lines) + 1)
  <2>1. /\ start = FirstOf(Of(others, {"progress"}), Len(others) + 1)
        /\ Of(others, {"rule", "heading"}) = Of(lines, {"rule", "heading"})
        /\ Of(others, {"box"}) = Of(lines, {"box"})
    BY <1>1
  <2> HIDE DEF start
  <2>2. after = {i \in Of(others, {"rule", "heading"}) : i > start}
    BY <2>1
  <2> HIDE DEF after
  <2>3. stop = FirstOf({i \in Of(others, {"rule", "heading"}) : i > start}, Len(others) + 1)
    BY <1>1, <2>2
  <2> HIDE DEF stop
  <2>4. ProgressBoxes(others, n) =
            {i \in Of(lines, {"box"}) : start < i /\ i < stop /\ others[i].n = n}
    BY <2>1, <2>3 DEF ProgressBoxes
  <2>5. ProgressBoxes(lines, n) =
            {i \in Of(lines, {"box"}) : start < i /\ i < stop /\ lines[i].n = n}
    BY DEF ProgressBoxes, start, after, stop
  <2> QED
    BY <1>2, <2>4, <2>5
<1>4. \A ls \in {lines, others} :
          ProgressDone(ls, n) = IF ProgressBoxes(ls, n) = {} THEN {}
                                ELSE {ls[Min(ProgressBoxes(ls, n))].done}
  BY DEF ProgressDone, ProgressBoxes
<1>5. ProgressBoxes(lines, n) \subseteq {i \in Of(lines, {"box"}) : lines[i].n = n}
  BY DEF ProgressBoxes
<1> QED
  BY <1>3, <1>4, <1>5

\* What the parser reads of a task.
TaskRead(lines, task, k, from, to) ==
    /\ from = TaskHeadings(lines)[k]
    /\ to = SectionEnd(lines, TaskHeadings(lines), k)
    /\ task.taskId = lines[from].n
    /\ task.title = lines[from].t
    /\ task.stableId = StableId(lines, from, to)
    /\ task.section = SubSeq(lines, from, to)
    /\ task.from = from
    /\ task.status = {<<i, lines[i].done>> : i \in StatusBoxes(lines, from, to)}
    /\ task.done = IF ProgressDone(lines, lines[from].n) # {}
                   THEN ProgressDone(lines, lines[from].n) = {TRUE}
                   ELSE /\ StatusBoxes(lines, from, to) # {}
                        /\ \A i \in StatusBoxes(lines, from, to) : lines[i].done

\* The parser reads one task from each heading, within the document.
LEMMA ParserReads ==
    ASSUME NEW L, NEW lines \in Seq(L)
    PROVE  /\ Len(ParseTasks(lines)) = Len(TaskHeadings(lines))
           /\ Len(ParseTasks(lines)) \in Nat
           /\ DOMAIN ParseTasks(lines) = 1..Len(ParseTasks(lines))
           /\ DOMAIN TaskHeadings(lines) = 1..Len(ParseTasks(lines))
           /\ (ParseTasks(lines) = <<>>) <=> (Len(ParseTasks(lines)) = 0)
           /\ \A k \in 1..Len(ParseTasks(lines)) :
                /\ TaskHeadings(lines)[k] \in 1..Len(lines)
                /\ SectionEnd(lines, TaskHeadings(lines), k) \in 0..Len(lines)
                /\ TaskRead(lines, ParseTasks(lines)[k], k, TaskHeadings(lines)[k],
                            SectionEnd(lines, TaskHeadings(lines), k))
<1>1. TaskHeadings(lines) \in Seq(1..Len(lines))
  BY HeadingsInDocument
<1>2. DOMAIN TaskHeadings(lines) = 1..Len(TaskHeadings(lines)) /\ Len(TaskHeadings(lines)) \in Nat
  BY <1>1
<1> DEFINE task(k) ==
            TaskAt(lines, TaskHeadings(lines)[k], SectionEnd(lines, TaskHeadings(lines), k))
<1>3. ParseTasks(lines) = [k \in 1..Len(TaskHeadings(lines)) |-> task(k)] \o <<>>
  BY <1>2 DEF ParseTasks, TasksAt, AsTuple
<1>4. \A k : TaskRead(lines, task(k), k, TaskHeadings(lines)[k], SectionEnd(lines, TaskHeadings(lines), k))
  BY DEF TaskRead, TaskAt
<1> HIDE DEF task
<1> DEFINE read == [k \in 1..Len(TaskHeadings(lines)) |-> task(k)]
<1>5. /\ read \in Seq({task(k) : k \in 1..Len(TaskHeadings(lines))})
      /\ Len(read) = Len(TaskHeadings(lines)) /\ read \o <<>> = read
  BY <1>2
<1>6. /\ ParseTasks(lines) = read
      /\ DOMAIN ParseTasks(lines) = 1..Len(TaskHeadings(lines))
      /\ Len(ParseTasks(lines)) = Len(TaskHeadings(lines))
      /\ \A k \in 1..Len(ParseTasks(lines)) : ParseTasks(lines)[k] = task(k)
  BY <1>2, <1>3, <1>5
<1>7. (ParseTasks(lines) = <<>>) <=> (Len(ParseTasks(lines)) = 0)
  BY <1>5, <1>6
<1> HIDE DEF read
<1> QED
  BY <1>2, <1>4, <1>6, <1>7, HeadingsInDocument

-----------------------------------------------------------------------------
\* Alike lines have alike sections.
LEMMA SameSection ==
    ASSUME NEW L, NEW lines \in Seq(L), NEW others \in Seq(L), Alike(lines, others),
           NEW from \in 1..Len(lines), NEW to \in 0..Len(lines)
    PROVE  /\ \A kind : Has(SubSeq(others, from, to), kind) <=> Has(SubSeq(lines, from, to), kind)
           /\ MentionsChecks(SubSeq(others, from, to)) <=> MentionsChecks(SubSeq(lines, from, to))
<1> DEFINE old == SubSeq(lines, from, to)
           new == SubSeq(others, from, to)
<1>1. Len(lines) \in Nat /\ Len(others) = Len(lines)
  BY DEF Alike
<1>2. DOMAIN new = DOMAIN old /\ DOMAIN old = 1..Len(old)
  BY <1>1
<1>3. ASSUME NEW i \in DOMAIN old PROVE new[i].kind = old[i].kind /\ new[i].t = old[i].t
  <2>1. old[i] = lines[from + i - 1] /\ new[i] = others[from + i - 1] /\ from + i - 1 \in 1..Len(lines)
    BY <1>1
  <2> QED
    BY <2>1 DEF Alike
<1> HIDE DEF old, new
<1>4. (\A kind : Has(new, kind) <=> Has(old, kind)) /\ (MentionsChecks(new) <=> MentionsChecks(old))
  BY <1>2, <1>3 DEF Has, MentionsChecks
<1> QED
  BY <1>4 DEF old, new

\* Tasks that differ in what is checked only.
AlikeTasks(old, new) ==
    /\ new.taskId = old.taskId /\ new.title = old.title /\ new.stableId = old.stableId
    /\ new.from = old.from
    /\ (new.status = {}) <=> (old.status = {})
    /\ \A kind : Has(new.section, kind) <=> Has(old.section, kind)
    /\ MentionsChecks(new.section) <=> MentionsChecks(old.section)

\* Alike lines are read as tasks that differ in what is checked only.
LEMMA SameTasks ==
    ASSUME NEW L, NEW lines \in Seq(L), NEW others \in Seq(L), Alike(lines, others)
    PROVE  /\ Len(ParseTasks(others)) = Len(ParseTasks(lines))
           /\ \A k \in 1..Len(ParseTasks(lines)) :
                AlikeTasks(ParseTasks(lines)[k], ParseTasks(others)[k])
<1>1. /\ TaskHeadings(others) = TaskHeadings(lines)
      /\ \A k : SectionEnd(others, TaskHeadings(others), k) = SectionEnd(lines, TaskHeadings(lines), k)
  BY SameHeadings
<1>2. Len(ParseTasks(others)) = Len(ParseTasks(lines))
  BY <1>1, ParserReads
<1>3. ASSUME NEW k \in 1..Len(ParseTasks(lines)),
             NEW from, from = TaskHeadings(lines)[k],
             NEW to, to = SectionEnd(lines, TaskHeadings(lines), k)
      PROVE  /\ TaskRead(lines, ParseTasks(lines)[k], k, from, to)
             /\ TaskRead(others, ParseTasks(others)[k], k, from, to)
             /\ from \in 1..Len(lines) /\ to \in 0..Len(lines)
  BY <1>1, <1>2, <1>3, ParserReads
<1>4. ASSUME NEW k \in 1..Len(ParseTasks(lines)),
             NEW old, old = ParseTasks(lines)[k], NEW new, new = ParseTasks(others)[k]
      PROVE  AlikeTasks(old, new)
  <2>1. PICK from, to : /\ TaskRead(lines, old, k, from, to) /\ TaskRead(others, new, k, from, to)
                        /\ from \in 1..Len(lines) /\ to \in 0..Len(lines)
    BY <1>3, <1>4
  <2>2. new.taskId = old.taskId /\ new.title = old.title /\ new.from = old.from
    BY <2>1 DEF TaskRead, Alike
  <2>3. new.stableId = old.stableId
    <3>1. Visible(others) = Visible(lines)
      BY SameVisible
    <3>2. /\ Of(others, {"marker"}) = Of(lines, {"marker"})
          /\ Of(lines, {"marker"}) \subseteq 1..Len(lines) /\ Len(lines) \in Nat
      BY SameKinds
    <3> DEFINE markers == Visible(lines) \intersect Of(lines, {"marker"}) \intersect from..to
    <3>3. markers # {} => Min(markers) \in 1..Len(lines)
      <4>1. markers \subseteq Nat /\ markers \subseteq 1..Len(lines)
        BY <3>2
      <4> HIDE DEF markers
      <4> QED
        BY <4>1, FirstIsFirst
    <3>4. /\ StableId(lines, from, to) = IF markers = {} THEN NoId ELSE lines[Min(markers)].t
          /\ StableId(others, from, to) = IF markers = {} THEN NoId ELSE others[Min(markers)].t
      BY <3>1, <3>2 DEF StableId
    <3> HIDE DEF markers
    <3>5. StableId(others, from, to) = StableId(lines, from, to)
      BY <3>3, <3>4 DEF Alike
    <3> QED
      BY <2>1, <3>5 DEF TaskRead
  <2>4. (new.status = {}) <=> (old.status = {})
    <3> DEFINE boxes == StatusBoxes(lines, from, to)
    <3>1. StatusBoxes(others, from, to) = boxes
      BY <2>1, SameStatus
    <3>2. /\ old.status = {<<i, lines[i].done>> : i \in boxes}
          /\ new.status = {<<i, others[i].done>> : i \in boxes}
      BY <2>1, <3>1 DEF TaskRead
    <3> HIDE DEF boxes
    <3>3. (old.status = {}) <=> (boxes = {})
      BY <3>2
    <3>4. (new.status = {}) <=> (boxes = {})
      BY <3>2
    <3> QED
      BY <3>3, <3>4
  <2>5. old.section = SubSeq(lines, from, to) /\ new.section = SubSeq(others, from, to)
    BY <2>1 DEF TaskRead
  <2>6. /\ \A kind : Has(new.section, kind) <=> Has(old.section, kind)
        /\ MentionsChecks(new.section) <=> MentionsChecks(old.section)
    <3>1. /\ \A kind : Has(SubSeq(others, from, to), kind) <=> Has(SubSeq(lines, from, to), kind)
          /\ MentionsChecks(SubSeq(others, from, to)) <=> MentionsChecks(SubSeq(lines, from, to))
      BY <2>1, SameSection
    <3> QED
      BY <2>5, <3>1
  <2> QED
    BY <2>2, <2>3, <2>4, <2>6 DEF AlikeTasks
<1> QED
  BY <1>2, <1>4

\* Their progress entries differ in what is checked only.
LEMMA SameEntries ==
    ASSUME NEW L, NEW lines \in Seq(L), NEW others \in Seq(L), Alike(lines, others), NEW first
    PROVE  /\ Len(ProgressEntries(others, first)) = Len(ProgressEntries(lines, first))
           /\ DOMAIN ProgressEntries(lines, first) = 1..Len(ProgressEntries(lines, first))
           /\ \A k \in DOMAIN ProgressEntries(lines, first) :
                /\ ProgressEntries(others, first)[k].n = ProgressEntries(lines, first)[k].n
                /\ ProgressEntries(others, first)[k].t = ProgressEntries(lines, first)[k].t
<1>1. /\ Visible(others) = Visible(lines) /\ Len(lines) \in Nat
      /\ \A kinds : Of(others, kinds) = Of(lines, kinds) /\ Of(lines, kinds) \subseteq 1..Len(lines)
  BY SameVisible, SameKinds
<1> DEFINE before(ls, kind, i) == {j \in Visible(ls) \intersect Of(ls, {kind}) : i < j /\ j < first}
           start(ls) == FirstOf(before(ls, "progress", 0), first)
           stops(ls) == before(ls, "rule", start(ls))
           stop(ls) == IF stops(ls) = {} THEN 0 ELSE Min(stops(ls))
           at(ls) == {i \in Visible(ls) \intersect Of(ls, {"box"}) : start(ls) < i /\ i < stop(ls)}
<1>2. \A kind, i : before(others, kind, i) = before(lines, kind, i)
  BY <1>1
<1> HIDE DEF before
<1>3. stops(others) = stops(lines) /\ start(others) = start(lines)
  BY <1>2
<1> HIDE DEF stops, start
<1>4. stop(others) = stop(lines)
  BY <1>3
<1> HIDE DEF stop
<1>5. at(others) = at(lines)
  BY <1>1, <1>3, <1>4
<1>6. at(lines) \subseteq 1..Len(lines)
  BY <1>1
<1>7. \A ls \in {lines, others} :
          ProgressEntries(ls, first) = [k \in DOMAIN InOrder(at(ls)) |-> ls[InOrder(at(ls))[k]]]
  BY DEF ProgressEntries, before, start, stops, stop
<1> HIDE DEF at
<1> SUFFICES ASSUME NEW order, order = InOrder(at(lines))
             PROVE  /\ Len(ProgressEntries(others, first)) = Len(ProgressEntries(lines, first))
                    /\ DOMAIN ProgressEntries(lines, first) = 1..Len(ProgressEntries(lines, first))
                    /\ \A k \in DOMAIN ProgressEntries(lines, first) :
                         /\ ProgressEntries(others, first)[k].n = ProgressEntries(lines, first)[k].n
                         /\ ProgressEntries(others, first)[k].t = ProgressEntries(lines, first)[k].t
  OBVIOUS
<1>8. /\ Len(order) \in Nat /\ DOMAIN order = 1..Len(order)
      /\ \A k \in 1..Len(order) : order[k] \in 1..Len(lines)
  <2>1. at(lines) \subseteq Nat /\ IsFiniteSet(at(lines))
    <3>1. IsFiniteSet(1..Len(lines))
      BY <1>1, FS_Interval
    <3> QED
      BY <1>1, <1>6, <3>1, FS_Subset
  <2>2. order \in Seq(at(lines))
    BY <2>1, OrderIsSequence
  <2> QED
    BY <1>6, <2>2
<1>9. /\ ProgressEntries(lines, first) = [k \in 1..Len(order) |-> lines[order[k]]]
      /\ ProgressEntries(others, first) = [k \in 1..Len(order) |-> others[order[k]]]
  BY <1>5, <1>7, <1>8
<1>10. /\ Len(ProgressEntries(lines, first)) = Len(order)
       /\ Len(ProgressEntries(others, first)) = Len(order)
  BY <1>8, <1>9
<1> QED
  BY <1>8, <1>9, <1>10 DEF Alike

\* So validation, which reads no check mark, accepts both or neither.
LEMMA SameValidity ==
    ASSUME NEW L, NEW lines \in Seq(L), NEW others \in Seq(L), Alike(lines, others),
           IsValidTodo(lines)
    PROVE  IsValidTodo(others)
<1> DEFINE old == ParseTasks(lines)
           new == ParseTasks(others)
           entries == ProgressEntries(lines, old[1].from)
           renewed == ProgressEntries(others, new[1].from)
<1>1. /\ lines # <<>> /\ lines[1].kind = "title" /\ old # <<>> /\ AreValid(old, entries)
  BY DEF IsValidTodo
<1>2. others # <<>> /\ others[1].kind = "title"
  BY <1>1 DEF Alike
<1>3. /\ Len(new) = Len(old) /\ Len(old) \in Nat \ {0} /\ new # <<>>
      /\ DOMAIN old = 1..Len(old) /\ DOMAIN new = 1..Len(old)
      /\ \A k \in 1..Len(old) : AlikeTasks(old[k], new[k])
  BY <1>1, ParserReads, SameTasks
<1>4. new[1].from = old[1].from
  BY <1>3 DEF AlikeTasks
<1>5. /\ Len(renewed) = Len(entries) /\ DOMAIN entries = 1..Len(entries)
      /\ \A k \in 1..Len(entries) : renewed[k].n = entries[k].n /\ renewed[k].t = entries[k].t
  BY <1>4, SameEntries
<1> HIDE DEF old, new, entries, renewed
<1>6. Len(entries) = Len(old)
  BY <1>1 DEF AreValid
<1>7. ASSUME NEW k \in 1..Len(old) PROVE IsValidTask(new[k], k, renewed[k])
  <2>1. IsValidTask(old[k], k, entries[k])
    BY <1>1, <1>3 DEF AreValid
  <2>2. AlikeTasks(old[k], new[k])
    BY <1>3
  <2>3. renewed[k].n = entries[k].n /\ renewed[k].t = entries[k].t
    BY <1>5, <1>6
  <2> QED
    BY <2>1, <2>2, <2>3 DEF IsValidTask, AlikeTasks
<1>8. AreValid(new, renewed)
  BY <1>3, <1>5, <1>6, <1>7 DEF AreValid
<1> QED
  BY <1>2, <1>3, <1>8 DEF IsValidTodo, new, renewed

-----------------------------------------------------------------------------
\* Lines of some kinds with some texts.
LinesOf(K, T) == [kind : K, n : Nat, t : T, done : BOOLEAN]

\* Setting the mark of a task changes marks only: those of the boxes with its number,
\* and those of the Status block of the first section with its number.
LEMMA MarkingIsAlike ==
    ASSUME NEW K, NEW T, NEW lines \in Seq(LinesOf(K, T)),
           NEW n, NEW done \in BOOLEAN
    PROVE  /\ SetTaskDone(lines, n, done) \in Seq(LinesOf(K, T))
           /\ Alike(lines, SetTaskDone(lines, n, done))
           /\ \A i \in 1..Len(lines) :
                SetTaskDone(lines, n, done)[i].done \in {lines[i].done, done}
           /\ \A i \in Of(lines, {"box"}) :
                lines[i].n = n => SetTaskDone(lines, n, done)[i].done = done
           /\ \A i \in Of(lines, {"box"}) :
                lines[i].n # n =>
                    \/ SetTaskDone(lines, n, done)[i].done = lines[i].done
                    \/ \E k \in DOMAIN TaskHeadings(lines) :
                          /\ lines[TaskHeadings(lines)[k]].n = n
                          /\ i \in StatusBoxes(lines, TaskHeadings(lines)[k],
                                               SectionEnd(lines, TaskHeadings(lines), k))
           /\ \A k \in DOMAIN TaskHeadings(lines) :
                lines[TaskHeadings(lines)[k]].n = n
                /\ (\A j \in DOMAIN TaskHeadings(lines) :
                        lines[TaskHeadings(lines)[j]].n = n => j = k)
                => \A i \in StatusBoxes(lines, TaskHeadings(lines)[k],
                                        SectionEnd(lines, TaskHeadings(lines), k)) :
                        i \in 1..Len(lines) => SetTaskDone(lines, n, done)[i].done = done
<1> DEFINE headings == TaskHeadings(lines)
           mine == {k \in DOMAIN headings : lines[headings[k]].n = n}
           block == IF mine = {} THEN {}
                    ELSE StatusBoxes(lines, headings[Min(mine)],
                                     SectionEnd(lines, headings, Min(mine)))
           boxes == {i \in Of(lines, {"box"}) : lines[i].n = n}
           marked == [i \in 1..Len(lines) |-> IF i \in boxes \union block
                                              THEN [lines[i] EXCEPT !.done = done]
                                              ELSE lines[i]]
<1>1. Len(lines) \in Nat /\ DOMAIN lines = 1..Len(lines) /\ \A i \in 1..Len(lines) : lines[i] \in LinesOf(K, T)
  OBVIOUS
<1>2. mine # {} => Min(mine) \in mine
  <2>1. DOMAIN headings \subseteq Nat
    BY HeadingsInDocument
  <2>2. mine \subseteq Nat
    BY <2>1
  <2> HIDE DEF mine
  <2> QED
    BY <2>2, FirstIsFirst
<1>3. SetTaskDone(lines, n, done) = marked \o <<>>
  BY <1>1 DEF SetTaskDone, AsTuple
<1> HIDE DEF block, boxes
<1>4. \A i \in 1..Len(lines) :
          /\ marked[i] \in LinesOf(K, T)
          /\ marked[i].kind = lines[i].kind /\ marked[i].n = lines[i].n /\ marked[i].t = lines[i].t
          /\ marked[i].done = IF i \in boxes \union block THEN done ELSE lines[i].done
  BY <1>1 DEF LinesOf
<1>5. marked \in Seq(LinesOf(K, T)) /\ Len(marked) = Len(lines)
  <2>1. marked \in [1..Len(lines) -> LinesOf(K, T)]
    BY <1>4
  <2> HIDE DEF marked
  <2> QED
    BY <1>1, <2>1
<1> HIDE DEF marked
<1>6. SetTaskDone(lines, n, done) = marked
  BY <1>3, <1>5
<1>7. Of(lines, {"box"}) \subseteq 1..Len(lines)
  BY <1>1 DEF Of
<1>8. Alike(lines, marked)
  BY <1>4, <1>5 DEF Alike
<1>9. \A i \in Of(lines, {"box"}) :
          /\ lines[i].n = n => marked[i].done = done
          /\ lines[i].n # n /\ i \notin block => marked[i].done = lines[i].done
  BY <1>4, <1>7 DEF boxes
<1>10. \A i \in block : \E k \in DOMAIN headings :
          lines[headings[k]].n = n /\ i \in StatusBoxes(lines, headings[k], SectionEnd(lines, headings, k))
  BY <1>2 DEF block
<1>11. ASSUME NEW k \in DOMAIN headings, lines[headings[k]].n = n,
              \A j \in DOMAIN headings : lines[headings[j]].n = n => j = k
       PROVE  block = StatusBoxes(lines, headings[k], SectionEnd(lines, headings, k))
  BY <1>2, <1>11 DEF block
<1>12. \A i \in 1..Len(lines) : i \in block => marked[i].done = done
  BY <1>4
<1>13. \A i \in 1..Len(lines) : marked[i].done \in {lines[i].done, done}
  BY <1>4
<1> HIDE DEF headings, mine
<1> QED
  BY <1>5, <1>6, <1>8, <1>9, <1>10, <1>11, <1>12, <1>13 DEF headings

\* In a valid document the progress section comes before the Status blocks.
LEMMA ProgressComesFirst ==
    ASSUME NEW L, NEW lines \in Seq(L), IsValidTodo(lines), NEW n \in DOMAIN ParseTasks(lines), NEW m
    PROVE  ProgressBoxes(lines, m) \intersect
               StatusBoxes(lines, TaskHeadings(lines)[n],
                           SectionEnd(lines, TaskHeadings(lines), n)) = {}
<1> DEFINE h == TaskHeadings(lines)
           first == h[1]
           size == Len(lines)
<1>1. /\ ParseTasks(lines) # <<>> /\ Len(ParseTasks(lines)) \in Nat
      /\ DOMAIN ParseTasks(lines) = 1..Len(ParseTasks(lines)) /\ DOMAIN h = 1..Len(ParseTasks(lines))
      /\ ParseTasks(lines)[1].from = first
      /\ Len(ProgressEntries(lines, first)) = Len(ParseTasks(lines))
      /\ n \in DOMAIN h /\ 1 \in DOMAIN h
  <2>1. /\ ParseTasks(lines) # <<>> /\ Len(ParseTasks(lines)) \in Nat
        /\ DOMAIN ParseTasks(lines) = 1..Len(ParseTasks(lines)) /\ DOMAIN h = 1..Len(ParseTasks(lines))
        /\ n \in 1..Len(ParseTasks(lines)) /\ 1 \in 1..Len(ParseTasks(lines))
    BY ParserReads
  <2>2. ParseTasks(lines)[1].from = first
    BY <2>1, ParserReads DEF TaskRead
  <2>3. Len(ProgressEntries(lines, ParseTasks(lines)[1].from)) = Len(ParseTasks(lines))
    BY DEF IsValidTodo, AreValid
  <2> QED
    BY <2>1, <2>2, <2>3
<1>2. /\ size \in Nat /\ first \in 1..size /\ h[n] \in 1..size
      /\ first \in Of(lines, {"heading", "rule"}) /\ first <= h[n]
      /\ SectionEnd(lines, h, n) \in 0..size
  <2>1. /\ first \in 1..size /\ h[n] \in 1..size /\ size \in Nat
        /\ first \in Of(lines, {"heading"})
        /\ SectionEnd(lines, h, n) \in 0..size
        /\ 1 < n => first < h[n]
    BY <1>1, HeadingsInDocument
  <2>2. first <= h[n]
    <3> HIDE DEF h
    <3>1. n = 1 \/ 1 < n
      BY <1>1
    <3> QED
      BY <2>1, <3>1
  <2> QED
    BY <2>1, <2>2 DEF Of
<1> HIDE DEF h, size
<1>3. \A kinds : Of(lines, kinds) \subseteq 1..size /\ Of(lines, kinds) \subseteq Nat
  BY <1>2 DEF Of, size
\* There is a Progress heading before the tasks.
<1>4. PICK p \in Of(lines, {"progress"}) : p < first
  <2> SUFFICES ASSUME \A p \in Of(lines, {"progress"}) : ~ (p < first) PROVE FALSE
    OBVIOUS
  <2> DEFINE before(kind, i) == {j \in Visible(lines) \intersect Of(lines, {kind}) : i < j /\ j < first}
             start == FirstOf(before("progress", 0), first)
             stops == before("rule", start)
             stop == IF stops = {} THEN 0 ELSE Min(stops)
             boxes == {i \in Visible(lines) \intersect Of(lines, {"box"}) : start < i /\ i < stop}
  <2>1. before("progress", 0) = {}
    OBVIOUS
  <2> HIDE DEF before
  <2>2. start = first
    <3>1. start \in {} \union {first}
      BY <1>2, <2>1, FirstOfIsOne
    <3> QED
      BY <3>1
  <2> HIDE DEF start
  <2>3. stops = {}
    BY <1>2, <1>3, <2>2 DEF before
  <2> HIDE DEF stops
  <2>4. boxes = {}
    BY <1>3, <2>3
  <2>5. ProgressEntries(lines, first) = [k \in DOMAIN InOrder(boxes) |-> lines[InOrder(boxes)[k]]]
    BY DEF ProgressEntries, before, start, stops
  <2> HIDE DEF boxes
  <2>6. DOMAIN InOrder(boxes) = 1..0
    BY <2>4, OrderIsSequence, FS_EmptySet
  <2>7. Len(ProgressEntries(lines, first)) = 0
    BY <2>5, <2>6
  <2> QED
    BY <1>1, <2>7
<1> DEFINE start == FirstOf(Of(lines, {"progress"}), size + 1)
           stop == FirstOf({i \in Of(lines, {"rule", "heading"}) : i > start}, size + 1)
<1>5. start \in Nat /\ start < first
  <2>1. /\ start \in Nat
        /\ \A i \in Of(lines, {"progress"}) \union {size + 1} : start <= i
    BY <1>2, <1>3, FirstOfIsOne, FirstOfIsLeast
  <2> HIDE DEF start
  <2> QED
    BY <1>2, <1>3, <1>4, <2>1
<1> HIDE DEF start
<1>6. stop \in Nat /\ stop <= first
  <2> DEFINE after == {i \in Of(lines, {"rule", "heading"}) : i > start}
  <2>1. first \in after
    BY <1>2, <1>5 DEF Of
  <2>2. after \subseteq Nat
    BY <1>3
  <2> HIDE DEF after
  <2>3. /\ FirstOf(after, size + 1) \in Nat
        /\ \A i \in after \union {size + 1} : FirstOf(after, size + 1) <= i
    <3>1. size + 1 \in Nat
      BY <1>2
    <3> QED
      BY <2>2, <3>1, FirstOfIsOne, FirstOfIsLeast
  <2>4. stop = FirstOf(after, size + 1)
    BY DEF after
  <2> HIDE DEF stop
  <2> QED
    BY <2>1, <2>3, <2>4
<1> HIDE DEF stop
<1>7. \A i \in ProgressBoxes(lines, m) : i \in Nat /\ i < first
  <2>1. \A i \in ProgressBoxes(lines, m) : i \in Of(lines, {"box"}) /\ i < stop
    BY DEF ProgressBoxes, start, stop, size
  <2> QED
    BY <1>2, <1>3, <1>6, <2>1
<1>8. ASSUME NEW from \in 1..size, NEW to \in 0..size
      PROVE  \A i \in StatusBoxes(lines, from, to) : i \in Nat /\ from < i
  <2> DEFINE at == Of(lines, {"status"}) \intersect from..to
             begin == FirstOf(at, to)
  <2>1. begin \in at \union {to} /\ begin \in Nat
    <3>1. at \subseteq Nat /\ to \in Nat
      BY <1>2, <1>3
    <3> HIDE DEF at
    <3> QED
      BY <3>1, FirstOfIsOne
  <2>2. \A j \in at : from <= j
    OBVIOUS
  <2>3. \A i \in StatusBoxes(lines, from, to) : i \in Of(lines, Checkboxes) /\ begin < i /\ i <= to
    BY DEF StatusBoxes
  <2> HIDE DEF at, begin
  <2> SUFFICES ASSUME NEW i \in StatusBoxes(lines, from, to) PROVE i \in Nat /\ from < i
    OBVIOUS
  <2>4. i \in Nat /\ begin < i /\ i <= to /\ from \in Nat /\ to \in Nat
    BY <1>2, <1>3, <2>3
  <2>5. CASE begin = to
    BY <2>1, <2>4, <2>5
  <2>6. CASE begin \in at
    BY <2>1, <2>2, <2>4, <2>6
  <2> QED
    BY <2>1, <2>5, <2>6
<1>9. \A i \in StatusBoxes(lines, h[n], SectionEnd(lines, h, n)) : i \in Nat /\ h[n] < i
  BY <1>2, <1>8
<1>10. ProgressBoxes(lines, m) \intersect StatusBoxes(lines, h[n], SectionEnd(lines, h, n)) = {}
  <2> SUFFICES ASSUME NEW i \in ProgressBoxes(lines, m),
                      i \in StatusBoxes(lines, h[n], SectionEnd(lines, h, n))
               PROVE  FALSE
    OBVIOUS
  <2>1. i \in Nat /\ i < first /\ h[n] < i
    BY <1>7, <1>9
  <2> QED
    BY <1>2, <2>1
<1> QED
  BY <1>10 DEF h

\* Whatever a valid document contains, a worker's task can be completed in it, which is
\* never refused by validation, changes no task's number, title or identity, and
\* unchecks nothing.  It checks off no other task that has its box in the progress
\* section.
THEOREM CompletionIsAccepted ==
    ASSUME NEW K, NEW T, NEW lines \in Seq(LinesOf(K, T)), IsValidTodo(lines),
           NEW n \in DOMAIN ParseTasks(lines)
    PROVE  /\ IsValidTodo(MarkTaskDone(lines, n))
           /\ Len(ParseTasks(MarkTaskDone(lines, n))) = Len(ParseTasks(lines))
           /\ ParseTasks(MarkTaskDone(lines, n))[n].done
           /\ \A k \in DOMAIN ParseTasks(lines) :
                /\ AlikeTasks(ParseTasks(lines)[k], ParseTasks(MarkTaskDone(lines, n))[k])
                /\ ParseTasks(lines)[k].done => ParseTasks(MarkTaskDone(lines, n))[k].done
                /\ k # n /\ ProgressDone(lines, k) # {} =>
                      (ParseTasks(MarkTaskDone(lines, n))[k].done <=> ParseTasks(lines)[k].done)
<1> DEFINE done == MarkTaskDone(lines, n)
           old == ParseTasks(lines)
           new == ParseTasks(done)
           headings == TaskHeadings(lines)
           Status(k) == StatusBoxes(lines, headings[k], SectionEnd(lines, headings, k))
<1>1. done \in Seq(LinesOf(K, T)) /\ Alike(lines, done)
  BY MarkingIsAlike DEF MarkTaskDone
<1> HIDE DEF done
<1>2. IsValidTodo(done)
  BY <1>1, SameValidity
<1>3. /\ Len(new) = Len(old) /\ DOMAIN old = 1..Len(old) /\ DOMAIN headings = 1..Len(old)
      /\ DOMAIN new = 1..Len(old)
      /\ \A k \in 1..Len(old) : AlikeTasks(old[k], new[k])
  BY <1>1, SameTasks, ParserReads
<1>4. \A k \in 1..Len(old) :
          /\ headings[k] \in 1..Len(lines) /\ SectionEnd(lines, headings, k) \in 0..Len(lines)
          /\ TaskRead(lines, old[k], k, headings[k], SectionEnd(lines, headings, k))
          /\ TaskRead(done, new[k], k, headings[k], SectionEnd(lines, headings, k))
  BY <1>1, <1>3, ParserReads, SameHeadings
<1>5. \A k \in 1..Len(old) : old[k].taskId = k /\ old[k].status # {}
  BY <1>3 DEF IsValidTodo, AreValid, IsValidTask
<1>6. \A k \in 1..Len(old) : lines[headings[k]].n = k /\ done[headings[k]].n = k
  BY <1>1, <1>4, <1>5 DEF TaskRead, Alike
<1>7. \A k \in 1..Len(old) :
          /\ Status(k) # {} /\ Status(k) \subseteq 1..Len(lines)
          /\ StatusBoxes(done, headings[k], SectionEnd(lines, headings, k)) = Status(k)
  <2> SUFFICES ASSUME NEW k \in 1..Len(old)
               PROVE  /\ Status(k) # {} /\ Status(k) \subseteq 1..Len(lines)
                      /\ StatusBoxes(done, headings[k], SectionEnd(lines, headings, k)) = Status(k)
    OBVIOUS
  <2>1. /\ Status(k) \subseteq 1..Len(lines)
        /\ StatusBoxes(done, headings[k], SectionEnd(lines, headings, k)) = Status(k)
    BY <1>1, <1>4, SameStatus
  <2>2. old[k].status = {<<i, lines[i].done>> : i \in Status(k)}
    BY <1>4 DEF TaskRead
  <2> HIDE DEF Status
  <2>3. Status(k) # {}
    BY <1>5, <2>2
  <2> QED
    BY <2>1, <2>3
<1> DEFINE Progress(k) == ProgressBoxes(lines, k)
<1>8. \A k \in 1..Len(old) :
          /\ ProgressDone(lines, k) = IF Progress(k) = {} THEN {} ELSE {lines[Min(Progress(k))].done}
          /\ ProgressDone(done, k) = IF Progress(k) = {} THEN {} ELSE {done[Min(Progress(k))].done}
          /\ Progress(k) # {} => /\ Min(Progress(k)) \in Of(lines, {"box"})
                                 /\ Min(Progress(k)) \in 1..Len(lines)
                                 /\ lines[Min(Progress(k))].n = k
  <2> SUFFICES ASSUME NEW k \in 1..Len(old)
               PROVE  /\ ProgressDone(lines, k) = IF Progress(k) = {} THEN {}
                                                  ELSE {lines[Min(Progress(k))].done}
                      /\ ProgressDone(done, k) = IF Progress(k) = {} THEN {}
                                                 ELSE {done[Min(Progress(k))].done}
                      /\ Progress(k) # {} => /\ Min(Progress(k)) \in Of(lines, {"box"})
                                             /\ Min(Progress(k)) \in 1..Len(lines)
                                             /\ lines[Min(Progress(k))].n = k
    OBVIOUS
  <2>1. Of(lines, {"box"}) \subseteq 1..Len(lines) /\ Len(lines) \in Nat
    BY <1>1, SameKinds
  <2>2. Progress(k) \subseteq {i \in Of(lines, {"box"}) : lines[i].n = k}
    BY <1>1, SameProgress
  <2>3. Progress(k) # {} => Min(Progress(k)) \in Progress(k)
    <3>1. Progress(k) \subseteq Nat
      BY <2>1, <2>2
    <3> HIDE DEF Progress
    <3> QED
      BY <3>1, FirstIsFirst
  <2>4. /\ ProgressDone(lines, k) = IF Progress(k) = {} THEN {} ELSE {lines[Min(Progress(k))].done}
        /\ ProgressDone(done, k) = IF Progress(k) = {} THEN {} ELSE {done[Min(Progress(k))].done}
    BY <1>1, SameProgress
  <2> HIDE DEF Progress
  <2> QED
    BY <2>1, <2>2, <2>3, <2>4
<1> HIDE DEF Progress
<1>9. \A k \in 1..Len(old) :
          /\ old[k].done <=> IF Progress(k) # {} THEN lines[Min(Progress(k))].done = TRUE
                             ELSE \A i \in Status(k) : lines[i].done = TRUE
          /\ new[k].done <=> IF Progress(k) # {} THEN done[Min(Progress(k))].done = TRUE
                             ELSE \A i \in Status(k) : done[i].done = TRUE
  <2> SUFFICES ASSUME NEW k \in 1..Len(old)
               PROVE  /\ old[k].done <=> IF Progress(k) # {} THEN lines[Min(Progress(k))].done = TRUE
                                         ELSE \A i \in Status(k) : lines[i].done = TRUE
                      /\ new[k].done <=> IF Progress(k) # {} THEN done[Min(Progress(k))].done = TRUE
                                         ELSE \A i \in Status(k) : done[i].done = TRUE
    OBVIOUS
  <2>1. PICK from, to : /\ from = headings[k] /\ to = SectionEnd(lines, headings, k)
                        /\ TaskRead(lines, old[k], k, from, to)
                        /\ TaskRead(done, new[k], k, from, to)
    BY <1>4
  <2>2. /\ lines[from].n = k /\ done[from].n = k
        /\ StatusBoxes(lines, from, to) = Status(k) /\ StatusBoxes(done, from, to) = Status(k)
    BY <1>6, <1>7, <2>1
  <2> HIDE DEF Status, new, old, headings
  <2>3. old[k].done = IF ProgressDone(lines, k) # {} THEN ProgressDone(lines, k) = {TRUE}
                      ELSE Status(k) # {} /\ \A i \in Status(k) : lines[i].done
    <3>1. old[k].done = IF ProgressDone(lines, lines[from].n) # {}
                        THEN ProgressDone(lines, lines[from].n) = {TRUE}
                        ELSE /\ StatusBoxes(lines, from, to) # {}
                             /\ \A i \in StatusBoxes(lines, from, to) : lines[i].done
      BY <2>1 DEF TaskRead
    <3> QED
      BY <2>2, <3>1
  <2>4. new[k].done = IF ProgressDone(done, k) # {} THEN ProgressDone(done, k) = {TRUE}
                      ELSE Status(k) # {} /\ \A i \in Status(k) : done[i].done
    <3>1. new[k].done = IF ProgressDone(done, done[from].n) # {}
                        THEN ProgressDone(done, done[from].n) = {TRUE}
                        ELSE /\ StatusBoxes(done, from, to) # {}
                             /\ \A i \in StatusBoxes(done, from, to) : done[i].done
      BY <2>1 DEF TaskRead
    <3> QED
      BY <2>2, <3>1
  <2> HIDE DEF Status, new, old, headings
  <2> QED
    BY <1>7, <1>8, <2>3, <2>4
<1>10. /\ \A i \in 1..Len(lines) : done[i].done \in {lines[i].done, TRUE}
       /\ \A i \in Of(lines, {"box"}) : lines[i].n = n => done[i].done = TRUE
       /\ \A i \in Status(n) : done[i].done = TRUE
       /\ \A i \in Of(lines, {"box"}) :
              lines[i].n # n /\ i \notin Status(n) => done[i].done = lines[i].done
  <2>1. n \in DOMAIN headings /\ lines[headings[n]].n = n
        /\ \A j \in DOMAIN headings : lines[headings[j]].n = n => j = n
    BY <1>3, <1>6
  <2>2. Status(n) \subseteq 1..Len(lines)
    BY <1>3, <1>7
  <2>3. /\ \A i \in 1..Len(lines) : done[i].done \in {lines[i].done, TRUE}
        /\ \A i \in Of(lines, {"box"}) : lines[i].n = n => done[i].done = TRUE
    BY MarkingIsAlike DEF done, MarkTaskDone
  <2>4. \A i \in Status(n) : i \in 1..Len(lines) => done[i].done = TRUE
    BY <2>1, MarkingIsAlike DEF done, MarkTaskDone, Status, headings
  <2>5. \A i \in Of(lines, {"box"}) :
            lines[i].n # n /\ i \notin Status(n) => done[i].done = lines[i].done
    <3> SUFFICES ASSUME NEW i \in Of(lines, {"box"}), lines[i].n # n,
                        done[i].done # lines[i].done
                 PROVE  i \in Status(n)
      OBVIOUS
    <3>1. \E k \in DOMAIN headings : lines[headings[k]].n = n /\ i \in Status(k)
      BY MarkingIsAlike DEF done, MarkTaskDone
    <3> HIDE DEF Status, headings
    <3> QED
      BY <2>1, <3>1
  <2> QED
    BY <2>2, <2>3, <2>4, <2>5
<1>11. \A k \in 1..Len(old) : Progress(k) \intersect Status(n) = {}
  BY ProgressComesFirst DEF Progress, Status, headings
<1> HIDE DEF Status, new, old, headings
<1>12. new[n].done
  <2>1. n \in 1..Len(old)
    BY <1>3 DEF old
  <2>2. /\ Progress(n) # {} => /\ Min(Progress(n)) \in Of(lines, {"box"})
                               /\ lines[Min(Progress(n))].n = n
        /\ new[n].done <=> IF Progress(n) # {} THEN done[Min(Progress(n))].done = TRUE
                           ELSE \A i \in Status(n) : done[i].done = TRUE
    BY <1>8, <1>9, <2>1
  <2>3. CASE Progress(n) # {}
    BY <1>10, <2>2, <2>3
  <2>4. CASE Progress(n) = {}
    BY <1>10, <2>2, <2>4
  <2> QED
    BY <2>3, <2>4
<1>13. ASSUME NEW k \in 1..Len(old), old[k].done PROVE new[k].done
  <2>1. CASE Progress(k) # {}
    BY <1>8, <1>9, <1>10, <1>13, <2>1
  <2>2. CASE Progress(k) = {}
    BY <1>7, <1>9, <1>10, <1>13, <2>2
  <2> QED
    BY <2>1, <2>2
<1>14. ASSUME NEW k \in 1..Len(old), k # n, ProgressDone(lines, k) # {}
       PROVE  new[k].done <=> old[k].done
  <2>1. Progress(k) # {}
    BY <1>8, <1>14
  <2>2. Min(Progress(k)) \in Progress(k)
    <3>1. Progress(k) \subseteq Of(lines, {"box"}) /\ Of(lines, {"box"}) \subseteq Nat
      BY <1>1, SameProgress, SameKinds DEF Progress
    <3> QED
      BY <2>1, <3>1, FirstIsFirst
  <2>3. done[Min(Progress(k))].done = lines[Min(Progress(k))].done
    BY <1>8, <1>10, <1>11, <1>14, <2>1, <2>2
  <2> QED
    BY <1>9, <2>1, <2>3
<1> QED
  BY <1>2, <1>3, <1>12, <1>13, <1>14 DEF old, new, done

\* Sections that differ in check marks only have the same body.
LEMMA SameBody ==
    ASSUME NEW K, NEW T, NEW lines \in Seq(LinesOf(K, T)), NEW others \in Seq(LinesOf(K, T)),
           Alike(lines, others), NEW from \in 1..Len(lines), NEW to \in 0..Len(lines)
    PROVE  Body(SubSeq(others, from, to)) = Body(SubSeq(lines, from, to))
<1> SUFFICES ASSUME NEW old, old = SubSeq(lines, from, to),
                    NEW new, new = SubSeq(others, from, to)
             PROVE  Body(new) = Body(old)
  OBVIOUS
<1>1. Len(lines) \in Nat /\ Len(others) = Len(lines)
  BY DEF Alike
<1>2. old \in Seq(LinesOf(K, T)) /\ new \in Seq(LinesOf(K, T)) /\ Len(new) = Len(old)
  BY <1>1
<1>3. ASSUME NEW i \in 1..Len(old)
      PROVE  new[i].kind = old[i].kind /\ new[i].n = old[i].n /\ new[i].t = old[i].t
  <2>1. /\ old[i] = lines[from + i - 1] /\ new[i] = others[from + i - 1]
        /\ from + i - 1 \in 1..Len(lines)
    BY <1>1
  <2> QED
    BY <2>1 DEF Alike
<1>4. ASSUME NEW i \in 1..Len(old)
      PROVE  [new[i] EXCEPT !.done = FALSE] = [old[i] EXCEPT !.done = FALSE]
  <2>1. old[i] \in LinesOf(K, T) /\ new[i] \in LinesOf(K, T)
    BY <1>2
  <2> QED
    BY <1>3, <2>1 DEF LinesOf
<1> DEFINE at == 2..Len(old) \ Of(old, {"marker"})
<1>5. 2..Len(new) \ Of(new, {"marker"}) = at
  <2>1. DOMAIN old = 1..Len(old) /\ DOMAIN new = 1..Len(old)
    BY <1>2
  <2>2. Of(new, {"marker"}) = Of(old, {"marker"})
    BY <1>3, <2>1 DEF Of
  <2> QED
    BY <1>2, <2>2
<1>6. InOrder(at) \in Seq(at) /\ at \subseteq 1..Len(old)
  <2>1. at \subseteq 1..Len(old) /\ 1..Len(old) \subseteq Nat /\ Len(old) \in Nat
    BY <1>2
  <2>2. IsFiniteSet(at)
    <3>1. IsFiniteSet(1..Len(old))
      BY <2>1, FS_Interval
    <3> QED
      BY <2>1, <3>1, FS_Subset
  <2> HIDE DEF at
  <2> QED
    BY <2>1, <2>2, OrderIsSequence
<1> HIDE DEF at
<1> SUFFICES ASSUME NEW says, says = InOrder(at)
             PROVE  [k \in DOMAIN says |-> [new[says[k]] EXCEPT !.done = FALSE]]
                        = [k \in DOMAIN says |-> [old[says[k]] EXCEPT !.done = FALSE]]
  <2>1. Body(new) = [k \in DOMAIN InOrder(at) |-> [new[InOrder(at)[k]] EXCEPT !.done = FALSE]]
    BY <1>5 DEF Body
  <2>2. Body(old) = [k \in DOMAIN InOrder(at) |-> [old[InOrder(at)[k]] EXCEPT !.done = FALSE]]
    BY DEF Body, at
  <2> QED
    BY <2>1, <2>2
<1>7. \A k \in DOMAIN says : says[k] \in 1..Len(old)
  <2>1. says \in Seq(at)
    BY <1>6
  <2>2. \A k \in DOMAIN says : says[k] \in at
    BY <2>1
  <2> QED
    BY <1>6, <2>2
<1>8. \A k \in DOMAIN says :
          [new[says[k]] EXCEPT !.done = FALSE] = [old[says[k]] EXCEPT !.done = FALSE]
  BY <1>4, <1>7
<1> QED
  BY <1>8

\* Reconciliation is given one task for each that is parsed.
LEMMA TasksGiven ==
    ASSUME NEW L, NEW lines \in Seq(L)
    PROVE  PlanTasks(lines) = [k \in 1..Len(ParseTasks(lines)) |-> PlanTask(ParseTasks(lines)[k])]
<1> SUFFICES ASSUME NEW parsed, parsed = ParseTasks(lines)
             PROVE  PlanTasks(lines) = [k \in 1..Len(parsed) |-> PlanTask(parsed[k])]
  OBVIOUS
<1>1. Len(parsed) \in Nat /\ DOMAIN parsed = 1..Len(parsed)
  BY ParserReads
<1> DEFINE given == [k \in 1..Len(parsed) |-> PlanTask(parsed[k])]
<1>2. PlanTasks(lines) = given \o <<>>
  BY <1>1 DEF PlanTasks, AsPlan, AsTuple
<1>3. given \in Seq({PlanTask(parsed[k]) : k \in 1..Len(parsed)})
  BY <1>1
<1> HIDE DEF given
<1>4. given \o <<>> = given
  BY <1>3
<1> QED
  BY <1>2, <1>4 DEF given

\* Where every task has its box in the progress section (which ProgressIsRead gives of
\* documents without fences there), the tasks that reconciliation and the store see in a
\* document change as PlanRegister says of a completion (CheckOff): one is done, and
\* nothing else is new.
THEOREM CompletionIsOneCheck ==
    ASSUME NEW K, NEW T, NEW lines \in Seq(LinesOf(K, T)), IsValidTodo(lines),
           \A k \in DOMAIN ParseTasks(lines) : ProgressDone(lines, k) # {},
           NEW n \in DOMAIN ParseTasks(lines)
    PROVE  PlanTasks(MarkTaskDone(lines, n))
               = [PlanTasks(lines) EXCEPT ![n] = [@ EXCEPT !.done = TRUE]]
<1> SUFFICES ASSUME NEW marked, marked = MarkTaskDone(lines, n),
                    NEW old, old = ParseTasks(lines), NEW new, new = ParseTasks(marked)
             PROVE  PlanTasks(marked) = [PlanTasks(lines) EXCEPT ![n] = [@ EXCEPT !.done = TRUE]]
  OBVIOUS
<1>1. marked \in Seq(LinesOf(K, T)) /\ Alike(lines, marked)
  BY MarkingIsAlike DEF MarkTaskDone
<1>2. /\ Len(new) = Len(old) /\ Len(old) \in Nat
      /\ DOMAIN old = 1..Len(old) /\ n \in 1..Len(old)
  BY <1>1, SameTasks, ParserReads
<1>3. /\ PlanTasks(lines) = [k \in 1..Len(old) |-> PlanTask(old[k])]
      /\ PlanTasks(marked) = [k \in 1..Len(old) |-> PlanTask(new[k])]
  <2>1. PlanTasks(marked) = [k \in 1..Len(new) |-> PlanTask(new[k])]
    BY <1>1, TasksGiven
  <2>2. PlanTasks(lines) = [k \in 1..Len(old) |-> PlanTask(old[k])]
    BY TasksGiven
  <2> QED
    BY <1>2, <2>1, <2>2
<1>4. ASSUME NEW k \in 1..Len(old)
      PROVE  /\ new[k].stableId = old[k].stableId /\ new[k].title = old[k].title
             /\ Body(new[k].section) = Body(old[k].section)
  <2>1. AlikeTasks(old[k], new[k])
    BY <1>1, <1>4, SameTasks
  <2>2. PICK from, to : /\ from \in 1..Len(lines) /\ to \in 0..Len(lines)
                        /\ TaskRead(lines, old[k], k, from, to)
                        /\ TaskRead(marked, new[k], k, from, to)
    BY <1>1, <1>2, <1>4, ParserReads, SameHeadings
  <2>3. old[k].section = SubSeq(lines, from, to) /\ new[k].section = SubSeq(marked, from, to)
    BY <2>2 DEF TaskRead
  <2>4. Body(SubSeq(marked, from, to)) = Body(SubSeq(lines, from, to))
    BY <1>1, <2>2, SameBody
  <2> QED
    BY <2>1, <2>3, <2>4 DEF AlikeTasks
<1>5. \A k \in 1..Len(old) : old[k].done \in BOOLEAN /\ new[k].done \in BOOLEAN
  <2>1. \A k \in 1..Len(old) : old[k].done \in BOOLEAN
    BY ParserReads DEF TaskRead
  <2>2. \A k \in 1..Len(new) : new[k].done \in BOOLEAN
    BY <1>1, ParserReads DEF TaskRead
  <2> QED
    BY <1>2, <2>1, <2>2
<1>6. /\ new[n].done = TRUE
      /\ \A k \in 1..Len(old) : k # n => new[k].done = old[k].done
  <2>1. /\ new[n].done
        /\ \A k \in 1..Len(old) : k # n => (new[k].done <=> old[k].done)
    BY <1>2, CompletionIsAccepted
  <2> QED
    BY <1>2, <1>5, <2>1
<1>7. ASSUME NEW k \in 1..Len(old)
      PROVE  PlanTask(new[k]) = IF k = n THEN [PlanTask(old[k]) EXCEPT !.done = TRUE]
                                ELSE PlanTask(old[k])
  BY <1>4, <1>6 DEF PlanTask
<1> SUFFICES ASSUME NEW given, given = [k \in 1..Len(old) |-> PlanTask(old[k])]
             PROVE  [k \in 1..Len(old) |-> PlanTask(new[k])]
                        = [given EXCEPT ![n] = [@ EXCEPT !.done = TRUE]]
  BY <1>3
<1>8. [given EXCEPT ![n] = [@ EXCEPT !.done = TRUE]]
          = [k \in 1..Len(old) |-> IF k = n THEN [given[n] EXCEPT !.done = TRUE] ELSE given[k]]
  BY <1>2
<1>9. \A k \in 1..Len(old) :
          PlanTask(new[k]) = IF k = n THEN [given[n] EXCEPT !.done = TRUE] ELSE given[k]
  BY <1>2, <1>7
<1> QED
  BY <1>8, <1>9

\* Positions in their order leave none out.
LEMMA OrderIsComplete ==
    ASSUME NEW S, S \subseteq Nat, IsFiniteSet(S)
    PROVE  \A x \in S : \E k \in 1..Cardinality(S) : InOrder(S)[k] = x
<1> SUFFICES ASSUME NEW seq, seq = InOrder(S), NEW n, n = Cardinality(S)
             PROVE  \A x \in S : \E k \in 1..n : seq[k] = x
  OBVIOUS
<1>1. n \in Nat /\ IsFiniteSet(1..n) /\ Cardinality(1..n) = n
  BY FS_CardinalityType, FS_Interval
<1>2. /\ seq \in [1..n -> S]
      /\ \A j, k \in 1..n : j < k => seq[j] < seq[k]
  <2>1. /\ InOrder(S) \in Seq(S) /\ Len(InOrder(S)) = Cardinality(S)
        /\ \A j, k \in 1..Cardinality(S) : j < k => InOrder(S)[j] < InOrder(S)[k]
    BY OrderIsSequence
  <2>2. /\ seq \in Seq(S) /\ Len(seq) = n
        /\ \A j, k \in 1..n : j < k => seq[j] < seq[k]
    BY <2>1
  <2>3. seq \in [1..n -> S]
    BY <2>2
  <2> QED
    BY <2>2, <2>3
<1>3. \A j, k \in 1..n : seq[j] = seq[k] => j = k
  <2> SUFFICES ASSUME NEW j \in 1..n, NEW k \in 1..n, seq[j] = seq[k], j # k PROVE FALSE
    OBVIOUS
  <2>1. j < k \/ k < j
    BY <1>1
  <2>2. seq[j] \in Nat /\ seq[k] \in Nat
    BY <1>2
  <2>3. seq[j] < seq[k] \/ seq[k] < seq[j]
    BY <1>2, <2>1
  <2> QED
    BY <2>2, <2>3
<1>4. seq \in Injection(1..n, S)
  BY <1>2, <1>3 DEF Injection, IsInjective
<1>5. seq \in Surjection(1..n, S)
  BY <1>1, <1>4, FS_Injection
<1> QED
  BY <1>5 DEF Surjection

\* The position of the first task, and the entries that validation found before it.
LEMMA EntriesPrecedeTasks ==
    ASSUME NEW L, NEW lines \in Seq(L), IsValidTodo(lines), NEW first,
           first = ParseTasks(lines)[1].from
    PROVE  /\ first = TaskHeadings(lines)[1] /\ first \in 1..Len(lines)
           /\ first \in Of(lines, {"heading"})
           /\ \A i \in Visible(lines) \intersect Of(lines, {"heading"}) : ~ (i < first)
           /\ \A k \in DOMAIN ParseTasks(lines) :
                 /\ ProgressEntries(lines, first)[k].n = k
                 /\ lines[TaskHeadings(lines)[k]].n = k
           /\ Len(ProgressEntries(lines, first)) = Len(ParseTasks(lines))
           /\ Len(ParseTasks(lines)) \in Nat \ {0}
           /\ DOMAIN ParseTasks(lines) = 1..Len(ParseTasks(lines))
<1>1. /\ Len(ParseTasks(lines)) \in Nat \ {0}
      /\ DOMAIN ParseTasks(lines) = 1..Len(ParseTasks(lines))
      /\ DOMAIN TaskHeadings(lines) = 1..Len(ParseTasks(lines))
      /\ 1 \in 1..Len(ParseTasks(lines))
  <2>1. /\ ParseTasks(lines) # <<>> /\ Len(ParseTasks(lines)) \in Nat
        /\ Len(ParseTasks(lines)) # 0
    BY ParserReads DEF IsValidTodo
  <2> QED
    BY <2>1, ParserReads
<1>2. first = TaskHeadings(lines)[1]
  BY <1>1, ParserReads DEF TaskRead
<1>3. first \in 1..Len(lines) /\ first \in Of(lines, {"heading"})
  BY <1>1, <1>2, HeadingsInDocument
<1>4. AreValid(ParseTasks(lines), ProgressEntries(lines, first))
  BY DEF IsValidTodo
<1>5. ASSUME NEW k \in 1..Len(ParseTasks(lines))
      PROVE  /\ ProgressEntries(lines, first)[k].n = k
             /\ lines[TaskHeadings(lines)[k]].n = k
  <2>1. ParseTasks(lines)[k].taskId = k /\ ProgressEntries(lines, first)[k].n = k
    BY <1>1, <1>4, <1>5 DEF AreValid, IsValidTask
  <2>2. ParseTasks(lines)[k].taskId = lines[TaskHeadings(lines)[k]].n
    BY <1>5, ParserReads DEF TaskRead
  <2> QED
    BY <2>1, <2>2
<1>6. ASSUME NEW i \in Visible(lines) \intersect Of(lines, {"heading"}) PROVE ~ (i < first)
  <2> DEFINE at == Visible(lines) \intersect Of(lines, {"heading"})
             size == Len(ParseTasks(lines))
  <2>1. at \subseteq 1..Len(lines) /\ Len(lines) \in Nat
    BY DEF Of
  <2>2. at \subseteq Nat /\ IsFiniteSet(at)
    <3>1. IsFiniteSet(1..Len(lines))
      BY <2>1, FS_Interval
    <3> QED
      BY <2>1, <3>1, FS_Subset
  <2>3. TaskHeadings(lines) = InOrder(at)
    BY DEF TaskHeadings
  <2>4. i \in at
    BY <1>6
  <2> HIDE DEF at
  <2>5. Cardinality(at) \in Nat /\ 1..Cardinality(at) = 1..size
    BY <1>1, <2>2, <2>3, OrderIsSequence, FS_CardinalityType
  <2>6. PICK k \in 1..size : TaskHeadings(lines)[k] = i
    BY <2>2, <2>3, <2>4, <2>5, OrderIsComplete
  <2>7. k = 1 \/ 1 < k
    BY <1>1
  <2>8. 1 < k => first < i
    BY <1>1, <1>2, <2>5, <2>6, HeadingsInDocument
  <2>9. i \in Nat /\ first \in Nat
    BY <1>3, <2>2, <2>4
  <2> QED
    BY <1>2, <2>6, <2>7, <2>8, <2>9
<1> QED
  BY <1>1, <1>2, <1>3, <1>4, <1>5, <1>6 DEF AreValid

\* Where the progress section is outside fences, validation, which skips fences, and the
\* parser, which does not, read the same boxes: every task has its one box there, and it
\* says whether the task is done.
THEOREM ProgressIsRead ==
    ASSUME NEW K, NEW T, NEW lines \in Seq(LinesOf(K, T)), IsValidTodo(lines), Unfenced(lines),
           NEW k \in DOMAIN ParseTasks(lines)
    PROVE  /\ ProgressDone(lines, k) # {}
           /\ ProgressEntries(lines, ParseTasks(lines)[1].from)[k].done = ParseTasks(lines)[k].done
<1> SUFFICES ASSUME NEW first, first = ParseTasks(lines)[1].from,
                    NEW entries, entries = ProgressEntries(lines, first)
             PROVE  ProgressDone(lines, k) # {} /\ entries[k].done = ParseTasks(lines)[k].done
  OBVIOUS
<1> DEFINE size == Len(lines)
           visible == Visible(lines)
           count == Len(ParseTasks(lines))
<1>1. /\ first \in 1..size /\ first \in Of(lines, {"heading"})
      /\ \A i \in visible \intersect Of(lines, {"heading"}) : ~ (i < first)
      /\ \A j \in 1..count : entries[j].n = j /\ lines[TaskHeadings(lines)[j]].n = j
      /\ Len(entries) = count /\ count \in Nat \ {0} /\ k \in 1..count
  BY EntriesPrecedeTasks
<1>2. /\ size \in Nat
      /\ \A kinds : Of(lines, kinds) \subseteq 1..size /\ Of(lines, kinds) \subseteq Nat
  BY DEF Of
<1>3. \A i \in Of(lines, {"progress", "rule", "heading", "box"}) : i < first => i \in visible
  BY DEF Unfenced
<1>4. \A i \in Of(lines, {"heading"}) : ~ (i < first)
  <2>1. Of(lines, {"heading"}) \subseteq Of(lines, {"progress", "rule", "heading", "box"})
    BY DEF Of
  <2> QED
    BY <1>1, <1>3, <2>1
<1> HIDE DEF visible, count
\* What validation reads.
<1> DEFINE before(kind, i) == {j \in visible \intersect Of(lines, {kind}) : i < j /\ j < first}
           start == FirstOf(before("progress", 0), first)
           stops == before("rule", start)
           stop == IF stops = {} THEN 0 ELSE Min(stops)
           boxes == {i \in visible \intersect Of(lines, {"box"}) : start < i /\ i < stop}
<1>5. /\ boxes \subseteq Of(lines, {"box"}) /\ boxes \subseteq Nat /\ IsFiniteSet(boxes)
  <2>1. boxes \subseteq Of(lines, {"box"})
    OBVIOUS
  <2> HIDE DEF boxes
  <2>2. IsFiniteSet(1..size) /\ boxes \subseteq 1..size
    BY <1>2, <2>1, FS_Interval
  <2> QED
    BY <1>2, <2>1, <2>2, FS_Subset
<1>6. entries = [j \in DOMAIN InOrder(boxes) |-> lines[InOrder(boxes)[j]]]
  BY DEF ProgressEntries, visible
<1>7. start \in before("progress", 0) \union {first} /\ start \in Nat
      /\ \A i \in before("progress", 0) \union {first} : start <= i
  <2>1. before("progress", 0) \subseteq Nat /\ first \in Nat
    BY <1>1, <1>2
  <2> HIDE DEF before
  <2> QED
    BY <2>1, FirstOfIsOne, FirstOfIsLeast
<1>8. stops \subseteq Nat
  BY <1>2
<1>9. /\ DOMAIN InOrder(boxes) = 1..count /\ Cardinality(boxes) = count
      /\ \A j \in 1..count : InOrder(boxes)[j] \in boxes /\ entries[j] = lines[InOrder(boxes)[j]]
      /\ \A i \in boxes : \E j \in 1..count : InOrder(boxes)[j] = i
  <2> HIDE DEF boxes
  <2>1. /\ InOrder(boxes) \in Seq(boxes) /\ DOMAIN InOrder(boxes) = 1..Cardinality(boxes)
        /\ Cardinality(boxes) \in Nat
    BY <1>5, OrderIsSequence, FS_CardinalityType
  <2>2. Len(entries) = Cardinality(boxes)
    BY <1>6, <2>1
  <2>3. Cardinality(boxes) = count
    BY <1>1, <2>2 DEF count
  <2>4. /\ InOrder(boxes) \in [1..count -> boxes]
        /\ entries = [j \in 1..count |-> lines[InOrder(boxes)[j]]]
    BY <1>6, <2>1, <2>3
  <2>5. \A i \in boxes : \E j \in 1..count : InOrder(boxes)[j] = i
    BY <1>5, <2>3, OrderIsComplete
  <2> QED
    BY <2>3, <2>4, <2>5
\* There are entries, so there are a Progress heading and a rule before the tasks.
<1>10. boxes # {}
  <2> HIDE DEF boxes
  <2>1. InOrder(boxes)[1] \in boxes
    BY <1>1, <1>9
  <2> QED
    BY <2>1
<1>11. stops # {}
  <2> SUFFICES ASSUME stops = {} PROVE FALSE
    OBVIOUS
  <2> HIDE DEF stops, start
  <2>1. \A i \in boxes : i < 0 /\ i \in Nat
    BY <1>5
  <2> QED
    BY <1>10, <2>1
<1>12. stop \in stops /\ \A i \in stops : stop <= i
  <2> HIDE DEF stops
  <2> QED
    BY <1>8, <1>11, FirstIsFirst
<1> HIDE DEF stop
<1>13. /\ stop \in Of(lines, {"rule"}) /\ stop \in Nat /\ start < stop /\ stop < first
       /\ \A i \in visible \intersect Of(lines, {"rule"}) : start < i /\ i < first => stop <= i
  BY <1>2, <1>12
<1> HIDE DEF stops
<1>14. /\ start \in Of(lines, {"progress"}) /\ start < first
       /\ \A i \in visible \intersect Of(lines, {"progress"}) : 0 < i /\ i < first => start <= i
  BY <1>1, <1>7, <1>13
<1> HIDE DEF start, before
\* The parser reads from the same line to the same line.
<1> DEFINE from == FirstOf(Of(lines, {"progress"}), size + 1)
           after == {i \in Of(lines, {"rule", "heading"}) : i > from}
           to == FirstOf(after, size + 1)
<1>15. from = start
  <2>1. size + 1 \in Nat /\ Of(lines, {"progress"}) \subseteq Nat
    BY <1>2
  <2> HIDE DEF size
  <2>2. /\ from \in Nat /\ from \in Of(lines, {"progress"}) \union {size + 1}
        /\ \A i \in Of(lines, {"progress"}) : from <= i
    BY <2>1, FirstOfIsOne, FirstOfIsLeast
  <2> HIDE DEF from
  <2>3. from <= start
    BY <1>14, <2>2
  <2>4. from < first
    BY <1>1, <1>7, <1>14, <2>2, <2>3
  <2>5. from \in Of(lines, {"progress"}) /\ 0 < from
    BY <1>1, <1>2, <2>2, <2>4 DEF size
  <2>6. from \in visible
    <3>1. from \in Of(lines, {"progress", "rule", "heading", "box"})
      BY <2>5 DEF Of
    <3> QED
      BY <1>3, <2>4, <3>1
  <2>7. start <= from
    BY <1>14, <2>4, <2>5, <2>6
  <2> QED
    BY <1>7, <2>2, <2>3, <2>7
<1> HIDE DEF from
<1>16. to = stop
  <2>1. size + 1 \in Nat /\ after \subseteq Nat
    BY <1>2
  <2>2. stop \in after
    <3>1. stop \in Of(lines, {"rule", "heading"})
      BY <1>13 DEF Of
    <3> QED
      BY <1>13, <1>15, <3>1
  <2> HIDE DEF size
  <2>3. /\ to \in Nat /\ to \in after \union {size + 1}
        /\ \A i \in after : to <= i
    <3> HIDE DEF after
    <3> QED
      BY <2>1, FirstOfIsOne, FirstOfIsLeast
  <2> HIDE DEF to
  <2>4. to <= stop /\ to < first
    BY <1>1, <1>13, <2>2, <2>3
  <2>5. to \in after
    BY <1>1, <2>3, <2>4 DEF size
  <2>6. to \in Of(lines, {"rule", "heading"}) /\ start < to
    BY <1>7, <1>15, <2>1, <2>5
  <2>7. to \in Of(lines, {"rule"}) /\ to \in visible
    <3>1. to \in Of(lines, {"rule"}) \/ to \in Of(lines, {"heading"})
      BY <2>6 DEF Of
    <3>2. to \in Of(lines, {"rule"})
      BY <1>4, <2>4, <3>1
    <3>3. to \in Of(lines, {"progress", "rule", "heading", "box"})
      BY <3>2 DEF Of
    <3> QED
      BY <1>3, <2>4, <3>2, <3>3
  <2>8. stop <= to
    BY <1>13, <2>4, <2>6, <2>7
  <2> QED
    BY <1>13, <2>3, <2>4, <2>8
<1> HIDE DEF to
<1>17. ProgressBoxes(lines, k) = {i \in Of(lines, {"box"}) : start < i /\ i < stop /\ lines[i].n = k}
  <2>1. ProgressBoxes(lines, k) = {i \in Of(lines, {"box"}) : from < i /\ i < to /\ lines[i].n = k}
    BY DEF ProgressBoxes, from, after, to
  <2> HIDE DEF after, size
  <2> QED
    BY <1>15, <1>16, <2>1
<1>18. ProgressBoxes(lines, k) = {i \in boxes : lines[i].n = k}
  <2>1. \A i \in Of(lines, {"box"}) : i < stop => i \in visible
    <3> SUFFICES ASSUME NEW i \in Of(lines, {"box"}), i < stop PROVE i \in visible
      OBVIOUS
    <3>1. i \in Of(lines, {"progress", "rule", "heading", "box"})
      BY DEF Of
    <3>2. i < first
      BY <1>1, <1>2, <1>13
    <3> QED
      BY <1>3, <3>1, <3>2
  <2> QED
    BY <1>17, <2>1
\* Of these the k-th has the number of task k.
<1> DEFINE mine == InOrder(boxes)[k]
<1> HIDE DEF boxes
<1>19. ProgressBoxes(lines, k) = {mine}
  <2>1. mine \in boxes /\ lines[mine].n = k
    BY <1>1, <1>9 DEF count
  <2>2. ASSUME NEW i \in boxes, lines[i].n = k PROVE i = mine
    <3>1. PICK j \in 1..count : InOrder(boxes)[j] = i
      BY <1>9
    <3>2. lines[i].n = j
      BY <1>1, <1>9, <3>1 DEF count
    <3> QED
      BY <2>2, <3>1, <3>2
  <2> HIDE DEF mine
  <2> QED
    BY <1>18, <2>1, <2>2
<1>20. mine \in boxes /\ mine \in Nat /\ mine \in 1..size /\ entries[k] = lines[mine]
  BY <1>1, <1>2, <1>5, <1>9 DEF count
<1> HIDE DEF mine
<1>21. ProgressDone(lines, k) = {lines[mine].done}
  <2>1. Min(ProgressBoxes(lines, k)) = mine
    <3>1. {mine} \subseteq Nat /\ {mine} # {}
      BY <1>20
    <3>2. Min({mine}) \in {mine}
      BY <3>1, FirstIsFirst
    <3> QED
      BY <1>19, <3>2
  <2>2. Alike(lines, lines)
    BY DEF Alike
  <2>3. ProgressDone(lines, k) = IF ProgressBoxes(lines, k) = {} THEN {}
                                 ELSE {lines[Min(ProgressBoxes(lines, k))].done}
    BY <2>2, SameProgress
  <2> QED
    BY <1>19, <2>1, <2>3
<1>22. lines[mine].done \in BOOLEAN
  <2>1. lines[mine] \in LinesOf(K, T)
    BY <1>20
  <2> QED
    BY <2>1 DEF LinesOf
<1>23. ParseTasks(lines)[k].done = (ProgressDone(lines, k) = {TRUE})
  <2>1. PICK upto : TaskRead(lines, ParseTasks(lines)[k], k, TaskHeadings(lines)[k], upto)
    BY <1>1, ParserReads DEF count
  <2>2. lines[TaskHeadings(lines)[k]].n = k
    BY <1>1 DEF count
  <2>3. ProgressDone(lines, k) # {}
    BY <1>21
  <2> QED
    BY <2>1, <2>2, <2>3 DEF TaskRead
<1> QED
  BY <1>20, <1>21, <1>22, <1>23
=============================================================================
