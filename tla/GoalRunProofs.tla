----------------------------- MODULE GoalRunProofs -----------------------------
(***************************************************************************)
(* Safety of goal runs, for every limit, every number of iterations,         *)
(* processes, faults and interruptions: what is in memory and on disk is a   *)
(* state of a goal, its history only grows, it ends for a reason, and no     *)
(* phase starts that is not next.                                            *)
(***************************************************************************)
EXTENDS GoalRun, FiniteSetTheorems, TLAPS

-----------------------------------------------------------------------------
(* States of a goal.                                                        *)
Phases == {"generate", "execute", "review"}

\* Every name that a goal run uses.
Words ==
    {"aborted", "appending", "begin", "blocked", "calling", "cancelled", "catch",
     "catching", "complete", "discover", "done", "down", "error", "execute", "failed",
     "fails", "generate", "goal_received", "head", "incomplete", "iteration_started",
     "judging", "lost", "max_iterations", "network_wait_excluded", "none", "ok", "over",
     "partial", "pending", "preparing", "publishing", "recovering", "rejected", "review",
     "reviewed", "reviewed_complete", "reviewed_incomplete",
     "reviewer_network_interrupted", "running", "saving", "settling", "start", "stop",
     "timeout", "todo_executed", "todo_generated"}

Statuses == {"running", "done", "blocked", "partial", "failed", "cancelled"}

States == [status : Statuses, phase : Words, min : Nat, max : Nat,
           iterations : Seq(Words), deadline : Int, iterationEnds : Int,
           trace : Seq(Words)]

Unfinished == {"none", "pending", "todo_generated", "todo_executed", "failed",
               "reviewed_incomplete"}

\* The events of a running goal are exactly those of its iterations: Consistent only
\* says that there are not too many, which one more record could change.
Tallied(s) ==
    LET n   == Len(s.iterations)
        now == Current(s)
    IN  /\ now = "none" <=> s.iterations = <<>>
        /\ s.status = "running" =>
              /\ now \in Unfinished
              /\ Events(s, "todo_generated") = IF now = "pending" THEN n - 1 ELSE n
              /\ Events(s, "todo_executed") =
                    IF now \in {"pending", "todo_generated"} THEN n - 1 ELSE n
              /\ Events(s, "reviewed") =
                    IF now \in {"none", "reviewed_incomplete"} THEN n ELSE n - 1

\* What StopEarned says of one state.
Earned(s) ==
    /\ Len(s.iterations) <= s.max
    /\ s.status = "done" =>
          /\ Len(s.iterations) >= s.min
          /\ Current(s) = "reviewed_complete"
          /\ Last(s.trace) = "reviewed"
    /\ Last(s.trace) = "max_iterations" => Len(s.iterations) = s.max

Good(s) == s \in States /\ Consistent(s) /\ Tallied(s) /\ Earned(s)

\* IsPrefix, place by place.
Starts(s, t) == Len(s) <= Len(t) /\ \A i \in 1..Len(s) : s[i] = t[i]

\* What SavedGrows says of two states.
Grows(a, b) ==
    /\ ~Terminal(a)
    /\ Len(a.trace) < Len(b.trace) /\ Starts(a.trace, b.trace)
    /\ Len(a.iterations) <= Len(b.iterations) + 1
    /\ \A i \in 1..Len(a.iterations) - 1 : a.iterations[i] = b.iterations[i]

\* A record about the network.
Keeps(a, b) ==
    /\ ~Terminal(a)
    /\ Len(a.trace) < Len(b.trace) /\ Starts(a.trace, b.trace)
    /\ a.iterations = b.iterations

-----------------------------------------------------------------------------
(* The process.                                                             *)
Writing == run.pc \in {"saving", "appending"}

\* Where the process is, or will be when what it writes is written.
Aim == IF Writing THEN run.then ELSE run.pc

Maybe == States \union {Nothing}

Runs == [pc : Words, task : Words, write : Maybe, due : Seq(Words),
         then : Words, outcome : Words, outage : Nat, retry : BOOLEAN]

Locals == [state : Maybe, base : Nat]

Strays == [pc : Words, write : Maybe, due : Seq(Words)]

TypeInv ==
    /\ clock \in Nat /\ aborted \in BOOLEAN
    /\ run \in Runs /\ local \in Locals /\ stray \in Strays
    /\ file \in Seq(Words)
    /\ \A s \in {state, saved, local.state, run.write, stray.write} :
          s = Nothing \/ Good(s)

\* A task, what it waits for, and what it may be writing meanwhile.
Places ==
    {<<"none", "down">>, <<"none", "rejected">>, <<"none", "catching">>,
     <<"none", "head">>, <<"none", "over">>, <<"start", "begin">>,
     <<"stop", "over">>, <<"catch", "over">>, <<"discover", "calling">>,
     <<"generate", "preparing">>, <<"generate", "calling">>,
     <<"generate", "judging">>, <<"generate", "publishing">>,
     <<"execute", "preparing">>, <<"execute", "calling">>,
     <<"execute", "publishing">>,
     <<"review", "preparing">>, <<"review", "calling">>,
     <<"review", "recovering">>, <<"review", "settling">>,
     <<"review", "publishing">>}

Written ==
    {<<"start", "begin">>, <<"stop", "over">>, <<"catch", "over">>,
     <<"generate", "preparing">>, <<"generate", "judging">>,
     <<"generate", "publishing">>, <<"execute", "publishing">>,
     <<"review", "recovering">>, <<"review", "settling">>,
     <<"review", "publishing">>}

ControlInv ==
    /\ <<run.task, Aim>> \in Places
    /\ Writing => <<run.task, Aim>> \in Written /\ run.write # Nothing
    /\ run.pc = "publishing" => run.write # Nothing
    /\ run.pc = "appending" \/ (Writing /\ Aim = "recovering") => run.due # <<>>
    /\ run.retry => run.task = "review" /\ Aim \in {"calling", "recovering"}
    /\ Writing \/ run.then = "none"

\* The variables of a phase exist as long as it, or a call that it abandoned.
LocalInv ==
    IF run.task \in Phases \/ stray # NoStray
    THEN local.state # Nothing /\ local.base <= Len(local.state.trace)
    ELSE local = NoLocal

\* Places before a phase has recorded its result.
Ahead == {"preparing", "calling", "judging", "recovering", "settling"}

\* What the phase has persisted, or does.
BaseInv ==
    /\ run.task \in Phases /\ run.pc \in Ahead \ {"settling"} =>
          local.base = Len(local.state.trace)
    /\ Writing /\ Aim = "recovering" => Len(local.state.trace) = local.base + 1

Expected(task) ==
    CASE task = "generate" -> {"pending"}
      [] task = "execute" -> {"todo_generated"}
      [] task = "review" -> Reviewable

\* Until a phase has recorded its result, its iteration waits for it.
PhaseInv ==
    run.task \in Phases /\ Aim \in Ahead =>
        ~Terminal(local.state) /\ Current(local.state) \in Expected(run.task)

\* A call is abandoned only on the way to the end of its goal.
StrayInv ==
    stray # NoStray =>
        /\ stray.pc \in {"calling", "saving", "appending"}
        /\ stray.pc = "saving" => stray.write # Nothing
        /\ stray.pc # "calling" => stray.due # <<>> /\ "stray" \in lapses
        /\ \/ /\ run.task = "review" /\ Aim \in {"settling", "publishing"}
              /\ run.outcome = "lost"
              /\ Aim = "publishing" => Terminal(run.write)
           \/ Aim \in {"catching", "rejected", "over"}
           \/ Aim = "head" /\ Terminal(state)

\* What is on disk, and where else it is.
SyncInv ==
    /\ saved = Nothing => \/ Aim \in {"down", "rejected"}
                          \/ run.pc = "saving" /\ run.task = "start"
    /\ Aim \notin {"down", "rejected"} => state # Nothing
    /\ run.task = "start" =>
          IF Writing THEN run.write = state ELSE saved = state
    /\ run.pc = "appending" /\ run.task = "start" => saved = state
    /\ run.task = "discover" => saved = state
    /\ Aim = "head" => saved = state \/ (Terminal(state) /\ "stray" \in lapses)
    /\ run.task \in Phases /\ Aim \in Ahead \ {"settling"} =>
          /\ Writing => run.write = local.state
          /\ run.pc # "saving" => saved = local.state
    /\ Aim = "settling" /\ "stray" \notin lapses =>
          /\ Writing => run.write = local.state
          /\ run.pc # "saving" => saved = local.state
    /\ Aim = "publishing" /\ run.pc # "saving" =>
          saved = run.write \/ (Terminal(run.write) /\ "stray" \in lapses)
    /\ Aim = "over" =>
          /\ Terminal(state)
          /\ Writing => run.write = state
          /\ run.pc # "saving" /\ "stray" \notin lapses /\ "unread" \notin lapses =>
                saved = state

\* What is being saved continues what is there.
GrowthInv ==
    run.pc = "saving" /\ saved # Nothing /\ lapses \subseteq {"gap"} =>
        \/ run.write = saved
        \/ IF Aim \in {"judging", "recovering", "settling"} THEN Keeps(saved, run.write)
           ELSE Grows(saved, run.write)

\* The trace on disk, as long as nothing went wrong with it.
FileInv ==
    lapses = {} =>
        /\ saved = Nothing => file = <<>>
        /\ saved # Nothing => Starts(file, saved.trace)
        /\ Writing => Starts(file, run.write.trace) /\ run.due = From(run.write, Len(file))
        /\ run.pc \notin {"saving", "appending", "down", "rejected"} => file = saved.trace
        /\ run.task \in Phases /\ (run.pc \in Ahead \/ Aim = "recovering") =>
              local.base = Len(file)

IInv == /\ TypeInv /\ ControlInv /\ LocalInv /\ BaseInv /\ PhaseInv /\ StrayInv
        /\ SyncInv /\ GrowthInv /\ FileInv

-----------------------------------------------------------------------------
(* Sequences.                                                               *)
LEMMA StartsIsPrefix ==
    ASSUME NEW s \in Seq(Words), NEW t \in Seq(Words)
    PROVE  /\ IsPrefix(s, t) <=> Starts(s, t)
           /\ IsStrictPrefix(s, t) <=> Starts(s, t) /\ Len(s) < Len(t)
<1>1. Len(s) \in Nat /\ Len(t) \in Nat
  OBVIOUS
<1>2. ASSUME Len(s) <= Len(t)
      PROVE  SubSeq(s, 1, Len(s)) = SubSeq(t, 1, Len(s))
                <=> \A i \in 1..Len(s) : s[i] = t[i]
  <2>1. /\ SubSeq(s, 1, Len(s)) = [i \in 1..Len(s) |-> s[i]]
        /\ SubSeq(t, 1, Len(s)) = [i \in 1..Len(s) |-> t[i]]
    BY <1>1, <1>2
  <2> QED
    BY <2>1
<1>3. IsPrefix(s, t) <=> Starts(s, t)
  BY <1>2 DEF IsPrefix, Starts
<1>4. Starts(s, t) => (s # t <=> Len(s) < Len(t))
  <2> SUFFICES ASSUME Starts(s, t) PROVE s # t <=> Len(s) < Len(t)
    OBVIOUS
  <2>1. Len(s) = Len(t) => s = t
    BY <1>1 DEF Starts
  <2> QED
    BY <1>1, <2>1 DEF Starts
<1> QED
  BY <1>3, <1>4 DEF IsStrictPrefix

\* One more event.
LEMMA EventsAppend ==
    ASSUME NEW s, s.trace \in Seq(Words), NEW e \in Words, NEW event,
           NEW u, u.trace = Append(s.trace, e)
    PROVE  /\ Events(s, event) \in Nat
           /\ Events(u, event) = Events(s, event) + (IF e = event THEN 1 ELSE 0)
<1> DEFINE t == s.trace
           n == Len(t)
           S == {i \in DOMAIN t : t[i] = event}
           U == {i \in DOMAIN Append(t, e) : Append(t, e)[i] = event}
<1>1. /\ n \in Nat /\ DOMAIN t = 1..n /\ DOMAIN Append(t, e) = 1..(n + 1)
      /\ \A i \in 1..n : Append(t, e)[i] = t[i]
      /\ Append(t, e)[n + 1] = e
  OBVIOUS
<1>2. IsFiniteSet(S) /\ n + 1 \notin S
  <2>1. S \subseteq 1..n /\ IsFiniteSet(1..n)
    BY <1>1, FS_Interval
  <2> QED
    BY <1>1, <2>1, FS_Subset
<1>3. U = IF e = event THEN S \union {n + 1} ELSE S
  BY <1>1
<1>4. Cardinality(S) \in Nat /\ Cardinality(U) = Cardinality(S) + (IF e = event THEN 1 ELSE 0)
  <2> HIDE DEF S, U, n
  <2>1. Cardinality(S) \in Nat
    BY <1>2, FS_CardinalityType
  <2>2. Cardinality(S \union {n + 1}) = Cardinality(S) + 1
    BY <1>2, FS_AddElement
  <2> QED
    BY <1>3, <2>1, <2>2
<1> QED
  BY <1>4 DEF Events

\* The last iteration is written over.
LEMMA WithCurrentFacts ==
    ASSUME NEW s, s.iterations \in Seq(Words), s.iterations # <<>>, NEW status \in Words
    PROVE  LET made == WithCurrent(s, status)
               n    == Len(s.iterations)
           IN  /\ made \in Seq(Words) /\ made # <<>> /\ n \in Nat \ {0}
               /\ Len(made) = n
               /\ made[n] = status
               /\ \A i \in 1..n - 1 : made[i] = s.iterations[i]
<1> DEFINE it == s.iterations
           n == Len(it)
           front == Front(it)
           made == Append(front, status)
<1>1. n \in Nat \ {0}
  OBVIOUS
<1>2. front = [i \in 1..n - 1 |-> it[i]]
  BY <1>1 DEF Front
<1>3. front \in Seq(Words) /\ Len(front) = n - 1 /\ \A i \in 1..n - 1 : front[i] = it[i]
  BY <1>1, <1>2
<1> HIDE DEF front
<1>4. /\ made \in Seq(Words) /\ made # <<>>
      /\ Len(made) = n
      /\ made[n] = status
      /\ \A i \in 1..n - 1 : made[i] = it[i]
  BY <1>1, <1>3
<1> QED
  BY <1>1, <1>4 DEF WithCurrent, front

\* The iteration under way, as a place in the list.
LEMMA CurrentIs ==
    ASSUME NEW s, s.iterations \in Seq(Words)
    PROVE  Current(s) = IF s.iterations = <<>> THEN "none" ELSE s.iterations[Len(s.iterations)]
BY DEF Current, Last

-----------------------------------------------------------------------------
(* One record.                                                              *)
LEMMA TraceAppend ==
    ASSUME NEW t \in Seq(Words), NEW e \in Words
    PROVE  LET u == Append(t, e)
           IN  /\ u \in Seq(Words)
               /\ Len(t) \in Nat /\ Len(u) = Len(t) + 1
               /\ u[Len(u)] = e
               /\ Starts(t, u)
<1> DEFINE u == Append(t, e)
<1>1. /\ u \in Seq(Words)
      /\ Len(t) \in Nat /\ Len(u) = Len(t) + 1
      /\ u[Len(t) + 1] = e
      /\ \A i \in 1..Len(t) : u[i] = t[i]
  OBVIOUS
<1> HIDE DEF u
<1>2. u[Len(u)] = e /\ Starts(t, u)
  BY <1>1 DEF Starts
<1> QED
  BY <1>1, <1>2 DEF u

\* The phase of each iteration that is under way.
LEMMA PhaseFacts ==
    /\ PhaseOf("none") = "goal_received" /\ PhaseOf("pending") = "goal_received"
    /\ PhaseOf("todo_generated") = "todo_generated"
    /\ PhaseOf("todo_executed") = "todo_executed" /\ PhaseOf("failed") = "todo_executed"
    /\ PhaseOf("reviewed_incomplete") = "reviewed"
BY DEF PhaseOf, Reviewable

\* The limits of a loop.
LEMMA LimitsFacts ==
    ASSUME NEW min \in Nat, NEW max \in Nat
    PROVE  LET limits == Limits(min, max)
           IN  /\ limits.min \in Nat /\ limits.max \in Nat
               /\ limits.min \in 1..limits.max
               /\ min \in 1..max => limits.min = min /\ limits.max = max
<1>1. DefaultMaxIterations \in Nat \ {0}
  BY GoalLoopAssumption
<1> QED
  BY <1>1 DEF Limits, DefaultMinIterations

LEMMA NoEvents ==
    ASSUME NEW s, NEW e, s.trace = <<e>>, NEW event, event # e
    PROVE  Events(s, event) = 0
<1>1. {i \in DOMAIN s.trace : s.trace[i] = event} = {}
  OBVIOUS
<1> QED
  BY <1>1, FS_EmptySet DEF Events

LEMMA GoodNew ==
    ASSUME NEW limits \in Inputs, NEW now \in Nat
    PROVE  Good(New(limits[1], limits[2], now))
<1> DEFINE s == New(limits[1], limits[2], now)
           bounds1 == Limits(limits[1], limits[2])
<1>1. /\ bounds1.min \in Nat /\ bounds1.max \in Nat
      /\ bounds1.min \in 1..bounds1.max
  <2>1. limits[1] \in Nat /\ limits[2] \in Nat
    BY GoalRunAssumption
  <2> QED
    BY <2>1, LimitsFacts
<1> HIDE DEF bounds1
<1>2. s = [status |-> "running", phase |-> "goal_received",
           min |-> bounds1.min, max |-> bounds1.max,
           iterations |-> <<>>, deadline |-> now + Timeout, iterationEnds |-> now,
           trace |-> <<"goal_received">>]
  BY DEF New, bounds1
<1> HIDE DEF s
<1>3. s \in States
  <2>1. Timeout \in Nat
    BY GoalLoopAssumption
  <2>2. <<"goal_received">> \in Seq(Words) /\ <<>> \in Seq(Words)
    <3>1. "goal_received" \in Words
      BY DEF Words
    <3> QED
      BY <3>1
  <2>3. s.phase \in Words
    BY <1>2 DEF Words
  <2> QED
    BY <1>1, <1>2, <2>1, <2>2, <2>3 DEF States, Statuses
<1>4. \A event \in {"iteration_started", "todo_generated", "todo_executed", "reviewed"} :
         Events(s, event) = 0
  BY <1>2, NoEvents
<1>5. Len(s.iterations) = 0 /\ Current(s) = "none" /\ Last(s.trace) = "goal_received"
  BY <1>2 DEF Current, Last
<1>6. Consistent(s)
  <2>1. s.min \in 1..s.max /\ s.iterations = <<>> /\ DOMAIN s.iterations = {}
    BY <1>1, <1>2
  <2>2. s.status = "running" /\ s.phase = PhaseOf(Current(s))
    BY <1>2, <1>5, PhaseFacts
  <2>3. Counted(s)
    BY <1>4, <1>5 DEF Counted
  <2>4. Agrees(s)
    BY <2>2 DEF Agrees
  <2> QED
    BY <2>1, <2>3, <2>4 DEF Consistent
<1>7. Tallied(s) /\ Earned(s)
  BY <1>1, <1>2, <1>4, <1>5 DEF Tallied, Earned, Unfinished
<1> QED
  BY <1>3, <1>6, <1>7 DEF Good, s

\* Normalising limits that were normalised changes nothing.
LEMMA LoadedSame == ASSUME NEW s, Good(s) PROVE Loaded(s) = s
<1>1. s \in States /\ s.min \in 1..s.max
  BY DEF Good, Consistent
<1>2. Limits(s.min, s.max).min = s.min /\ Limits(s.min, s.max).max = s.max
  BY <1>1, LimitsFacts DEF States
<1> QED
  BY <1>1, <1>2 DEF Loaded, States

\* A record changes status, phase, iterations and deadlines as it likes, and adds its event.
Rec(a, status, phase, items, deadline, ends, event) ==
    [a EXCEPT !.status = status, !.phase = phase, !.iterations = items,
              !.deadline = deadline, !.iterationEnds = ends,
              !.trace = Append(@, event)]

Records(a, b, status, phase, items, deadline, ends, event) ==
    /\ b \in States
    /\ b.status = status /\ b.phase = phase /\ b.iterations = items
    /\ b.deadline = deadline /\ b.iterationEnds = ends
    /\ b.min = a.min /\ b.max = a.max
    /\ b.trace = Append(a.trace, event)
    /\ Len(a.trace) < Len(b.trace) /\ Starts(a.trace, b.trace)
    /\ Last(b.trace) = event
    /\ \A e : /\ Events(a, e) \in Nat
              /\ Events(b, e) = Events(a, e) + (IF event = e THEN 1 ELSE 0)

LEMMA Recorded ==
    ASSUME NEW a, Good(a), ~Terminal(a),
           NEW status \in Statuses, NEW phase \in Words, NEW items \in Seq(Words),
           NEW deadline \in Int, NEW ends \in Int, NEW event \in Words,
           NEW b, b = Rec(a, status, phase, items, deadline, ends, event)
    PROVE  Records(a, b, status, phase, items, deadline, ends, event)
<1>1. a \in States /\ a.trace \in Seq(Words)
  BY DEF Good, States
<1>2. /\ b.status = status /\ b.phase = phase /\ b.iterations = items
      /\ b.deadline = deadline /\ b.iterationEnds = ends
      /\ b.min = a.min /\ b.max = a.max
      /\ b.trace = Append(a.trace, event)
  BY <1>1 DEF Rec, States
<1>3. /\ b.trace \in Seq(Words)
      /\ Len(a.trace) < Len(b.trace) /\ Starts(a.trace, b.trace)
      /\ Last(b.trace) = event
  BY <1>1, <1>2, TraceAppend DEF Last
<1>4. b \in States
  <2>1. PICK t \in Seq(Words) : t = Append(a.trace, event)
    BY <1>2, <1>3
  <2>2. b = [a EXCEPT !.status = status, !.phase = phase, !.iterations = items,
                      !.deadline = deadline, !.iterationEnds = ends, !.trace = t]
    BY <2>1 DEF Rec
  <2> QED
    BY <1>1, <2>2 DEF States
<1>5. \A e : /\ Events(a, e) \in Nat
             /\ Events(b, e) = Events(a, e) + (IF event = e THEN 1 ELSE 0)
  <2> TAKE e
  <2>1. a.trace \in Seq(Words) /\ b.trace = Append(a.trace, event)
    BY <1>1, <1>2
  <2> QED
    BY ONLY <2>1, event \in Words, EventsAppend
<1> QED
  BY <1>2, <1>3, <1>4, <1>5 DEF Records

\* What is known of a running goal.
LEMMA RunningFacts ==
    ASSUME NEW s, Good(s), ~Terminal(s)
    PROVE  LET n   == Len(s.iterations)
               now == Current(s)
           IN  /\ s \in States /\ s.status = "running"
               /\ n \in Nat /\ now \in Unfinished
               /\ s.phase = PhaseOf(now)
               /\ now = "none" => s.iterations = <<>> /\ n = 0
               /\ now # "none" => /\ s.iterations # <<>> /\ n > 0
                                  /\ s.iterations[n] = now
               /\ s.min \in 1..s.max /\ n <= s.max
               /\ \A i \in 1..n - 1 : s.iterations[i] = "reviewed_incomplete"
               /\ Events(s, "iteration_started") = n
               /\ Events(s, "todo_generated") = IF now = "pending" THEN n - 1 ELSE n
               /\ Events(s, "todo_executed") =
                     IF now \in {"pending", "todo_generated"} THEN n - 1 ELSE n
               /\ Events(s, "reviewed") =
                     IF now \in {"none", "reviewed_incomplete"} THEN n ELSE n - 1
<1> DEFINE n == Len(s.iterations)
<1>1. s \in States /\ s.status = "running" /\ s.iterations \in Seq(Words) /\ n \in Nat
  BY DEF Good, Terminal, States
<1>2. /\ s.min \in 1..s.max /\ n <= s.max
      /\ \A i \in 1..n - 1 : s.iterations[i] = "reviewed_incomplete"
      /\ Events(s, "iteration_started") = n
  BY <1>1 DEF Good, Consistent, Counted, Earned, States
<1>3. s.phase = PhaseOf(Current(s))
  BY <1>1 DEF Good, Consistent, Agrees
<1>4. s.iterations # <<>> => n > 0 /\ Current(s) = s.iterations[n]
  BY <1>1, CurrentIs
<1>5. s.iterations = <<>> => n = 0
  OBVIOUS
<1> QED
  BY <1>1, <1>2, <1>3, <1>4, <1>5 DEF Good, Tallied

LEMMA CurrentMade ==
    ASSUME NEW s, s.iterations \in Seq(Words), s.iterations # <<>>, NEW status \in Words,
           NEW b, b.iterations = WithCurrent(s, status)
    PROVE  Current(b) = status
<1> DEFINE made == WithCurrent(s, status)
           n == Len(s.iterations)
<1>1. made \in Seq(Words) /\ made # <<>> /\ Len(made) = n /\ made[n] = status
  BY WithCurrentFacts
<1>2. b.iterations = made
  OBVIOUS
<1> HIDE DEF made, n
<1>3. Current(b) = b.iterations[Len(b.iterations)]
  BY <1>1, <1>2, CurrentIs
<1> QED
  BY <1>1, <1>2, <1>3

\* The end of a goal: the iterations stay, or the one under way shares it.
LEMMA GoodEnd ==
    ASSUME NEW s, Good(s), ~Terminal(s), NEW b,
           NEW status \in Statuses \ {"running"}, NEW phase \in Words, NEW event \in Words,
           NEW items, \/ items = s.iterations
                      \/ \E x \in Words \ {"none"} : items = WithCurrent(s, x),
           b = Rec(s, status, phase, items, s.deadline, s.iterationEnds, event),
           event \notin {"iteration_started", "todo_generated", "todo_executed"},
           event = "reviewed" => Current(s) \in Reviewable,
           event = "max_iterations" => Len(s.iterations) = s.max,
           status = "done" => /\ event = "reviewed" /\ Len(s.iterations) >= s.min
                              /\ Current(b) = "reviewed_complete",
           Agrees(b)
    PROVE  Good(b) /\ Terminal(b) /\ Grows(s, b)
<1> DEFINE n == Len(s.iterations)
<1>1. /\ s \in States /\ s.iterations \in Seq(Words)
      /\ s.deadline \in Int /\ s.iterationEnds \in Int
  BY DEF Good, States
<1>2. /\ n \in Nat /\ Current(s) \in Unfinished
      /\ Current(s) = "none" <=> s.iterations = <<>>
      /\ s.min \in 1..s.max /\ n <= s.max
      /\ \A i \in 1..n - 1 : s.iterations[i] = "reviewed_incomplete"
      /\ Events(s, "iteration_started") = n
      /\ Events(s, "todo_generated") = IF Current(s) = "pending" THEN n - 1 ELSE n
      /\ Events(s, "todo_executed") =
            IF Current(s) \in {"pending", "todo_generated"} THEN n - 1 ELSE n
      /\ Events(s, "reviewed") =
            IF Current(s) \in {"none", "reviewed_incomplete"} THEN n ELSE n - 1
  BY RunningFacts
<1>3. /\ items \in Seq(Words) /\ Len(items) = n
      /\ \A i \in 1..n - 1 : items[i] = s.iterations[i]
      /\ items = <<>> <=> s.iterations = <<>>
      /\ items # <<>> => items[n] # "none"
  <2>1. CASE items = s.iterations
    <3>1. s.iterations # <<>> => Current(s) = s.iterations[n]
      BY <1>1, CurrentIs
    <3> QED
      BY <1>1, <1>2, <2>1, <3>1
  <2>2. CASE items # s.iterations
    <3>1. PICK x \in Words \ {"none"} : items = WithCurrent(s, x)
      BY <2>2
    <3>2. s.iterations # <<>>
      BY <2>2, <3>1 DEF WithCurrent
    <3>3. x \in Words /\ x # "none"
      OBVIOUS
    <3>4. /\ items \in Seq(Words) /\ items # <<>> /\ Len(items) = n
          /\ items[n] = x
          /\ \A i \in 1..n - 1 : items[i] = s.iterations[i]
      BY ONLY <1>1, <3>1, <3>2, <3>3, WithCurrentFacts
    <3> QED
      BY <3>2, <3>3, <3>4
  <2> QED
    BY <2>1, <2>2
<1>4. /\ b \in States
      /\ b.status = status /\ b.phase = phase /\ b.iterations = items
      /\ b.min = s.min /\ b.max = s.max
      /\ b.trace = Append(s.trace, event)
      /\ Len(s.trace) < Len(b.trace) /\ Starts(s.trace, b.trace)
      /\ Last(b.trace) = event
      /\ \A e : /\ Events(s, e) \in Nat
                /\ Events(b, e) = Events(s, e) + (IF event = e THEN 1 ELSE 0)
  <2>1. /\ Good(s) /\ ~Terminal(s) /\ status \in Statuses /\ phase \in Words
        /\ items \in Seq(Words) /\ event \in Words
        /\ s.deadline \in Int /\ s.iterationEnds \in Int
    BY <1>1, <1>3
  <2>2. b = Rec(s, status, phase, items, s.deadline, s.iterationEnds, event)
    OBVIOUS
  <2>3. Records(s, b, status, phase, items, s.deadline, s.iterationEnds, event)
    BY ONLY <2>1, <2>2, Recorded
  <2> QED
    BY <2>1, <2>3 DEF Records
<1>5. /\ Len(b.iterations) = n
      /\ \A i \in DOMAIN b.iterations :
            i < Len(b.iterations) => b.iterations[i] = "reviewed_incomplete"
      /\ Current(b) = "none" <=> b.iterations = <<>>
  <2>1. DOMAIN items = 1..n
    BY <1>3
  <2>2. Current(b) = IF items = <<>> THEN "none" ELSE items[n]
    BY <1>3, <1>4, CurrentIs
  <2> QED
    BY <1>2, <1>3, <1>4, <2>1, <2>2
<1>6. Counted(b)
  <2>1. /\ Events(b, "iteration_started") = n
        /\ Events(b, "todo_generated") = Events(s, "todo_generated")
        /\ Events(b, "todo_executed") = Events(s, "todo_executed")
        /\ Events(b, "reviewed")
              = Events(s, "reviewed") + (IF event = "reviewed" THEN 1 ELSE 0)
    BY <1>2, <1>4
  <2> QED
    BY <1>2, <1>5, <2>1 DEF Counted, Reviewable, Unfinished
<1>7. Consistent(b)
  BY <1>2, <1>4, <1>5, <1>6 DEF Consistent
<1>8. Tallied(b) /\ Terminal(b)
  BY <1>4, <1>5 DEF Tallied, Terminal
<1>9. Earned(b)
  BY <1>2, <1>4, <1>5 DEF Earned
<1>10. Grows(s, b)
  BY <1>2, <1>3, <1>4 DEF Grows
<1> QED
  BY <1>4, <1>7, <1>8, <1>9, <1>10 DEF Good

\* The goal goes on.
LEMMA GoodOn ==
    ASSUME NEW s, Good(s), ~Terminal(s), NEW phase \in Words, NEW items \in Seq(Words),
           NEW deadline \in Int, NEW ends \in Int, NEW event \in Words,
           NEW b, b = Rec(s, s.status, phase, items, deadline, ends, event),
           event # "max_iterations",
           Len(items) <= s.max,
           \A i \in 1..Len(items) - 1 : items[i] = "reviewed_incomplete",
           phase = PhaseOf(Current(b)),
           Len(items) = Events(b, "iteration_started"),
           Tallied(b)
    PROVE  Good(b) /\ ~Terminal(b)
<1> DEFINE n == Len(items)
<1>1. s \in States /\ s.status = "running" /\ s.min \in 1..s.max
  BY RunningFacts
<1>2. /\ b \in States
      /\ b.status = "running" /\ b.phase = phase /\ b.iterations = items
      /\ b.min = s.min /\ b.max = s.max
      /\ Last(b.trace) = event
      /\ \A e : Events(b, e) \in Nat
  <2>1. s.status \in Statuses
    BY <1>1 DEF Statuses
  <2>2. Good(s) /\ ~Terminal(s) /\ phase \in Words /\ items \in Seq(Words)
        /\ deadline \in Int /\ ends \in Int /\ event \in Words
        /\ b = Rec(s, s.status, phase, items, deadline, ends, event)
    OBVIOUS
  <2>3. Records(s, b, s.status, phase, items, deadline, ends, event)
    BY ONLY <2>1, <2>2, Recorded
  <2>4. /\ b \in States
        /\ b.status = "running" /\ b.phase = phase /\ b.iterations = items
        /\ b.min = s.min /\ b.max = s.max
        /\ Last(b.trace) = event
    BY <1>1, <2>3 DEF Records
  <2>5. ASSUME NEW e PROVE Events(b, e) \in Nat
    <3>1. /\ Events(s, e) \in Nat
          /\ Events(b, e) = Events(s, e) + (IF event = e THEN 1 ELSE 0)
      BY <2>3 DEF Records
    <3> QED
      BY ONLY <3>1
  <2> QED
    BY <2>4, <2>5
<1>3. /\ n \in Nat /\ DOMAIN items = 1..n
      /\ Current(b) \in Unfinished
      /\ Events(b, "todo_generated") = IF Current(b) = "pending" THEN n - 1 ELSE n
      /\ Events(b, "todo_executed") =
            IF Current(b) \in {"pending", "todo_generated"} THEN n - 1 ELSE n
      /\ Events(b, "reviewed") =
            IF Current(b) \in {"none", "reviewed_incomplete"} THEN n ELSE n - 1
  <2>1. n \in Nat /\ DOMAIN items = 1..n
    BY ONLY items \in Seq(Words)
  <2>2. Tallied(b)
    OBVIOUS
  <2> QED
    BY ONLY <1>2, <2>1, <2>2 DEF Tallied
<1>4. Counted(b)
  BY <1>2, <1>3 DEF Counted
<1>5. Agrees(b)
  BY <1>2 DEF Agrees
<1>6. Consistent(b)
  BY <1>1, <1>2, <1>3, <1>4, <1>5 DEF Consistent
<1>7. Earned(b)
  BY <1>1, <1>2, <1>3 DEF Earned
<1> QED
  BY <1>2, <1>6, <1>7 DEF Good, Terminal

\* ... with a change of the iteration that is under way.
LEMMA GoodItem ==
    ASSUME NEW s, Good(s), ~Terminal(s), NEW phase, NEW item, NEW event,
           NEW b, b = Traced([s EXCEPT !.iterations = WithCurrent(s, item)], phase, event),
           \/ /\ Current(s) = "pending" /\ item = "todo_generated"
              /\ phase = "todo_generated" /\ event = "todo_generated"
           \/ /\ Current(s) = "todo_generated" /\ item \in Reviewable
              /\ phase = "todo_executed" /\ event = "todo_executed"
           \/ /\ Current(s) \in Reviewable /\ item = "reviewed_incomplete"
              /\ phase = "reviewed" /\ event = "reviewed"
    PROVE  Good(b) /\ ~Terminal(b) /\ Grows(s, b) /\ Current(b) = item
<1> DEFINE items == WithCurrent(s, item)
           n == Len(s.iterations)
<1>1. /\ s \in States /\ s.iterations \in Seq(Words)
      /\ s.status = "running" /\ s.status \in Statuses
      /\ s.deadline \in Int /\ s.iterationEnds \in Int
  BY RunningFacts DEF States
<1>2. /\ n \in Nat /\ n > 0 /\ s.iterations # <<>>
      /\ s.min \in 1..s.max /\ n <= s.max
      /\ \A i \in 1..n - 1 : s.iterations[i] = "reviewed_incomplete"
      /\ Events(s, "iteration_started") = n
      /\ Events(s, "todo_generated") = IF Current(s) = "pending" THEN n - 1 ELSE n
      /\ Events(s, "todo_executed") =
            IF Current(s) \in {"pending", "todo_generated"} THEN n - 1 ELSE n
      /\ Events(s, "reviewed") =
            IF Current(s) \in {"none", "reviewed_incomplete"} THEN n ELSE n - 1
  BY RunningFacts DEF Reviewable
<1>3. item \in Words /\ phase \in Words /\ event \in Words /\ phase = PhaseOf(item)
  BY PhaseFacts DEF Words, Reviewable
<1>4. /\ items \in Seq(Words) /\ items # <<>> /\ Len(items) = n
      /\ items[n] = item
      /\ \A i \in 1..n - 1 : items[i] = s.iterations[i]
  BY ONLY <1>1, <1>2, <1>3, WithCurrentFacts
<1> HIDE DEF items
<1>5. b = Rec(s, s.status, phase, items, s.deadline, s.iterationEnds, event)
  <2>1. b = Traced([s EXCEPT !.iterations = items], phase, event)
    BY DEF items
  <2> QED
    BY ONLY <1>1, <1>4, <2>1 DEF Traced, Rec, States
<1>6. /\ b \in States /\ b.status = s.status /\ b.iterations = items
      /\ b.min = s.min /\ b.max = s.max
      /\ Len(s.trace) < Len(b.trace) /\ Starts(s.trace, b.trace)
      /\ \A e : /\ Events(s, e) \in Nat
                /\ Events(b, e) = Events(s, e) + (IF event = e THEN 1 ELSE 0)
  <2>1. Good(s) /\ ~Terminal(s)
    OBVIOUS
  <2>2. Records(s, b, s.status, phase, items, s.deadline, s.iterationEnds, event)
    BY ONLY <1>1, <1>3, <1>4, <1>5, <2>1, Recorded
  <2> QED
    BY <2>2 DEF Records
<1>7. Current(b) = item
  BY <1>4, <1>6, CurrentIs
<1>8. Tallied(b) /\ Len(items) = Events(b, "iteration_started")
  <2>1. /\ Events(b, "iteration_started") = n
        /\ event = "reviewed" => Events(b, "reviewed") = n
    BY <1>2, <1>6 DEF Reviewable
  <2>2. CASE item = "todo_generated"
    <3>1. /\ Current(s) = "pending" /\ event = "todo_generated"
      BY <2>2 DEF Reviewable
    <3>2. /\ Events(b, "todo_generated") = n /\ Events(b, "todo_executed") = n - 1
          /\ Events(b, "reviewed") = n - 1
      BY <1>2, <1>6, <3>1
    <3> QED
      BY <1>1, <1>4, <1>6, <1>7, <2>1, <2>2, <3>2 DEF Tallied, Unfinished
  <2>3. CASE item \in Reviewable
    <3>1. /\ Current(s) = "todo_generated" /\ event = "todo_executed"
      BY <2>3 DEF Reviewable
    <3>2. /\ Events(b, "todo_generated") = n /\ Events(b, "todo_executed") = n
          /\ Events(b, "reviewed") = n - 1
      BY <1>2, <1>6, <3>1
    <3> QED
      BY <1>1, <1>4, <1>6, <1>7, <2>1, <2>3, <3>2 DEF Tallied, Unfinished, Reviewable
  <2>4. CASE item = "reviewed_incomplete"
    <3>1. /\ Current(s) \in Reviewable /\ event = "reviewed"
      BY <2>4 DEF Reviewable
    <3>2. /\ Events(b, "todo_generated") = n /\ Events(b, "todo_executed") = n
          /\ Events(b, "reviewed") = n
      <4>1. /\ Current(s) \notin {"pending", "todo_generated", "none", "reviewed_incomplete"}
        BY <3>1 DEF Reviewable
      <4>2. /\ Events(s, "todo_generated") = n /\ Events(s, "todo_executed") = n
            /\ Events(s, "reviewed") = n - 1
        BY ONLY <1>2, <4>1
      <4> QED
        BY ONLY <1>2, <1>6, <3>1, <4>2
    <3> QED
      BY <1>1, <1>4, <1>6, <1>7, <2>1, <2>4, <3>2 DEF Tallied, Unfinished
  <2> QED
    BY <2>2, <2>3, <2>4
<1>9. Good(b) /\ ~Terminal(b)
  <2>1. /\ Good(s) /\ ~Terminal(s)
        /\ event # "max_iterations"
        /\ Len(items) <= s.max
        /\ \A i \in 1..Len(items) - 1 : items[i] = "reviewed_incomplete"
        /\ phase = PhaseOf(Current(b))
    BY <1>2, <1>3, <1>4, <1>7
  <2> QED
    BY ONLY <1>1, <1>3, <1>4, <1>5, <1>8, <2>1, GoodOn
<1>10. Grows(s, b)
  <2>1. Len(s.iterations) <= Len(b.iterations) + 1
    BY ONLY <1>2, <1>4, <1>6
  <2>2. \A i \in 1..Len(s.iterations) - 1 : s.iterations[i] = b.iterations[i]
    BY ONLY <1>4, <1>6
  <2> QED
    BY <1>6, <2>1, <2>2 DEF Grows
<1> QED
  BY <1>7, <1>9, <1>10

\* ... with a record about the network.
LEMMA GoodKeeps ==
    ASSUME NEW s, Good(s), ~Terminal(s), NEW deadline \in Int, NEW ends \in Int,
           NEW event \in Words,
           event \notin {"iteration_started", "todo_generated", "todo_executed", "reviewed",
                         "max_iterations"},
           NEW b, b = Rec(s, s.status, s.phase, s.iterations, deadline, ends, event)
    PROVE  Good(b) /\ ~Terminal(b) /\ Keeps(s, b)
<1> DEFINE n == Len(s.iterations)
<1>1. /\ s \in States /\ s.iterations \in Seq(Words) /\ s.phase \in Words
      /\ s.status = "running" /\ s.status \in Statuses /\ event \in Words
      /\ s.trace \in Seq(Words)
  BY RunningFacts DEF States, Words
<1>2. /\ n \in Nat /\ n <= s.max
      /\ s.phase = PhaseOf(Current(s))
      /\ \A i \in 1..n - 1 : s.iterations[i] = "reviewed_incomplete"
      /\ Events(s, "iteration_started") = n
  BY RunningFacts
<1>3. /\ b \in States /\ b.status = s.status /\ b.iterations = s.iterations
      /\ b.trace = Append(s.trace, event)
      /\ Len(s.trace) < Len(b.trace) /\ Starts(s.trace, b.trace)
      /\ \A e : /\ Events(s, e) \in Nat
                /\ Events(b, e) = Events(s, e) + (IF event = e THEN 1 ELSE 0)
  <2>1. /\ Good(s) /\ ~Terminal(s) /\ deadline \in Int /\ ends \in Int
        /\ b = Rec(s, s.status, s.phase, s.iterations, deadline, ends, event)
    OBVIOUS
  <2>2. Records(s, b, s.status, s.phase, s.iterations, deadline, ends, event)
    BY ONLY <1>1, <2>1, Recorded
  <2> QED
    BY <2>2 DEF Records
<1>4. Current(b) = Current(s)
  BY <1>3 DEF Current
<1>5. Tallied(b) /\ Len(s.iterations) = Events(b, "iteration_started")
  <2>1. Tallied(s)
    BY DEF Good
  <2>2. \A e \in {"iteration_started", "todo_generated", "todo_executed", "reviewed"} :
           Events(b, e) = Events(s, e)
    BY <1>3
  <2> QED
    BY <1>1, <1>2, <1>3, <1>4, <2>1, <2>2 DEF Tallied
<1>6. Good(b) /\ ~Terminal(b)
  <2>1. /\ Good(s) /\ ~Terminal(s) /\ deadline \in Int /\ ends \in Int
        /\ b = Rec(s, s.status, s.phase, s.iterations, deadline, ends, event)
        /\ event # "max_iterations"
        /\ s.phase = PhaseOf(Current(b))
    BY <1>2, <1>4
  <2> QED
    BY ONLY <1>1, <1>2, <1>5, <2>1, GoodOn
<1>7. Keeps(s, b)
  BY <1>3 DEF Keeps
<1> QED
  BY <1>6, <1>7

-----------------------------------------------------------------------------
(* The functions of goal_loop.ts.                                           *)
LEMMA CancelEnds ==
    ASSUME NEW s, Good(s), ~Terminal(s)
    PROVE  Good(Cancel(s)) /\ Terminal(Cancel(s)) /\ Grows(s, Cancel(s))
<1> DEFINE items == IF Settled(Current(s)) THEN s.iterations ELSE WithCurrent(s, "cancelled")
           b == Cancel(s)
<1>1. s \in States /\ s.iterations \in Seq(Words) /\ Current(s) \in Unfinished
  BY RunningFacts DEF States
<1>2. "cancelled" \in Words /\ "cancelled" \in Statuses \ {"running"}
  BY DEF Words, Statuses
<1>3. items \in Seq(Words) /\ (\/ items = s.iterations
                               \/ \E x \in Words \ {"none"} : items = WithCurrent(s, x))
  <2>1. WithCurrent(s, "cancelled") \in Seq(Words)
    <3>1. CASE s.iterations = <<>>
      BY <1>1, <3>1 DEF WithCurrent
    <3>2. CASE s.iterations # <<>>
      BY ONLY <1>1, <1>2, <3>2, WithCurrentFacts
    <3> QED
      BY <3>1, <3>2
  <2> QED
    BY <1>1, <1>2, <2>1
<1>4. b = Rec(s, "cancelled", "cancelled", items, s.deadline, s.iterationEnds, "cancelled")
  BY <1>1, <1>3 DEF Cancel, Closed, Ended, Traced, Rec, States
<1>5. b.iterations = items /\ b.status = "cancelled" /\ b.phase = "cancelled"
  BY <1>1, <1>4 DEF Rec, States
<1>6. Settled(Current(b)) \/ Current(b) = "none"
  <2>1. CASE Settled(Current(s))
    BY <1>5, <2>1 DEF Current
  <2>2. CASE ~Settled(Current(s)) /\ s.iterations = <<>>
    BY <1>5, <2>2 DEF Current, WithCurrent
  <2>3. CASE ~Settled(Current(s)) /\ s.iterations # <<>>
    <3>1. b.iterations = WithCurrent(s, "cancelled")
      BY <1>5, <2>3
    <3>2. Current(b) = "cancelled"
      BY ONLY <1>1, <1>2, <2>3, <3>1, CurrentMade
    <3> QED
      BY <3>2 DEF Settled
  <2> QED
    BY <2>1, <2>2, <2>3
<1>7. Agrees(b)
  BY <1>5, <1>6 DEF Agrees
<1> HIDE DEF items, b
<1>8. Good(s) /\ ~Terminal(s)
  OBVIOUS
<1>9. Good(b) /\ Terminal(b) /\ Grows(s, b)
  BY ONLY <1>2, <1>3, <1>4, <1>7, <1>8, GoodEnd
<1> QED
  BY <1>9 DEF b

LEMMA FailEnds ==
    ASSUME NEW s, Good(s), ~Terminal(s), NEW status \in {"failed", "partial"}
    PROVE  LET b == Fail(s, status)
           IN  Good(b) /\ Terminal(b) /\ Grows(s, b)
<1> DEFINE items == IF Settled(Current(s)) THEN s.iterations ELSE WithCurrent(s, "failed")
           phase == IF status = "partial" THEN "complete" ELSE "failed"
           event == IF status = "partial" THEN "timeout" ELSE "failed"
           b == Fail(s, status)
<1>1. s \in States /\ s.iterations \in Seq(Words) /\ Current(s) \in Unfinished
  BY RunningFacts DEF States
<1>2. /\ "failed" \in Words /\ status \in Statuses \ {"running"}
      /\ phase \in Words /\ event \in Words
  BY DEF Words, Statuses
<1>3. items \in Seq(Words) /\ (\/ items = s.iterations
                               \/ \E x \in Words \ {"none"} : items = WithCurrent(s, x))
  <2>1. WithCurrent(s, "failed") \in Seq(Words)
    <3>1. CASE s.iterations = <<>>
      BY <1>1, <3>1 DEF WithCurrent
    <3>2. CASE s.iterations # <<>>
      BY ONLY <1>1, <1>2, <3>2, WithCurrentFacts
    <3> QED
      BY <3>1, <3>2
  <2> QED
    BY <1>1, <1>2, <2>1
<1>4. b = Rec(s, status, phase, items, s.deadline, s.iterationEnds, event)
  BY <1>1, <1>3 DEF Fail, Closed, Ended, Traced, Rec, States
<1>5. b.iterations = items /\ b.status = status /\ b.phase = phase
  BY <1>1, <1>4 DEF Rec, States
<1>6. Current(b) # "reviewed_complete"
  <2>1. CASE items = s.iterations
    BY <1>1, <1>5, <2>1 DEF Current, Unfinished
  <2>2. CASE s.iterations = <<>>
    BY <1>5, <2>2 DEF Current, WithCurrent
  <2>3. CASE items # s.iterations /\ s.iterations # <<>>
    <3>1. b.iterations = WithCurrent(s, "failed")
      BY <1>5, <2>3
    <3>2. Current(b) = "failed"
      BY ONLY <1>1, <1>2, <2>3, <3>1, CurrentMade
    <3> QED
      BY <3>2
  <2> QED
    BY <2>1, <2>2, <2>3
<1>7. Agrees(b)
  BY <1>5, <1>6 DEF Agrees
<1>8. /\ Good(s) /\ ~Terminal(s) /\ status # "done"
      /\ event \notin {"iteration_started", "todo_generated", "todo_executed", "reviewed",
                       "max_iterations"}
  OBVIOUS
<1> HIDE DEF items, b, phase, event
<1>9. Good(b) /\ Terminal(b) /\ Grows(s, b)
  BY ONLY <1>2, <1>3, <1>4, <1>7, <1>8, GoodEnd
<1> QED
  BY <1>9 DEF b

\* The loop stops for a reason of its own.
LEMMA StopEnds ==
    ASSUME NEW s, Good(s), ~Terminal(s), NEW now, NEW ab \in BOOLEAN,
           StopReason(s, now, ab) # "none"
    PROVE  LET b == StartIteration(s, now, ab)
           IN  Good(b) /\ Terminal(b) /\ Grows(s, b)
<1> DEFINE reason == StopReason(s, now, ab)
           b == StartIteration(s, now, ab)
<1>1. reason \in {"cancelled", "timeout", "max_iterations"}
  BY DEF StopReason
<1>2. CASE reason = "cancelled"
  <2>1. b = Cancel(s)
    BY <1>2 DEF StartIteration, StopFor
  <2> QED
    BY <2>1, CancelEnds
<1>3. CASE reason \in {"timeout", "max_iterations"}
  <2> DEFINE status == IF reason = "timeout" THEN "partial" ELSE "failed"
             phase == IF reason = "timeout" THEN "complete" ELSE "failed"
  <2>1. /\ s \in States /\ s.status = "running" /\ Current(s) \in Unfinished
        /\ s.iterations \in Seq(Words) /\ Len(s.iterations) <= s.max
    BY RunningFacts DEF States
  <2>2. b = Ended(s, status, phase, reason)
    BY <1>3 DEF StartIteration, StopFor
  <2>3. b = Rec(s, status, phase, s.iterations, s.deadline, s.iterationEnds, reason)
    BY <2>1, <2>2 DEF Ended, Traced, Rec, States
  <2>4. /\ status \in Statuses \ {"running"} /\ phase \in Words /\ reason \in Words
        /\ status # "done"
    BY <1>3 DEF Statuses, Words
  <2>5. reason = "max_iterations" => Len(s.iterations) = s.max
    <3>1. reason = "max_iterations" => Len(s.iterations) >= s.max
      BY DEF StopReason
    <3>2. s.max \in Nat /\ Len(s.iterations) \in Nat
      BY <2>1 DEF States
    <3> QED
      BY <2>1, <3>1, <3>2
  <2>6. Agrees(b)
    <3>1. b.status = status /\ b.phase = phase /\ b.iterations = s.iterations
      BY <2>1, <2>3 DEF Rec, States
    <3>2. Current(b) # "reviewed_complete"
      BY <2>1, <3>1 DEF Current, Unfinished
    <3> QED
      BY <3>1, <3>2 DEF Agrees
  <2>7. /\ Good(s) /\ ~Terminal(s)
        /\ reason \notin {"iteration_started", "todo_generated", "todo_executed", "reviewed"}
    BY <1>3
  <2> HIDE DEF status, phase, reason, b
  <2>8. Good(b) /\ Terminal(b) /\ Grows(s, b)
    BY ONLY <2>3, <2>4, <2>5, <2>6, <2>7, GoodEnd
  <2> QED
    BY <2>8 DEF b
<1> QED
  BY <1>1, <1>2, <1>3

\* ... or starts its next iteration.
LEMMA IterationStarts ==
    ASSUME NEW s, Good(s), NEW now \in Nat, NEW ab \in BOOLEAN,
           StopReason(s, now, ab) = "none", Current(s) \in {"none", "reviewed_incomplete"}
    PROVE  LET b == StartIteration(s, now, ab)
           IN  Good(b) /\ ~Terminal(b) /\ Grows(s, b) /\ Current(b) = "pending"
<1> DEFINE n == Len(s.iterations)
           items == Append(s.iterations, "pending")
           ends == now + IterationTimeout
           b == StartIteration(s, now, ab)
<1>1. ~Terminal(s) /\ (s.phase = "reviewed" => ~(n >= s.max))
  BY DEF StopReason
<1>2. /\ s \in States /\ s.status = "running" /\ s.status \in Statuses
      /\ s.iterations \in Seq(Words) /\ n \in Nat /\ s.max \in Nat
      /\ s.deadline \in Int /\ ends \in Int
  BY <1>1, RunningFacts, GoalLoopAssumption DEF States
<1>3. /\ s.phase = PhaseOf(Current(s))
      /\ Current(s) = "none" => n = 0
      /\ Current(s) # "none" => n > 0 /\ s.iterations[n] = Current(s)
      /\ s.min \in 1..s.max
      /\ \A i \in 1..n - 1 : s.iterations[i] = "reviewed_incomplete"
      /\ Events(s, "iteration_started") = n
      /\ Events(s, "todo_generated") = n
      /\ Events(s, "todo_executed") = n
      /\ Events(s, "reviewed") = n
  BY <1>1, RunningFacts
<1>4. n + 1 <= s.max
  BY <1>1, <1>2, <1>3, PhaseFacts
<1>5. /\ "pending" \in Words /\ "goal_received" \in Words /\ "iteration_started" \in Words
  BY DEF Words
<1>6. /\ items \in Seq(Words) /\ items # <<>> /\ Len(items) = n + 1
      /\ items[n + 1] = "pending"
      /\ \A i \in 1..n : items[i] = s.iterations[i]
  BY <1>2, <1>5
<1>7. \A i \in 1..n : items[i] = "reviewed_incomplete"
  <2> SUFFICES ASSUME NEW i \in 1..n PROVE s.iterations[i] = "reviewed_incomplete"
    BY <1>6
  <2> QED
    BY <1>2, <1>3
<1> HIDE DEF items, ends
<1>8. b = Rec(s, s.status, "goal_received", items, s.deadline, ends, "iteration_started")
  BY <1>2, <1>6 DEF StartIteration, Traced, Rec, States, items, ends
<1>9. /\ b \in States /\ b.status = s.status /\ b.iterations = items
      /\ Len(s.trace) < Len(b.trace) /\ Starts(s.trace, b.trace)
      /\ \A e : /\ Events(s, e) \in Nat
                /\ Events(b, e) = Events(s, e) + (IF "iteration_started" = e THEN 1 ELSE 0)
  <2>1. Good(s)
    OBVIOUS
  <2>2. Records(s, b, s.status, "goal_received", items, s.deadline, ends, "iteration_started")
    BY ONLY <1>1, <1>2, <1>5, <1>6, <1>8, <2>1, Recorded
  <2> QED
    BY <2>2 DEF Records
<1>10. Current(b) = "pending"
  BY <1>6, <1>9, CurrentIs
<1>11. Tallied(b) /\ Len(items) = Events(b, "iteration_started")
  <2>1. /\ Events(b, "iteration_started") = n + 1
        /\ Events(b, "todo_generated") = n
        /\ Events(b, "todo_executed") = n
        /\ Events(b, "reviewed") = n
    BY <1>2, <1>3, <1>9
  <2> QED
    BY <1>2, <1>6, <1>9, <1>10, <2>1 DEF Tallied, Unfinished
<1>12. Good(b) /\ ~Terminal(b)
  <2>1. /\ Good(s) /\ "iteration_started" # "max_iterations"
        /\ Len(items) <= s.max
        /\ \A i \in 1..Len(items) - 1 : items[i] = "reviewed_incomplete"
    BY <1>2, <1>4, <1>6, <1>7
  <2>2. "goal_received" = PhaseOf(Current(b))
    BY <1>10, PhaseFacts
  <2> HIDE DEF b
  <2> QED
    BY ONLY <1>1, <1>2, <1>5, <1>6, <1>8, <1>11, <2>1, <2>2, GoodOn
<1>13. Grows(s, b)
  <2>1. \A i \in 1..n - 1 : s.iterations[i] = b.iterations[i]
    BY <1>2, <1>6, <1>9
  <2> HIDE DEF b
  <2> QED
    BY <1>1, <1>2, <1>6, <1>9, <2>1 DEF Grows
<1> HIDE DEF b
<1> QED
  BY <1>10, <1>12, <1>13 DEF b

LEMMA GeneratedGood ==
    ASSUME NEW s, Good(s), Updatable(s, {"pending"})
    PROVE  LET b == GeneratedTodo(s)
           IN  Good(b) /\ ~Terminal(b) /\ Grows(s, b) /\ Current(b) = "todo_generated"
<1>1. ~Terminal(s) /\ Current(s) = "pending"
  BY DEF Updatable
<1>2. GeneratedTodo(s) = Traced([s EXCEPT !.iterations = WithCurrent(s, "todo_generated")],
                                "todo_generated", "todo_generated")
  BY DEF GeneratedTodo
<1> QED
  BY <1>1, <1>2, GoodItem

LEMMA WorkerGood ==
    ASSUME NEW s, Good(s), Updatable(s, {"todo_generated"}), NEW outcome
    PROVE  LET b == WorkerResult(s, outcome)
           IN  Good(b) /\ ~Terminal(b) /\ Grows(s, b) /\ Current(b) \in Reviewable
<1> DEFINE item == IF outcome = "failed" THEN "failed" ELSE "todo_executed"
<1>1. ~Terminal(s) /\ Current(s) = "todo_generated"
  BY DEF Updatable
<1>2. WorkerResult(s, outcome) = Traced([s EXCEPT !.iterations = WithCurrent(s, item)],
                                        "todo_executed", "todo_executed")
  BY DEF WorkerResult
<1>3. item \in Reviewable
  BY DEF Reviewable
<1> HIDE DEF item
<1> QED
  BY <1>1, <1>2, <1>3, GoodItem

\* A verdict: only "incomplete" lets the goal go on.
LEMMA VerdictGood ==
    ASSUME NEW s, Good(s), Updatable(s, Reviewable),
           NEW decision \in {"complete", "incomplete", "blocked", "failed"},
           decision = "complete" => Len(s.iterations) >= s.min
    PROVE  LET b == ReviewerResult(s, decision)
           IN  Good(b) /\ Grows(s, b)
<1> DEFINE b == ReviewerResult(s, decision)
<1>1. ~Terminal(s) /\ Current(s) \in Reviewable
  BY DEF Updatable
<1>2. /\ s \in States /\ s.iterations \in Seq(Words) /\ s.iterations # <<>>
      /\ s.deadline \in Int /\ s.iterationEnds \in Int
  BY <1>1, RunningFacts DEF States, Reviewable
<1>3. CASE decision = "incomplete"
  <2>1. b = Traced([s EXCEPT !.iterations = WithCurrent(s, "reviewed_incomplete")],
                   "reviewed", "reviewed")
    BY <1>3 DEF ReviewerResult
  <2> HIDE DEF b
  <2>2. Good(b) /\ Grows(s, b)
    BY <1>1, <2>1, GoodItem
  <2> QED
    BY <2>2 DEF b
<1>4. CASE decision # "incomplete"
  <2> DEFINE item == IF decision = "complete" THEN "reviewed_complete" ELSE decision
             status == IF decision = "complete" THEN "done" ELSE decision
             items == WithCurrent(s, item)
  <2>1. item \in Words /\ item # "none" /\ status \in Statuses \ {"running"}
        /\ "complete" \in Words /\ "reviewed" \in Words
    BY <1>4 DEF Words, Statuses
  <2>2. items \in Seq(Words)
    BY ONLY <1>2, <2>1, WithCurrentFacts
  <2>3. b = Ended([s EXCEPT !.iterations = items], status, "complete", "reviewed")
    BY <1>4 DEF ReviewerResult
  <2> HIDE DEF items
  <2>4. b = Rec(s, status, "complete", items, s.deadline, s.iterationEnds, "reviewed")
    BY ONLY <1>2, <2>2, <2>3 DEF Ended, Traced, Rec, States
  <2>5. b.iterations = items /\ b.status = status /\ b.phase = "complete"
    BY <1>2, <2>4 DEF Rec, States
  <2>6. Current(b) = item
    <3>1. b.iterations = WithCurrent(s, item)
      BY <2>5 DEF items
    <3> QED
      BY ONLY <1>2, <2>1, <3>1, CurrentMade
  <2>7. Agrees(b)
    BY <1>4, <2>5, <2>6 DEF Agrees
  <2>8. /\ Good(s) /\ status = "done" => Len(s.iterations) >= s.min /\ item = "reviewed_complete"
        /\ items = s.iterations \/ \E x \in Words \ {"none"} : items = WithCurrent(s, x)
    BY <1>4, <2>1 DEF items
  <2> HIDE DEF item, status, b
  <2>9. Good(b) /\ Grows(s, b)
    <3>1. status = "done" => Current(b) = "reviewed_complete" /\ Len(s.iterations) >= s.min
      BY <2>6, <2>8
    <3>2. Good(s)
      OBVIOUS
    <3> QED
      BY ONLY <1>1, <2>1, <2>2, <2>4, <2>7, <2>8, <3>1, <3>2, GoodEnd
  <2> QED
    BY <2>9 DEF b
<1> QED
  BY <1>3, <1>4

LEMMA InterruptedGood ==
    ASSUME NEW s, Good(s), ~Terminal(s), NEW b, b = Interrupted(s)
    PROVE  /\ Good(b) /\ ~Terminal(b) /\ Keeps(s, b)
           /\ Current(b) = Current(s) /\ Len(b.trace) = Len(s.trace) + 1
<1>1. s \in States /\ s.deadline \in Int /\ s.iterationEnds \in Int
  BY DEF Good, States
<1>2. b = Rec(s, s.status, s.phase, s.iterations, s.deadline, s.iterationEnds,
              "reviewer_network_interrupted")
  BY <1>1 DEF Interrupted, Traced, Rec, States
<1>3. "reviewer_network_interrupted" \in Words
  BY DEF Words
<1>4. Good(b) /\ ~Terminal(b) /\ Keeps(s, b)
  BY <1>1, <1>2, <1>3, GoodKeeps
<1>5. Len(b.trace) = Len(s.trace) + 1
  BY <1>1, <1>2, <1>3 DEF Rec, States
<1> QED
  BY <1>4, <1>5 DEF Keeps, Current

LEMMA ExcludedGood ==
    ASSUME NEW s, Good(s), NEW outage \in Nat, NEW b, b = Excluded(s, outage)
    PROVE  /\ Good(b) /\ Current(b) = Current(s) /\ (Terminal(b) <=> Terminal(s))
           /\ b = s \/ (Keeps(s, b) /\ Len(b.trace) = Len(s.trace) + 1)
<1>1. CASE outage = 0 \/ Terminal(s)
  BY <1>1 DEF Excluded
<1>2. CASE outage # 0 /\ ~Terminal(s)
  <2>1. /\ s \in States /\ s.deadline + outage \in Int /\ s.iterationEnds + outage \in Int
    BY DEF Good, States
  <2>2. b = Rec(s, s.status, s.phase, s.iterations, s.deadline + outage,
                s.iterationEnds + outage, "network_wait_excluded")
    BY <1>2, <2>1 DEF Excluded, Traced, Rec, States
  <2>3. /\ Good(b) /\ ~Terminal(b) /\ Keeps(s, b)
        /\ Current(b) = Current(s) /\ Len(b.trace) = Len(s.trace) + 1
    <3>1. "network_wait_excluded" \in Words
      BY DEF Words
    <3>2. Good(b) /\ ~Terminal(b) /\ Keeps(s, b)
      BY <1>2, <2>1, <2>2, <3>1, GoodKeeps
    <3>3. Len(b.trace) = Len(s.trace) + 1
      BY <2>1, <2>2, <3>1 DEF Rec, States
    <3> QED
      BY <3>2, <3>3 DEF Keeps, Current
  <2> QED
    BY <1>2, <2>3
<1> QED
  BY <1>1, <1>2

\* Records about the network add up.
LEMMA KeepsOn ==
    ASSUME NEW a, Good(a), NEW b, Good(b), NEW c, Good(c), Keeps(a, b), Keeps(b, c)
    PROVE  Keeps(a, c)
<1>1. a.trace \in Seq(Words) /\ b.trace \in Seq(Words) /\ c.trace \in Seq(Words)
  BY DEF Good, States
<1> QED
  BY <1>1 DEF Keeps, Starts

-----------------------------------------------------------------------------
(* The invariant.                                                           *)
LEMMA GoodState == ASSUME NEW s, Good(s)
                   PROVE  /\ s # Nothing /\ s \in States /\ s \in Maybe
                          /\ s.trace \in Seq(Words) /\ Len(s.trace) \in Nat
<1>1. s \in States
  BY DEF Good
<1>2. s # Nothing
  <2>1. s.status \in Statuses
    BY <1>1 DEF States
  <2>2. Nothing.status = "nothing"
    BY DEF Nothing
  <2> QED
    BY <2>1, <2>2 DEF Statuses
<1> QED
  BY <1>1, <1>2 DEF States, Maybe

LEMMA FromFacts ==
    ASSUME NEW s, Good(s), NEW base \in Nat
    PROVE  /\ From(s, base) \in Seq(Words)
           /\ From(s, base) = <<>> <=> Len(s.trace) <= base
<1>1. s.trace \in Seq(Words) /\ Len(s.trace) \in Nat
  BY GoodState
<1> DEFINE t == s.trace
           n == Len(t)
<1>2. SubSeq(t, base + 1, n) = [i \in 1..(IF base + 1 <= n THEN n - base ELSE 0) |-> t[i + base]]
  BY <1>1
<1>3. /\ SubSeq(t, base + 1, n) \in Seq(Words)
      /\ Len(SubSeq(t, base + 1, n)) = IF base + 1 <= n THEN n - base ELSE 0
  BY <1>1, <1>2
<1> HIDE DEF t, n
<1>4. n \in Nat
  BY <1>1 DEF n, t
<1>5. SubSeq(t, base + 1, n) = <<>> <=> n <= base
  <2>1. PICK q \in Seq(Words) : /\ q = SubSeq(t, base + 1, n)
                                /\ Len(q) = IF base + 1 <= n THEN n - base ELSE 0
    BY <1>3
  <2>2. q = <<>> <=> Len(q) = 0
    OBVIOUS
  <2> QED
    BY ONLY <1>4, <2>1, <2>2, base \in Nat
<1> QED
  BY <1>3, <1>5 DEF From, t, n

LEMMA IdleType ==
    /\ Idle \in Runs /\ Idle.pc = "down" /\ Idle.task = "none"
    /\ Idle.write = Nothing /\ Idle.due = <<>> /\ Idle.then = "none"
    /\ Idle.outcome = "none" /\ Idle.outage = 0 /\ Idle.retry = FALSE
BY DEF Idle, Runs, Words, Maybe

\* The process waits somewhere, with nothing to write.
Rests(r, pc, task) ==
    /\ r \in Runs /\ r.pc = pc /\ r.task = task
    /\ r.write = Nothing /\ r.due = <<>> /\ r.then = "none"
    /\ r.outcome = "none" /\ r.outage = 0 /\ r.retry = FALSE

LEMMA IdleRests ==
    ASSUME NEW pc \in Words, NEW task \in Words
    PROVE  /\ Rests([Idle EXCEPT !.pc = pc], pc, "none")
           /\ Rests([Idle EXCEPT !.pc = pc, !.task = task], pc, task)
BY IdleType DEF Rests, Runs

LEMMA InitInv == Init => IInv
<1> SUFFICES ASSUME Init PROVE IInv
  OBVIOUS
<1>1. /\ clock = 0 /\ aborted = FALSE /\ run = Idle /\ state = Nothing
      /\ local = NoLocal /\ stray = NoStray /\ saved = Nothing /\ file = <<>>
  BY DEF Init
<1>2. /\ run.pc = "down" /\ run.task = "none" /\ run.write = Nothing
      /\ run.due = <<>> /\ run.retry = FALSE /\ run.then = "none"
      /\ local.state = Nothing /\ stray.write = Nothing
  BY <1>1 DEF Idle, NoLocal, NoStray
<1>3. TypeInv
  <2>1. run \in Runs /\ local \in Locals /\ stray \in Strays /\ file \in Seq(Words)
    BY <1>1 DEF Idle, NoLocal, NoStray, Runs, Locals, Strays, Maybe, Words
  <2> QED
    BY <1>1, <1>2, <2>1 DEF TypeInv
<1>4. Aim = "down" /\ ~Writing
  BY <1>2 DEF Aim, Writing
<1>5. ControlInv
  BY <1>2, <1>4 DEF ControlInv, Places
<1>6. LocalInv /\ BaseInv /\ PhaseInv /\ StrayInv
  BY <1>1, <1>2, <1>4 DEF LocalInv, BaseInv, PhaseInv, StrayInv, Phases
<1>7. SyncInv /\ GrowthInv
  BY <1>1, <1>2, <1>4 DEF SyncInv, GrowthInv, Phases, Ahead
<1>8. FileInv
  BY <1>1, <1>2, <1>4 DEF FileInv, Phases, Ahead
<1> QED
  BY <1>3, <1>5, <1>6, <1>7, <1>8 DEF IInv

\* Nothing that the invariant is about changes.
LEMMA SameInv ==
    ASSUME IInv, clock' = clock, aborted' \in BOOLEAN,
           UNCHANGED <<run, state, local, stray, saved, file, lapses>>
    PROVE  IInv'
<1>1. TypeInv /\ ControlInv /\ LocalInv /\ BaseInv /\ PhaseInv /\ StrayInv /\ SyncInv /\ GrowthInv
      /\ FileInv
  BY DEF IInv
<1>2. Aim' = Aim /\ Writing' = Writing
  BY DEF Aim, Writing
<1>3. TypeInv' /\ ControlInv' /\ LocalInv' /\ BaseInv' /\ PhaseInv'
  BY <1>1, <1>2 DEF TypeInv, ControlInv, LocalInv, BaseInv, PhaseInv
<1>4. StrayInv' /\ SyncInv'
  BY <1>1, <1>2 DEF StrayInv, SyncInv
<1>5. GrowthInv' /\ FileInv'
  BY <1>1, <1>2 DEF GrowthInv, FileInv
<1> QED
  BY <1>3, <1>4, <1>5 DEF IInv

LEMMA TickInv == ASSUME IInv, Tick PROVE IInv'
<1>1. TypeInv /\ ControlInv /\ LocalInv /\ BaseInv /\ PhaseInv /\ StrayInv /\ SyncInv /\ GrowthInv
      /\ FileInv
  BY DEF IInv
<1>2. /\ clock' = clock + 1 /\ clock' \in Nat
      /\ UNCHANGED <<aborted, state, local, stray, saved, file, lapses>>
  BY <1>1 DEF Tick, Files, TypeInv
<1>3. /\ run' \in Runs
      /\ run'.pc = run.pc /\ run'.task = run.task /\ run'.write = run.write
      /\ run'.due = run.due /\ run'.then = run.then /\ run'.outcome = run.outcome
      /\ run'.retry = run.retry
  BY <1>1 DEF Tick, TypeInv, Runs
<1>4. Aim' = Aim /\ Writing' = Writing
  BY <1>3 DEF Aim, Writing
<1>5. TypeInv'
  BY <1>1, <1>2, <1>3 DEF TypeInv
<1>6. ControlInv' /\ LocalInv' /\ BaseInv' /\ PhaseInv'
  BY <1>1, <1>2, <1>3, <1>4 DEF ControlInv, LocalInv, BaseInv, PhaseInv
<1>7. StrayInv' /\ SyncInv'
  BY <1>1, <1>2, <1>3, <1>4 DEF StrayInv, SyncInv
<1>8. GrowthInv' /\ FileInv'
  BY <1>1, <1>2, <1>3, <1>4 DEF GrowthInv, FileInv
<1> QED
  BY <1>5, <1>6, <1>7, <1>8 DEF IInv

\* The process is between two tasks, or at its end.
LEMMA RestsInv ==
    ASSUME IInv, clock' = clock, aborted' = aborted, UNCHANGED <<stray, saved, file>>,
           run'.pc \in {"head", "catching", "over", "rejected"},
           Rests(run', run'.pc, "none"), local' = Left,
           lapses \subseteq lapses',
           Good(state') \/ (state' = Nothing /\ run'.pc = "rejected"),
           saved # Nothing \/ run'.pc = "rejected",
           run'.pc = "over" => Terminal(state'),
           run'.pc \in {"head", "over"} =>
              \/ saved = state'
              \/ Terminal(state') /\ "stray" \in lapses'
              \/ run'.pc = "over" /\ "unread" \in lapses',
           stray # NoStray => run'.pc # "head" \/ Terminal(state'),
           lapses' = {} /\ run'.pc # "rejected" => file = saved.trace
    PROVE  IInv'
<1>1. TypeInv /\ ControlInv /\ LocalInv /\ StrayInv /\ FileInv
  BY DEF IInv
<1>2. /\ run' \in Runs
      /\ run'.task = "none" /\ run'.write = Nothing /\ run'.due = <<>>
      /\ run'.then = "none" /\ run'.outcome = "none" /\ run'.retry = FALSE
  BY DEF Rests
<1>3. Aim' = run'.pc /\ ~Writing'
  BY <1>2 DEF Aim, Writing
<1>4. TypeInv'
  <2>1. local' \in Locals /\ (local'.state = Nothing \/ Good(local'.state))
    BY <1>1 DEF Left, TypeInv, NoLocal, Locals, Maybe
  <2> QED
    BY <1>1, <1>2, <2>1 DEF TypeInv
<1>5. ControlInv'
  BY <1>2, <1>3 DEF ControlInv, Places
<1>6. LocalInv'
  BY <1>1, <1>2 DEF LocalInv, Left, Phases
<1>7. PhaseInv' /\ BaseInv'
  BY <1>2, <1>3 DEF PhaseInv, BaseInv, Phases
<1>8. StrayInv'
  BY <1>1, <1>2, <1>3 DEF StrayInv
<1>9. SyncInv'
  <2>1. state' # Nothing \/ run'.pc = "rejected"
    BY GoodState
  <2> QED
    BY <1>2, <1>3, <2>1 DEF SyncInv, Phases, Ahead
<1>10. GrowthInv'
  BY <1>2, <1>3 DEF GrowthInv, Writing
<1>11. FileInv'
  <2>1. lapses' = {} => lapses = {}
    OBVIOUS
  <2> QED
    BY <1>1, <1>2, <1>3, <2>1 DEF FileInv, Phases, Ahead
<1> QED
  BY <1>4, <1>5, <1>6, <1>7, <1>8, <1>9, <1>10, <1>11 DEF IInv

LEMMA BeginInv == ASSUME IInv, Begin PROVE IInv'
<1>1. TypeInv /\ ControlInv /\ LocalInv /\ StrayInv /\ SyncInv /\ FileInv
  BY DEF IInv
<1>2. /\ run.pc = "begin"
      /\ UNCHANGED <<clock, aborted, state, local, stray, saved, file, lapses>>
  BY DEF Begin, World, Files
<1>3. Aim = "begin" /\ ~Writing /\ run.task = "start"
  BY <1>1, <1>2 DEF Aim, Writing, ControlInv, Places
<1>4. stray = NoStray /\ local = NoLocal
  BY <1>1, <1>3 DEF StrayInv, LocalInv, Phases
<1>5. /\ saved = state /\ state # Nothing /\ Good(state)
      /\ lapses = {} => file = saved.trace
  BY <1>1, <1>2, <1>3 DEF SyncInv, FileInv, TypeInv
<1>6. CASE run' = [Idle EXCEPT !.pc = "head"]
  <2>1. "head" \in Words
    BY DEF Words
  <2>2. Rests(run', "head", "none")
    BY <1>6, <2>1, IdleRests
  <2>3. run'.pc = "head"
    BY <2>2 DEF Rests
  <2> QED
    BY <1>2, <1>4, <1>5, <2>2, <2>3, RestsInv DEF Left
<1>7. CASE run' = [Idle EXCEPT !.pc = "calling", !.task = "discover"]
  <2>1. /\ run' \in Runs /\ run'.pc = "calling" /\ run'.task = "discover"
        /\ run'.write = Nothing /\ run'.due = <<>>
        /\ run'.then = "none" /\ run'.outcome = "none" /\ run'.retry = FALSE
    <3>1. "calling" \in Words /\ "discover" \in Words
      BY DEF Words
    <3>2. Rests(run', "calling", "discover")
      BY <1>7, <3>1, IdleRests
    <3> QED
      BY <3>2 DEF Rests
  <2>2. Aim' = "calling" /\ ~Writing'
    BY <2>1 DEF Aim, Writing
  <2>3. TypeInv' /\ ControlInv'
    BY <1>1, <1>2, <2>1, <2>2 DEF TypeInv, ControlInv, Places
  <2>4. LocalInv' /\ BaseInv' /\ PhaseInv' /\ StrayInv'
    BY <1>1, <1>2, <1>4, <2>1, <2>2 DEF LocalInv, BaseInv, PhaseInv, StrayInv, Phases
  <2>5. SyncInv' /\ GrowthInv'
    BY <1>2, <1>5, <2>1, <2>2 DEF SyncInv, GrowthInv, Phases
  <2>6. FileInv'
    BY <1>1, <1>2, <1>5, <2>1, <2>2 DEF FileInv, Phases
  <2> QED
    BY <2>3, <2>4, <2>5, <2>6 DEF IInv
<1> QED
  BY <1>6, <1>7 DEF Begin

LEMMA DiscoveryEndsInv == ASSUME IInv, DiscoveryEnds PROVE IInv'
<1>1. TypeInv /\ ControlInv /\ LocalInv /\ StrayInv /\ SyncInv /\ FileInv
  BY DEF IInv
<1>2. /\ run.pc = "calling" /\ run.task = "discover"
      /\ UNCHANGED <<clock, aborted, state, local, stray, saved, file, lapses>>
  BY DEF DiscoveryEnds, Files
<1>3. Aim = "calling" /\ ~Writing
  BY <1>2 DEF Aim, Writing
<1>4. stray = NoStray /\ local = NoLocal
  BY <1>1, <1>2, <1>3 DEF StrayInv, LocalInv, Phases
<1>5. /\ saved = state /\ state # Nothing /\ Good(state)
      /\ lapses = {} => file = saved.trace
  BY <1>1, <1>2, <1>3 DEF SyncInv, FileInv, TypeInv
<1>6. /\ run'.pc \in {"head", "catching"}
      /\ Rests(run', run'.pc, "none")
  <2>1. PICK pc \in {"head", "catching"} : run' = [Idle EXCEPT !.pc = pc]
    BY DEF DiscoveryEnds
  <2>2. pc \in Words
    BY DEF Words
  <2>3. Rests(run', pc, "none")
    BY <2>1, <2>2, IdleRests
  <2>4. run'.pc = pc
    BY <2>3 DEF Rests
  <2> QED
    BY <2>3, <2>4
<1> QED
  BY <1>2, <1>4, <1>5, <1>6, RestsInv DEF Left

\* A phase, or the stop of the loop, throws.
LEMMA ThrowInv ==
    ASSUME IInv, Throw, clock' = clock, aborted' = aborted,
           UNCHANGED <<state, stray, saved, file>>,
           run.task \in Phases \union {"stop"},
           lapses \subseteq lapses', lapses' = {} => file = saved.trace
    PROVE  IInv'
<1>1. ControlInv /\ SyncInv /\ TypeInv
  BY DEF IInv
<1>2. Aim \notin {"down", "rejected"}
  BY <1>1 DEF ControlInv, Places, Phases
<1>3. state # Nothing /\ saved # Nothing /\ Good(state)
  BY <1>1, <1>2 DEF SyncInv, TypeInv, Phases
<1>4. Rests(run', "catching", "none")
  <2>1. "catching" \in Words
    BY DEF Words
  <2> QED
    BY <2>1, IdleRests DEF Throw
<1>5. run'.pc = "catching" /\ local' = Left
  BY <1>4 DEF Rests, Throw
<1> QED
  BY <1>3, <1>4, <1>5, RestsInv

LEMMA PhaseFileFailsInv == ASSUME IInv, PhaseFileFails PROVE IInv'
<1>1. ControlInv /\ FileInv /\ SyncInv
  BY DEF IInv
<1>2. /\ run.pc \in {"preparing", "judging", "publishing", "settling"}
      /\ UNCHANGED <<clock, aborted, state, stray, saved, file, lapses>>
      /\ Throw
  BY DEF PhaseFileFails, World, Files
<1>3. Aim = run.pc /\ ~Writing
  BY <1>2 DEF Aim, Writing
<1>4. run.task \in Phases
  BY <1>1, <1>2, <1>3 DEF ControlInv, Places, Phases
<1>5. saved # Nothing /\ (lapses = {} => file = saved.trace)
  BY <1>1, <1>2, <1>3 DEF FileInv, SyncInv
<1> QED
  BY <1>2, <1>4, <1>5, ThrowInv

LEMMA PublishInv == ASSUME IInv, Publish PROVE IInv'
<1>1. TypeInv /\ ControlInv /\ StrayInv /\ SyncInv /\ FileInv
  BY DEF IInv
<1>2. /\ run.pc = "publishing" /\ state' = run.write /\ local' = Left
      /\ run' = [Idle EXCEPT !.pc = "head"]
      /\ UNCHANGED <<clock, aborted, stray, saved, file, lapses>>
  BY DEF Publish, World, Files
<1>3. Aim = "publishing" /\ ~Writing
  BY <1>2 DEF Aim, Writing
<1>4. Rests(run', "head", "none") /\ run'.pc = "head"
  <2>1. "head" \in Words
    BY DEF Words
  <2> QED
    BY <1>2, <2>1, IdleRests DEF Rests
<1>5. run.write # Nothing /\ Good(state')
  BY <1>1, <1>2 DEF ControlInv, TypeInv
<1>6. /\ saved # Nothing /\ (lapses = {} => file = saved.trace)
      /\ saved = state' \/ (Terminal(state') /\ "stray" \in lapses)
      /\ stray # NoStray => Terminal(state')
  <2>1. saved # Nothing /\ (lapses = {} => file = saved.trace)
    BY <1>1, <1>2, <1>3 DEF SyncInv, FileInv
  <2>2. saved = state' \/ (Terminal(state') /\ "stray" \in lapses)
    BY <1>1, <1>2, <1>3 DEF SyncInv
  <2>3. stray # NoStray => Terminal(state')
    BY <1>1, <1>2, <1>3 DEF StrayInv
  <2> QED
    BY <2>1, <2>2, <2>3
<1> QED
  BY <1>2, <1>4, <1>5, <1>6, RestsInv

-----------------------------------------------------------------------------
(* What is being written.                                                   *)
\* The record w of the process is r, about to write s.
Writes(w, r, s, base, then) ==
    /\ w \in Runs /\ w.pc = "saving" /\ w.write = s /\ w.due = From(s, base) /\ w.then = then
    /\ w.task = r.task /\ w.outcome = r.outcome /\ w.outage = r.outage /\ w.retry = r.retry

LEMMA PersistWrites ==
    ASSUME NEW r \in Runs, NEW s, Good(s), NEW base \in Nat, NEW then \in Words
    PROVE  Writes([r EXCEPT !.pc = "saving", !.write = s, !.due = From(s, base), !.then = then],
                  r, s, base, then)
<1>1. From(s, base) \in Seq(Words) /\ s \in Maybe /\ "saving" \in Words
  BY FromFacts, GoodState DEF Words
<1> QED
  BY <1>1 DEF Writes, Runs

\* ... for a task that begins with it.
BeginsWith(w, task, s, base, then) ==
    /\ w \in Runs /\ w.pc = "saving" /\ w.write = s /\ w.due = From(s, base) /\ w.then = then
    /\ w.task = task /\ w.outcome = "none" /\ w.outage = 0 /\ w.retry = FALSE

LEMMA IdleWrites ==
    ASSUME NEW task \in Words, NEW s, Good(s), NEW base \in Nat, NEW then \in Words
    PROVE  BeginsWith([[Idle EXCEPT !.task = task] EXCEPT !.pc = "saving", !.write = s,
                            !.due = From(s, base), !.then = then],
                      task, s, base, then)
<1> DEFINE q == [Idle EXCEPT !.task = task]
           w == [q EXCEPT !.pc = "saving", !.write = s, !.due = From(s, base), !.then = then]
<1>1. /\ q \in Runs
      /\ q.task = task /\ q.outcome = "none" /\ q.outage = 0 /\ q.retry = FALSE
  BY IdleType DEF Runs
<1> HIDE DEF q
<1>2. Writes(w, q, s, base, then)
  BY <1>1, PersistWrites
<1> HIDE DEF w
<1>3. BeginsWith(w, task, s, base, then)
  BY <1>1, <1>2 DEF Writes, BeginsWith
<1> QED
  BY <1>3 DEF q, w

\* The goal ends at the top of the loop or in its catch.
LEMMA EndsInv ==
    ASSUME IInv, clock' = clock, aborted' = aborted, UNCHANGED <<local, stray, saved, file>>,
           run.pc \in {"head", "catching"},
           run' \in Runs, run'.pc = "saving", run'.write = state', run'.then = "over",
           run'.task \in {"stop", "catch"}, run'.retry = FALSE,
           Good(state'), Terminal(state'),
           lapses \subseteq lapses',
           lapses' \subseteq {"gap"} => Grows(saved, state'),
           lapses' = {} => run'.due = From(state', Len(saved.trace))
    PROVE  IInv'
<1>1. TypeInv /\ ControlInv /\ LocalInv /\ StrayInv /\ SyncInv /\ FileInv
  BY DEF IInv
<1>2. Aim = run.pc /\ ~Writing /\ run.task = "none"
  BY <1>1 DEF Aim, Writing, ControlInv, Places
<1>3. /\ run' \in Runs /\ run'.pc = "saving" /\ run'.write = state' /\ run'.then = "over"
      /\ state' # Nothing /\ saved # Nothing
  BY <1>1, <1>2, GoodState DEF SyncInv
<1>4. Aim' = "over" /\ Writing'
  BY <1>3 DEF Aim, Writing
<1>5. TypeInv'
  BY <1>1, <1>3 DEF TypeInv
<1>6. ControlInv'
  BY <1>3, <1>4 DEF ControlInv, Places, Written
<1>7. LocalInv' /\ BaseInv' /\ PhaseInv'
  BY <1>1, <1>2, <1>4 DEF LocalInv, BaseInv, PhaseInv, Phases
<1>8. StrayInv'
  BY <1>1, <1>4 DEF StrayInv
<1>9. SyncInv' /\ GrowthInv'
  BY <1>3, <1>4 DEF SyncInv, GrowthInv, Phases
<1>10. FileInv'
  <2> SUFFICES ASSUME lapses' = {} PROVE FileInv'
    BY DEF FileInv
  <2>1. file = saved.trace /\ lapses = {}
    BY <1>1, <1>2 DEF FileInv
  <2>2. Starts(file, saved.trace) /\ Starts(file, state'.trace)
    <3>1. saved.trace \in Seq(Words)
      BY <1>1, <1>3, GoodState DEF TypeInv
    <3> QED
      BY <2>1, <3>1 DEF Grows, Starts
  <2> QED
    BY <1>3, <1>4, <2>1, <2>2 DEF FileInv, Phases
<1> QED
  BY <1>5, <1>6, <1>7, <1>8, <1>9, <1>10 DEF IInv

-----------------------------------------------------------------------------
(* The loop.                                                                *)
LEMMA StartInv == ASSUME IInv, Start PROVE IInv'
<1>1. TypeInv /\ FileInv
  BY DEF IInv
<1>2. /\ Stopped /\ local' = NoLocal /\ stray' = NoStray /\ aborted' = FALSE
      /\ UNCHANGED <<clock, saved, file, lapses>>
  BY DEF Start, Files
<1>3. PICK s \in IF saved # Nothing THEN {Loaded(saved)}
                 ELSE {New(limits[1], limits[2], clock) : limits \in Inputs} :
         /\ state' = s
         /\ Persist([Idle EXCEPT !.task = "start"], s, DurableTraceLength, "begin")
  BY DEF Start
<1>4. Good(s) /\ (saved # Nothing => s = saved)
  <2>1. CASE saved # Nothing
    <3>1. Good(saved)
      BY <1>1, <2>1 DEF TypeInv
    <3> QED
      BY <1>3, <2>1, <3>1, LoadedSame
  <2>2. CASE saved = Nothing
    <3>1. PICK limits \in Inputs : s = New(limits[1], limits[2], clock)
      BY <1>3, <2>2
    <3>2. Good(New(limits[1], limits[2], clock))
      BY <1>1, GoodNew DEF TypeInv
    <3> QED
      BY <2>2, <3>1, <3>2
  <2> QED
    BY <2>1, <2>2
<1>5. BeginsWith(run', "start", s, Len(file), "begin")
  <2>1. Len(file) \in Nat /\ "begin" \in Words /\ "start" \in Words
    BY <1>1 DEF TypeInv, Words
  <2> QED
    BY <1>3, <1>4, <2>1, IdleWrites DEF Persist, DurableTraceLength
<1>6. /\ run' \in Runs /\ run'.pc = "saving" /\ run'.task = "start" /\ run'.write = s
      /\ run'.due = From(s, Len(file)) /\ run'.then = "begin"
      /\ run'.outcome = "none" /\ run'.retry = FALSE
      /\ s # Nothing
  BY <1>4, <1>5, GoodState DEF BeginsWith
<1>7. Aim' = "begin" /\ Writing'
  BY <1>6 DEF Aim, Writing
<1>8. /\ local' \in Locals /\ local'.state = Nothing
      /\ stray' \in Strays /\ stray'.write = Nothing
  BY <1>2 DEF NoLocal, NoStray, Locals, Strays, Maybe, Words
<1>9. TypeInv'
  BY <1>1, <1>2, <1>3, <1>4, <1>6, <1>8 DEF TypeInv
<1>10. ControlInv'
  BY <1>6, <1>7 DEF ControlInv, Places, Written
<1>11. LocalInv' /\ BaseInv' /\ PhaseInv' /\ StrayInv'
  BY <1>2, <1>6, <1>7 DEF LocalInv, BaseInv, PhaseInv, StrayInv, Phases
<1>12. SyncInv'
  BY <1>2, <1>3, <1>6, <1>7 DEF SyncInv, Phases
<1>13. GrowthInv'
  BY <1>2, <1>4, <1>6 DEF GrowthInv
<1>14. FileInv'
  <2> SUFFICES ASSUME lapses' = {} PROVE FileInv'
    BY DEF FileInv
  <2>1. /\ saved = Nothing => file = <<>>
        /\ saved # Nothing => Starts(file, saved.trace)
    BY <1>1, <1>2 DEF FileInv
  <2>2. Starts(file, s.trace)
    <3>1. saved = Nothing => Len(file) = 0 /\ Len(s.trace) \in Nat
      BY <1>4, <2>1, GoodState
    <3> QED
      BY <1>4, <2>1, <3>1 DEF Starts
  <2> QED
    BY <1>2, <1>6, <1>7, <2>1, <2>2 DEF FileInv, Phases
<1> QED
  BY <1>9, <1>10, <1>11, <1>12, <1>13, <1>14 DEF IInv

LEMMA CatchInv == ASSUME IInv, Catch PROVE IInv'
<1>1. TypeInv /\ ControlInv /\ LocalInv /\ StrayInv /\ SyncInv /\ FileInv
  BY DEF IInv
<1>2. /\ run.pc = "catching"
      /\ UNCHANGED <<clock, aborted, local, stray, saved, file>>
  BY DEF Catch, World
<1>3. PICK s \in {saved, state} :
         /\ Caught(s)
         /\ lapses' = IF s = saved THEN lapses ELSE lapses \union {"unread"}
  BY DEF Catch, Recovered
<1>4. Aim = "catching" /\ ~Writing /\ run.task = "none"
  BY <1>1, <1>2 DEF Aim, Writing, ControlInv, Places
<1>5. saved # Nothing /\ state # Nothing /\ Good(s)
  BY <1>1, <1>3, <1>4 DEF SyncInv, TypeInv
<1>6. lapses' = {} => file = saved.trace
  BY <1>1, <1>2, <1>3 DEF FileInv
<1>7. CASE Terminal(s)
  <2>1. state' = s /\ run' = [Idle EXCEPT !.pc = "over"]
    BY <1>3, <1>7 DEF Caught
  <2>2. Rests(run', "over", "none") /\ run'.pc = "over"
    <3>1. "over" \in Words
      BY DEF Words
    <3> QED
      BY <2>1, <3>1, IdleRests DEF Rests
  <2>3. local' = Left
    BY <1>1, <1>2, <1>4 DEF Left, LocalInv, Phases
  <2>4. saved = state' \/ "unread" \in lapses'
    BY <1>3, <2>1
  <2> QED
    BY <1>2, <1>3, <1>5, <1>6, <1>7, <2>1, <2>2, <2>3, <2>4, RestsInv
<1>8. CASE ~Terminal(s)
  <2> DEFINE end == IF aborted THEN Cancel(s) ELSE Fail(s, "failed")
  <2>1. state' = end /\ Persist([Idle EXCEPT !.task = "catch"], end, Len(s.trace), "over")
    BY <1>3, <1>8 DEF Caught
  <2>2. Good(end) /\ Terminal(end) /\ Grows(s, end)
    BY <1>5, <1>8, CancelEnds, FailEnds
  <2> HIDE DEF end
  <2>3. BeginsWith(run', "catch", end, Len(s.trace), "over")
    <3>1. Len(s.trace) \in Nat /\ "catch" \in Words /\ "over" \in Words
      BY <1>5, GoodState DEF Words
    <3> QED
      BY <2>1, <2>2, <3>1, IdleWrites DEF Persist
  <2>4. /\ run' \in Runs /\ run'.pc = "saving" /\ run'.write = end /\ run'.then = "over"
        /\ run'.due = From(end, Len(s.trace))
        /\ run'.task = "catch" /\ run'.retry = FALSE
    BY <2>3 DEF BeginsWith
  <2>5. lapses' \subseteq {"gap"} => s = saved
    BY <1>3
  <2>6. lapses \subseteq lapses'
    BY <1>3
  <2> QED
    BY <1>2, <2>1, <2>2, <2>4, <2>5, <2>6, EndsInv
<1> QED
  BY <1>7, <1>8

LEMMA LoopStopInv ==
    ASSUME IInv, run.pc = "head", ~Terminal(state),
           UNCHANGED <<clock, aborted, stray, saved, file, lapses>>,
           NEW s, Good(s), Terminal(s), Grows(state, s), Stop(s)
    PROVE  IInv'
<1>1. TypeInv /\ SyncInv
  BY DEF IInv
<1>2. Aim = "head"
  BY DEF Aim, Writing
<1>3. saved = state /\ state # Nothing /\ Good(state)
  BY <1>1, <1>2 DEF SyncInv, TypeInv
<1>4. BeginsWith(run', "stop", s, Len(state.trace), "over")
  <2>1. Len(state.trace) \in Nat /\ "stop" \in Words /\ "over" \in Words
    BY <1>3, GoodState DEF Words
  <2> QED
    BY <2>1, IdleWrites DEF Stop, Persist
<1>5. /\ state' = s /\ UNCHANGED local
      /\ run' \in Runs /\ run'.pc = "saving" /\ run'.write = s /\ run'.then = "over"
      /\ run'.due = From(s, Len(state.trace))
      /\ run'.task = "stop" /\ run'.retry = FALSE
  BY <1>4 DEF BeginsWith, Stop
<1> QED
  BY <1>3, <1>5, EndsInv

\* The next iteration, or the one that was started, is generated.
LEMMA LoopGenerateInv ==
    ASSUME IInv, run.pc = "head", ~Terminal(state),
           UNCHANGED <<clock, aborted, state, stray, saved, file, lapses>>,
           NEW s, Good(s), ~Terminal(s), Current(s) = "pending",
           s = state \/ Grows(state, s),
           local' = [state |-> s, base |-> Len(state.trace)],
           Persist([Idle EXCEPT !.task = "generate"], s, Len(state.trace), "preparing")
    PROVE  IInv'
<1>1. TypeInv /\ ControlInv /\ StrayInv /\ SyncInv /\ FileInv
  BY DEF IInv
<1>2. Aim = "head" /\ ~Writing /\ run.task = "none"
  BY <1>1 DEF Aim, Writing, ControlInv, Places
<1>3. saved = state /\ state # Nothing /\ Good(state) /\ stray = NoStray
  BY <1>1, <1>2 DEF SyncInv, TypeInv, StrayInv
<1>4. Len(state.trace) \in Nat /\ state.trace \in Seq(Words) /\ s # Nothing /\ s \in Maybe
  BY <1>3, GoodState
<1>5. BeginsWith(run', "generate", s, Len(state.trace), "preparing")
  <2>1. "generate" \in Words /\ "preparing" \in Words
    BY DEF Words
  <2> QED
    BY <1>4, <2>1, IdleWrites DEF Persist
<1>6. /\ run' \in Runs /\ run'.pc = "saving" /\ run'.write = s /\ run'.then = "preparing"
      /\ run'.due = From(s, Len(state.trace))
      /\ run'.task = "generate" /\ run'.retry = FALSE
  BY <1>5 DEF BeginsWith
<1>7. /\ local' \in Locals /\ local'.state = s /\ local'.base = Len(state.trace)
  BY <1>4 DEF Locals
<1>8. Aim' = "preparing" /\ Writing'
  BY <1>6 DEF Aim, Writing
<1>9. Starts(state.trace, s.trace) /\ Len(state.trace) <= Len(s.trace)
  BY <1>4 DEF Grows, Starts
<1>10. TypeInv'
  BY <1>1, <1>3, <1>6, <1>7 DEF TypeInv
<1>11. ControlInv'
  BY <1>4, <1>6, <1>8 DEF ControlInv, Places, Written
<1>12. LocalInv'
  BY <1>4, <1>6, <1>7, <1>9 DEF LocalInv, Phases
<1>13. BaseInv' /\ PhaseInv' /\ StrayInv'
  BY <1>3, <1>6, <1>7, <1>8 DEF BaseInv, PhaseInv, StrayInv, Phases, Ahead, Expected
<1>14. SyncInv'
  BY <1>3, <1>6, <1>7, <1>8 DEF SyncInv, Phases, Ahead
<1>15. GrowthInv'
  BY <1>3, <1>6, <1>8 DEF GrowthInv
<1>16. FileInv'
  <2> SUFFICES ASSUME lapses' = {} PROVE FileInv'
    BY DEF FileInv
  <2>1. file = saved.trace /\ lapses = {}
    BY <1>1, <1>2 DEF FileInv
  <2>2. Starts(file, saved.trace)
    BY <1>3, <1>4, <2>1 DEF Starts
  <2> QED
    BY <1>3, <1>6, <1>8, <1>9, <2>1, <2>2 DEF FileInv, Phases, Ahead
<1> QED
  BY <1>10, <1>11, <1>12, <1>13, <1>14, <1>15, <1>16 DEF IInv

\* The execution or the review of the current iteration begins.
LEMMA PrepareInv ==
    ASSUME IInv, run.pc = "head", ~Terminal(state),
           UNCHANGED <<clock, aborted, stray, saved, file, lapses>>,
           NEW task \in {"execute", "review"}, Current(state) \in Expected(task),
           Prepare(task, state)
    PROVE  IInv'
<1>1. TypeInv /\ ControlInv /\ StrayInv /\ SyncInv /\ FileInv
  BY DEF IInv
<1>2. Aim = "head" /\ ~Writing /\ run.task = "none"
  BY <1>1 DEF Aim, Writing, ControlInv, Places
<1>3. saved = state /\ state # Nothing /\ Good(state) /\ stray = NoStray
  BY <1>1, <1>2 DEF SyncInv, TypeInv, StrayInv
<1>4. Len(state.trace) \in Nat /\ state.trace \in Seq(Words) /\ state \in Maybe
  BY <1>3, GoodState
<1>5. /\ state' = state
      /\ local' \in Locals /\ local'.state = state /\ local'.base = Len(state.trace)
  BY <1>4 DEF Prepare, Locals
<1>6. Rests(run', "preparing", task)
  <2>1. "preparing" \in Words /\ task \in Words
    BY DEF Words
  <2> QED
    BY <2>1, IdleRests DEF Prepare
<1>7. /\ run' \in Runs /\ run'.pc = "preparing" /\ run'.task = task
      /\ run'.write = Nothing /\ run'.due = <<>> /\ run'.retry = FALSE /\ run'.then = "none"
  BY <1>6 DEF Rests
<1>8. Aim' = "preparing" /\ ~Writing'
  BY <1>7 DEF Aim, Writing
<1>9. TypeInv'
  BY <1>1, <1>3, <1>5, <1>7 DEF TypeInv
<1>10. ControlInv' /\ LocalInv'
  BY <1>3, <1>4, <1>5, <1>7, <1>8 DEF ControlInv, Places, LocalInv, Phases
<1>11. BaseInv' /\ PhaseInv' /\ StrayInv'
  BY <1>3, <1>5, <1>7, <1>8 DEF BaseInv, PhaseInv, StrayInv
<1>12. SyncInv' /\ GrowthInv'
  BY <1>3, <1>5, <1>7, <1>8 DEF SyncInv, GrowthInv, Phases, Ahead
<1>13. FileInv'
  <2>1. lapses = {} => file = saved.trace
    BY <1>1, <1>2 DEF FileInv
  <2>2. Starts(saved.trace, saved.trace)
    BY <1>3, <1>4 DEF Starts
  <2> QED
    BY <1>3, <1>5, <1>7, <1>8, <2>1, <2>2 DEF FileInv, Phases, Ahead
<1> QED
  BY <1>9, <1>10, <1>11, <1>12, <1>13 DEF IInv

LEMMA LoopHeadInv == ASSUME IInv, LoopHead PROVE IInv'
<1>1. TypeInv /\ ControlInv /\ LocalInv /\ StrayInv /\ SyncInv /\ FileInv
  BY DEF IInv
<1>2. run.pc = "head" /\ UNCHANGED <<clock, aborted, stray, saved, file, lapses>>
  BY DEF LoopHead, World, Files
<1>3. Aim = "head" /\ ~Writing /\ run.task = "none"
  BY <1>1, <1>2 DEF Aim, Writing, ControlInv, Places
<1>4. state # Nothing /\ saved # Nothing /\ Good(state)
  BY <1>1, <1>3 DEF SyncInv, TypeInv
<1>5. CASE Terminal(state)
  <2>1. run' = [Idle EXCEPT !.pc = "over"] /\ UNCHANGED <<state, local>>
    BY <1>5 DEF LoopHead
  <2>2. Rests(run', "over", "none") /\ run'.pc = "over"
    <3>1. "over" \in Words
      BY DEF Words
    <3> QED
      BY <2>1, <3>1, IdleRests DEF Rests
  <2>3. local' = Left
    BY <1>1, <1>3, <2>1 DEF Left, LocalInv, Phases
  <2>4. saved = state' \/ (Terminal(state') /\ "stray" \in lapses')
    BY <1>1, <1>2, <1>3, <1>5, <2>1 DEF SyncInv
  <2>5. lapses' = {} => file = saved.trace
    BY <1>1, <1>2, <1>3 DEF FileInv
  <2> QED
    BY <1>2, <1>4, <1>5, <2>1, <2>2, <2>3, <2>4, <2>5, RestsInv
<1>6. CASE ~Terminal(state) /\ StopReason(state, clock, aborted) # "none"
  <2> DEFINE s == StartIteration(state, clock, aborted)
  <2>1. Stop(s)
    BY <1>6 DEF LoopHead
  <2>2. Good(s) /\ Terminal(s) /\ Grows(state, s)
    BY <1>1, <1>4, <1>6, StopEnds DEF TypeInv
  <2> HIDE DEF s
  <2> QED
    BY <1>2, <1>6, <2>1, <2>2, LoopStopInv
<1>7. CASE /\ ~Terminal(state) /\ StopReason(state, clock, aborted) = "none"
           /\ Current(state) \in Active /\ clock >= state.iterationEnds
  <2> DEFINE s == Fail(state, "partial")
  <2>1. Stop(s)
    BY <1>7 DEF LoopHead
  <2>2. Good(s) /\ Terminal(s) /\ Grows(state, s)
    BY <1>4, <1>7, FailEnds
  <2> HIDE DEF s
  <2> QED
    BY <1>2, <1>7, <2>1, <2>2, LoopStopInv
<1>8. CASE /\ ~Terminal(state) /\ StopReason(state, clock, aborted) = "none"
           /\ ~(Current(state) \in Active /\ clock >= state.iterationEnds)
           /\ Current(state) \in {"none", "reviewed_incomplete", "pending"}
  <2> DEFINE s == IF Current(state) = "pending" THEN state
                  ELSE StartIteration(state, clock, aborted)
  <2>1. /\ local' = [state |-> s, base |-> Len(state.trace)]
        /\ Persist([Idle EXCEPT !.task = "generate"], s, Len(state.trace), "preparing")
        /\ UNCHANGED state
    BY <1>8 DEF LoopHead
  <2>2. /\ Good(s) /\ ~Terminal(s) /\ Current(s) = "pending"
        /\ s = state \/ Grows(state, s)
    BY <1>1, <1>4, <1>8, IterationStarts DEF TypeInv
  <2> HIDE DEF s
  <2> QED
    BY <1>2, <1>8, <2>1, <2>2, LoopGenerateInv
<1>9. CASE /\ ~Terminal(state) /\ StopReason(state, clock, aborted) = "none"
           /\ ~(Current(state) \in Active /\ clock >= state.iterationEnds)
           /\ Current(state) \notin {"none", "reviewed_incomplete", "pending"}
  <2> DEFINE task == IF Current(state) = "todo_generated" THEN "execute" ELSE "review"
  <2>1. Prepare(task, state)
    BY <1>9 DEF LoopHead
  <2>2. Current(state) \in Unfinished
    BY <1>4, <1>9, RunningFacts
  <2>3. task \in {"execute", "review"} /\ Current(state) \in Expected(task)
    BY <1>9, <2>2 DEF Unfinished, Expected, Reviewable
  <2> HIDE DEF task
  <2> QED
    BY <1>2, <1>9, <2>1, <2>3, PrepareInv
<1> QED
  BY <1>5, <1>6, <1>7, <1>8, <1>9

-----------------------------------------------------------------------------
(* The phases.                                                              *)
\* A phase goes on to its call, or to what the call came to.
LEMMA MoveInv ==
    ASSUME IInv, UNCHANGED <<clock, aborted, state, local, stray, saved, file, lapses>>,
           run.pc \in {"preparing", "calling", "recovering"}, run.task \in Phases,
           run' \in Runs, run'.task = run.task, run'.write = run.write, run'.due = run.due,
           run'.then = run.then,
           run'.pc \in {"calling", "judging"}, <<run.task, run'.pc>> \in Places,
           run'.retry => run.task = "review" /\ run'.pc = "calling"
    PROVE  IInv'
<1>1. TypeInv /\ ControlInv /\ LocalInv /\ BaseInv /\ PhaseInv /\ StrayInv /\ SyncInv /\ FileInv
  BY DEF IInv
<1>2. Aim = run.pc /\ ~Writing /\ Aim' = run'.pc /\ ~Writing'
  BY DEF Aim, Writing
<1>3. stray = NoStray
  BY <1>1, <1>2 DEF StrayInv
<1>4. saved = local.state /\ saved # Nothing /\ state # Nothing
  BY <1>1, <1>2 DEF SyncInv, Ahead
<1>5. TypeInv' /\ ControlInv' /\ LocalInv' /\ BaseInv'
  BY <1>1, <1>2 DEF TypeInv, ControlInv, LocalInv, BaseInv, Ahead
<1>6. PhaseInv' /\ StrayInv'
  BY <1>1, <1>2, <1>3 DEF PhaseInv, StrayInv, Ahead
<1>7. SyncInv' /\ GrowthInv'
  BY <1>2, <1>4 DEF SyncInv, GrowthInv, Phases
<1>8. FileInv'
  BY <1>1, <1>2 DEF FileInv, Ahead
<1> QED
  BY <1>5, <1>6, <1>7, <1>8 DEF IInv

\* A phase records its result.
LEMMA RecordInv ==
    ASSUME IInv, UNCHANGED <<clock, aborted, state, stray, saved, file, lapses>>,
           run.pc \in {"preparing", "calling", "judging", "settling"}, run.task \in Phases,
           run.pc = "calling" => run.task = "execute",
           NEW s, Good(s), Grows(local.state, s), Record(s),
           local' = local \/ local' = [local EXCEPT !.state = s],
           stray # NoStray => Terminal(s)
    PROVE  IInv'
<1>1. TypeInv /\ ControlInv /\ LocalInv /\ BaseInv /\ PhaseInv /\ StrayInv /\ SyncInv /\ FileInv
  BY DEF IInv
<1>2. Aim = run.pc /\ ~Writing
  BY DEF Aim, Writing
<1>3. /\ local.state # Nothing /\ Good(local.state) /\ local.base \in Nat
      /\ local.base <= Len(local.state.trace)
  BY <1>1 DEF LocalInv, TypeInv, Locals
<1>4. s # Nothing /\ s \in Maybe /\ s.trace \in Seq(Words) /\ local.state.trace \in Seq(Words)
  BY <1>3, GoodState
<1>5. /\ saved # Nothing /\ state # Nothing
      /\ saved = local.state \/ "stray" \in lapses
  BY <1>1, <1>2 DEF SyncInv, Ahead
<1>6. Writes(run', run, s, local.base, "publishing")
  <2>1. run \in Runs /\ "publishing" \in Words
    BY <1>1 DEF TypeInv, Words
  <2> QED
    BY <1>3, <2>1, PersistWrites DEF Record, Persist
<1>7. /\ run' \in Runs /\ run'.pc = "saving" /\ run'.write = s /\ run'.then = "publishing"
      /\ run'.due = From(s, local.base)
      /\ run'.task = run.task /\ run'.outcome = run.outcome /\ run'.retry = run.retry
  BY <1>6 DEF Writes
<1>8. /\ local' \in Locals /\ local'.base = local.base
      /\ local'.state = local.state \/ local'.state = s
  BY <1>1, <1>4 DEF TypeInv, Locals
<1>9. Aim' = "publishing" /\ Writing'
  BY <1>7 DEF Aim, Writing
<1>10. Starts(local.state.trace, s.trace) /\ Len(local.state.trace) < Len(s.trace)
  BY DEF Grows
<1>11. TypeInv'
  BY <1>1, <1>3, <1>7, <1>8 DEF TypeInv
<1>12. ControlInv'
  <2>1. ~run.retry
    BY <1>1, <1>2 DEF ControlInv
  <2> QED
    BY <1>4, <1>7, <1>9, <2>1 DEF ControlInv, Places, Written, Phases
<1>13. LocalInv'
  <2>1. local'.state # Nothing /\ local'.base <= Len(local'.state.trace)
    <3>1. Len(local.state.trace) \in Nat /\ Len(s.trace) \in Nat
      BY <1>4
    <3> QED
      BY <1>3, <1>4, <1>8, <1>10, <3>1
  <2> QED
    BY <1>7, <2>1 DEF LocalInv
<1>14. PhaseInv' /\ BaseInv'
  BY <1>7, <1>9 DEF PhaseInv, BaseInv, Ahead
<1>15. StrayInv'
  <2> SUFFICES ASSUME stray # NoStray PROVE StrayInv'
    BY DEF StrayInv
  <2>1. run.task = "review" /\ run.outcome = "lost"
    BY <1>1, <1>2 DEF StrayInv
  <2> QED
    BY <1>1, <1>7, <1>9, <2>1 DEF StrayInv
<1>16. SyncInv'
  BY <1>5, <1>7, <1>9 DEF SyncInv, Phases, Ahead
<1>17. GrowthInv'
  BY <1>5, <1>7, <1>9 DEF GrowthInv
<1>18. FileInv'
  <2> SUFFICES ASSUME lapses' = {} PROVE FileInv'
    BY DEF FileInv
  <2>1. file = saved.trace /\ local.base = Len(file) /\ saved = local.state
    BY <1>1, <1>2, <1>5 DEF FileInv, Ahead
  <2>2. Starts(file, saved.trace) /\ Starts(file, s.trace)
    BY <1>4, <1>10, <2>1 DEF Starts
  <2> QED
    BY <1>5, <1>7, <1>9, <2>1, <2>2 DEF FileInv, Ahead
<1> QED
  BY <1>11, <1>12, <1>13, <1>14, <1>15, <1>16, <1>17, <1>18 DEF IInv

LEMMA CallInv ==
    ASSUME IInv, UNCHANGED <<clock, aborted, state, stray, saved, file, lapses>>,
           run.pc = "preparing", run.task \in Phases, Call
    PROVE  IInv'
<1>1. TypeInv /\ ControlInv
  BY DEF IInv
<1>2. Aim = "preparing"
  BY DEF Aim, Writing
<1>3. run' = [run EXCEPT !.pc = "calling"] /\ UNCHANGED local
  BY DEF Call
<1>4. /\ run' \in Runs /\ run'.pc = "calling" /\ run'.task = run.task
      /\ run'.write = run.write /\ run'.due = run.due /\ run'.then = run.then
      /\ run'.retry = run.retry
  <2>1. run \in Runs /\ "calling" \in Words
    BY <1>1 DEF TypeInv, Words
  <2> QED
    BY <1>3, <2>1 DEF Runs
<1>5. ~run.retry /\ <<run.task, "calling">> \in Places
  BY <1>1, <1>2 DEF ControlInv, Places, Phases
<1> QED
  BY <1>3, <1>4, <1>5, MoveInv

\* What a phase knows before it has recorded its result.
LEMMA PhaseState ==
    ASSUME IInv, run.task \in Phases, run.pc \in Ahead
    PROVE  /\ Aim = run.pc /\ ~Writing /\ Good(local.state) /\ ~Terminal(local.state)
           /\ Current(local.state) \in Expected(run.task)
<1>1. TypeInv /\ LocalInv /\ PhaseInv
  BY DEF IInv
<1>2. Aim = run.pc /\ ~Writing
  BY DEF Aim, Writing, Ahead
<1>3. local.state # Nothing /\ Good(local.state)
  BY <1>1 DEF LocalInv, TypeInv
<1> QED
  BY <1>1, <1>2, <1>3 DEF PhaseInv

LEMMA PreparedInv == ASSUME IInv, Prepared PROVE IInv'
<1>1. /\ run.pc = "preparing"
      /\ UNCHANGED <<clock, aborted, state, stray, saved, file, lapses>>
  BY DEF Prepared, World, Files
<1>2. TypeInv /\ ControlInv /\ StrayInv /\ FileInv
  BY DEF IInv
<1>3. Aim = "preparing" /\ ~Writing /\ run.task \in Phases
  BY <1>1, <1>2 DEF Aim, Writing, ControlInv, Places, Phases
<1>4. /\ Good(local.state) /\ ~Terminal(local.state)
      /\ Current(local.state) \in Expected(run.task)
  BY <1>1, <1>3, PhaseState DEF Ahead
<1>5. stray = NoStray /\ (lapses = {} => file = saved.trace)
  BY <1>1, <1>2, <1>3 DEF StrayInv, FileInv
<1>6. CASE Call
  BY <1>1, <1>3, <1>6, CallInv
<1>7. CASE Throw
  BY <1>1, <1>3, <1>5, <1>7, ThrowInv
<1>8. CASE Becomes(Cancel(local.state))
  <2> DEFINE s == Cancel(local.state)
  <2>1. Good(s) /\ Grows(local.state, s)
    BY <1>4, CancelEnds
  <2>2. local' = [local EXCEPT !.state = s] /\ Record(s)
    BY <1>8 DEF Becomes
  <2> HIDE DEF s
  <2> QED
    BY <1>1, <1>3, <1>5, <2>1, <2>2, RecordInv
<1>9. CASE run.task = "execute" /\ Becomes(WorkerResult(local.state, "failed"))
  <2> DEFINE s == WorkerResult(local.state, "failed")
  <2>1. Updatable(local.state, {"todo_generated"})
    BY <1>4, <1>9 DEF Updatable, Expected
  <2>2. Good(s) /\ Grows(local.state, s)
    BY <1>4, <2>1, WorkerGood
  <2>3. local' = [local EXCEPT !.state = s] /\ Record(s)
    BY <1>9 DEF Becomes
  <2> HIDE DEF s
  <2> QED
    BY <1>1, <1>3, <1>5, <2>2, <2>3, RecordInv
<1> QED
  BY <1>6, <1>7, <1>8, <1>9 DEF Prepared, PrepareGeneration, PrepareExecution, PrepareReview

LEMMA GenerationJudgedInv == ASSUME IInv, GenerationJudged PROVE IInv'
<1>1. /\ run.pc = "judging"
      /\ UNCHANGED <<clock, aborted, state, stray, saved, file, lapses>>
  BY DEF GenerationJudged, World, Files
<1>2. TypeInv /\ ControlInv /\ StrayInv /\ FileInv
  BY DEF IInv
<1>3. Aim = "judging" /\ ~Writing /\ run.task = "generate" /\ run.task \in Phases
  BY <1>1, <1>2 DEF Aim, Writing, ControlInv, Places, Phases
<1>4. stray = NoStray /\ (lapses = {} => file = saved.trace)
  BY <1>1, <1>2, <1>3 DEF StrayInv, FileInv
<1>5. CASE Throw
  BY <1>1, <1>3, <1>4, <1>5, ThrowInv
<1>6. CASE Updatable(local.state, {"pending"}) /\ Becomes(GeneratedTodo(local.state))
  <2> DEFINE s == GeneratedTodo(local.state)
  <2>1. Good(s) /\ Grows(local.state, s)
    BY <1>1, <1>3, <1>6, PhaseState, GeneratedGood DEF Ahead
  <2>2. local' = [local EXCEPT !.state = s] /\ Record(s)
    BY <1>6 DEF Becomes
  <2> HIDE DEF s
  <2> QED
    BY <1>1, <1>3, <1>4, <2>1, <2>2, RecordInv
<1> QED
  BY <1>5, <1>6 DEF GenerationJudged

LEMMA ExecutionEndsInv == ASSUME IInv, NEW outcome, ExecutionEnds(outcome) PROVE IInv'
<1>1. /\ run.pc = "calling" /\ run.task = "execute" /\ run.task \in Phases
      /\ Updatable(local.state, {"todo_generated"})
      /\ Becomes(WorkerResult(local.state, outcome))
      /\ UNCHANGED <<clock, aborted, state, stray, saved, file, lapses>>
  BY DEF ExecutionEnds, World, Files, Phases
<1>2. StrayInv /\ Aim = "calling"
  BY <1>1 DEF IInv, Aim, Writing
<1>3. stray = NoStray
  BY <1>1, <1>2 DEF StrayInv
<1> DEFINE s == WorkerResult(local.state, outcome)
<1>4. Good(s) /\ Grows(local.state, s)
  BY <1>1, PhaseState, WorkerGood DEF Ahead
<1>5. local' = [local EXCEPT !.state = s] /\ Record(s)
  BY <1>1 DEF Becomes
<1> HIDE DEF s
<1> QED
  BY <1>1, <1>3, <1>4, <1>5, RecordInv

LEMMA ReviewSettledInv == ASSUME IInv, ReviewSettled PROVE IInv'
<1>1. /\ run.pc = "settling"
      /\ UNCHANGED <<clock, aborted, state, stray, saved, file, lapses>>
  BY DEF ReviewSettled, World, Files
<1>2. TypeInv /\ ControlInv /\ StrayInv
  BY DEF IInv
<1>3. Aim = "settling" /\ ~Writing /\ run.task = "review" /\ run.task \in Phases
  BY <1>1, <1>2 DEF Aim, Writing, ControlInv, Places, Phases
<1>4. Good(local.state) /\ ~Terminal(local.state)
  BY <1>1, <1>3, PhaseState DEF Ahead
<1>5. stray # NoStray => run.outcome = "lost"
  BY <1>2, <1>3 DEF StrayInv
<1>6. CASE Becomes(Cancel(local.state))
  <2> DEFINE s == Cancel(local.state)
  <2>1. Good(s) /\ Terminal(s) /\ Grows(local.state, s)
    BY <1>4, CancelEnds
  <2>2. local' = [local EXCEPT !.state = s] /\ Record(s)
    BY <1>6 DEF Becomes
  <2> HIDE DEF s
  <2> QED
    BY <1>1, <1>3, <2>1, <2>2, RecordInv
<1>7. CASE /\ Updatable(local.state, Reviewable)
           /\ Record(ReviewerResult(local.state, "failed")) /\ UNCHANGED local
  <2> DEFINE s == ReviewerResult(local.state, "failed")
  <2>1. Good(s) /\ Grows(local.state, s)
    BY <1>4, <1>7, VerdictGood
  <2>2. Terminal(s)
    BY <1>4 DEF ReviewerResult, Ended, Traced, Terminal, Good, States
  <2>3. Record(s) /\ local' = local
    BY <1>7
  <2> HIDE DEF s
  <2> QED
    BY <1>1, <1>3, <2>1, <2>2, <2>3, RecordInv
<1>8. CASE /\ run.outcome \in Decisions /\ Updatable(local.state, Reviewable)
           /\ Becomes(ReviewerResult(local.state, Enforced(local.state, run.outcome)))
  <2> DEFINE decision == Enforced(local.state, run.outcome)
             s == ReviewerResult(local.state, decision)
  <2>1. /\ decision \in {"complete", "incomplete", "blocked", "failed"}
        /\ decision = "complete" => Len(local.state.iterations) >= local.state.min
    <3>1. Len(local.state.iterations) \in Nat /\ local.state.min \in Nat
      BY <1>4 DEF Good, States
    <3> QED
      BY <1>8, <3>1 DEF Decisions, Enforced
  <2> HIDE DEF decision
  <2>2. Good(s) /\ Grows(local.state, s)
    BY <1>4, <1>8, <2>1, VerdictGood
  <2>3. local' = [local EXCEPT !.state = s] /\ Record(s)
    BY <1>8 DEF Becomes, decision
  <2>4. stray = NoStray
    BY <1>5, <1>8 DEF Decisions
  <2> HIDE DEF s
  <2> QED
    BY <1>1, <1>3, <2>2, <2>3, <2>4, RecordInv
<1> QED
  BY <1>6, <1>7, <1>8 DEF ReviewSettled

-----------------------------------------------------------------------------
(* What is recorded about the network.                                      *)
\* Where a phase is while its call is under way, or the network is away.
LEMMA AwayFacts ==
    ASSUME IInv, run.task \in Phases, Aim \in {"calling", "recovering"}
    PROVE  /\ run.pc \in {"calling", "recovering"} \/ (Writing /\ run.then = "recovering")
           /\ stray = NoStray
           /\ Good(local.state) /\ ~Terminal(local.state)
           /\ Current(local.state) \in Expected(run.task)
           /\ local.base \in Nat /\ local.base <= Len(local.state.trace)
           /\ run.pc # "saving" => saved = local.state
           /\ run.pc = "saving" => run.write = local.state
           /\ saved # Nothing /\ state # Nothing
           /\ lapses = {} => /\ local.base = Len(file)
                             /\ Starts(file, saved.trace) /\ Starts(file, local.state.trace)
<1>1. TypeInv /\ ControlInv /\ LocalInv /\ PhaseInv /\ StrayInv /\ SyncInv /\ FileInv
  BY DEF IInv
<1>2. run.pc \in {"calling", "recovering"} \/ (Writing /\ run.then = "recovering")
  <2>1. CASE Writing
    <3>1. Aim = run.then /\ <<run.task, Aim>> \in Written
      BY <1>1, <2>1 DEF Aim, ControlInv
    <3> QED
      BY <2>1, <3>1 DEF Written
  <2> QED
    BY <2>1 DEF Aim
<1>3. stray = NoStray
  BY <1>1 DEF StrayInv
<1>4. Good(local.state) /\ local.base \in Nat /\ local.base <= Len(local.state.trace)
  BY <1>1 DEF LocalInv, TypeInv, Locals
<1>5. ~Terminal(local.state) /\ Current(local.state) \in Expected(run.task)
  BY <1>1 DEF PhaseInv, Ahead
<1>6. /\ run.pc # "saving" => saved = local.state
      /\ Writing => run.write = local.state
      /\ saved # Nothing /\ state # Nothing
  BY <1>1 DEF SyncInv, Ahead, Phases
<1>7. ASSUME lapses = {}
      PROVE  /\ local.base = Len(file)
             /\ Starts(file, saved.trace) /\ Starts(file, local.state.trace)
  <2>1. local.base = Len(file) /\ Starts(file, saved.trace)
    <3>1. run.pc \in Ahead \/ Aim = "recovering"
      BY <1>2 DEF Aim, Ahead
    <3> QED
      BY <1>1, <1>6, <1>7, <3>1 DEF FileInv
  <2>2. Starts(file, local.state.trace)
    BY <1>1, <1>6, <1>7, <2>1 DEF FileInv, Writing
  <2> QED
    BY <2>1, <2>2
<1> QED
  BY <1>2, <1>3, <1>4, <1>5, <1>6, <1>7 DEF Writing

\* The phase goes on to persist s, which is its state with or without one more record
\* about the network.
LEMMA KeepsInv ==
    ASSUME IInv, UNCHANGED <<clock, aborted, state, saved, file>>,
           run.task \in Phases, Aim \in {"calling", "recovering"},
           NEW s, Good(s), ~Terminal(s), Current(s) = Current(local.state),
           s = local.state \/ Keeps(local.state, s),
           lapses' = lapses \/ lapses' = lapses \union {"stray"},
           run' \in Runs, run'.pc = "saving", run'.write = s, run'.due = From(s, local.base),
           run'.task = run.task, <<run.task, run'.then>> \in Written,
           run'.then \in {"judging", "recovering", "settling"},
           run'.retry => run.task = "review" /\ run'.then = "recovering",
           run'.then = "recovering" =>
              run.pc = "calling" /\ Len(s.trace) = Len(local.state.trace) + 1,
           local' = [local EXCEPT !.state = s],
           \/ stray' = stray
           \/ /\ run'.then = "settling" /\ run'.task = "review" /\ run'.outcome = "lost"
              /\ stray' = [pc |-> run.pc, write |-> run.write, due |-> run.due]
              /\ run.pc = "calling" \/ (Writing /\ "stray" \in lapses')
    PROVE  IInv'
<1>1. TypeInv /\ ControlInv /\ LocalInv /\ BaseInv /\ PhaseInv /\ SyncInv /\ GrowthInv
      /\ FileInv
  BY DEF IInv
<1>2. /\ run.pc \in {"calling", "recovering"} \/ (Writing /\ run.then = "recovering")
      /\ stray = NoStray
      /\ Good(local.state) /\ Current(local.state) \in Expected(run.task)
      /\ local.base \in Nat /\ local.base <= Len(local.state.trace)
      /\ run.pc # "saving" => saved = local.state
      /\ run.pc = "saving" => run.write = local.state
      /\ saved # Nothing /\ state # Nothing
      /\ lapses = {} => /\ local.base = Len(file)
                        /\ Starts(file, saved.trace) /\ Starts(file, local.state.trace)
  BY AwayFacts
<1>3. /\ s # Nothing /\ s \in Maybe /\ s.trace \in Seq(Words) /\ local.state.trace \in Seq(Words)
      /\ Len(s.trace) \in Nat /\ Len(local.state.trace) \in Nat
  BY <1>2, GoodState
<1>4. Starts(local.state.trace, s.trace) /\ Len(local.state.trace) <= Len(s.trace)
  BY <1>3 DEF Keeps, Starts
<1>5. local' \in Locals /\ local'.base = local.base /\ local'.state = s
  BY <1>1, <1>3 DEF TypeInv, Locals
<1>6. Aim' = run'.then /\ Writing'
  BY DEF Aim, Writing
<1>7. TypeInv'
  <2>1. stray' \in Strays /\ (stray'.write = Nothing \/ Good(stray'.write))
    BY <1>1 DEF TypeInv, Strays, Runs
  <2> QED
    BY <1>1, <1>5, <2>1 DEF TypeInv
<1>8. BaseInv'
  <2>1. run.pc = "calling" => local.base = Len(local.state.trace)
    BY <1>1 DEF BaseInv, Ahead
  <2> QED
    BY <1>3, <1>5, <1>6, <2>1 DEF BaseInv, Ahead
<1>9. ControlInv'
  <2>1. run'.then = "recovering" => run'.due # <<>>
    <3> SUFFICES ASSUME run'.then = "recovering" PROVE From(s, local.base) # <<>>
      OBVIOUS
    <3>1. local.base < Len(s.trace)
      BY <1>2, <1>3
    <3> QED
      BY <1>2, <1>3, <3>1, FromFacts
  <2> QED
    BY <1>3, <1>6, <2>1 DEF ControlInv, Places, Written
<1>10. LocalInv'
  BY <1>2, <1>3, <1>4, <1>5 DEF LocalInv
<1>11. PhaseInv'
  BY <1>2, <1>5, <1>6 DEF PhaseInv, Ahead
<1>12. StrayInv'
  <2> SUFFICES ASSUME stray' # NoStray PROVE StrayInv'
    BY DEF StrayInv
  <2>1. /\ run'.then = "settling" /\ run'.task = "review" /\ run'.outcome = "lost"
        /\ stray' = [pc |-> run.pc, write |-> run.write, due |-> run.due]
        /\ run.pc = "calling" \/ (Writing /\ "stray" \in lapses')
    BY <1>2
  <2>2. stray'.pc = run.pc /\ stray'.write = run.write /\ stray'.due = run.due
    BY <2>1
  <2>3. CASE run.pc = "calling"
    BY <1>6, <2>1, <2>2, <2>3 DEF StrayInv
  <2>4. CASE Writing /\ "stray" \in lapses'
    <3>1. Aim = "recovering" /\ run.pc \in {"saving", "appending"}
      BY <1>2, <2>4 DEF Writing, Aim
    <3>2. run.due # <<>> /\ run.write # Nothing
      BY <1>1, <2>4, <3>1 DEF ControlInv
    <3> QED
      BY <1>6, <2>1, <2>2, <2>4, <3>1, <3>2 DEF StrayInv
  <2> QED
    BY <2>1, <2>3, <2>4
<1>13. SyncInv'
  BY <1>2, <1>5, <1>6 DEF SyncInv, Phases, Ahead
<1>14. GrowthInv'
  <2> SUFFICES ASSUME lapses' \subseteq {"gap"} PROVE s = saved \/ Keeps(saved, s)
    BY <1>6 DEF GrowthInv
  <2>1. CASE run.pc # "saving"
    BY <1>2, <2>1
  <2>2. CASE run.pc = "saving"
    <3>1. local.state = saved \/ Keeps(saved, local.state)
      <4>1. lapses \subseteq {"gap"} /\ Aim = "recovering"
        BY <1>2, <2>2 DEF Aim, Writing
      <4> QED
        BY <1>1, <1>2, <2>2, <4>1 DEF GrowthInv
    <3>2. Good(saved)
      BY <1>1, <1>2 DEF TypeInv
    <3> QED
      BY <1>2, <3>1, <3>2, KeepsOn
  <2> QED
    BY <2>1, <2>2
<1>15. FileInv'
  <2> SUFFICES ASSUME lapses' = {} PROVE FileInv'
    BY DEF FileInv
  <2>1. /\ lapses = {} /\ local.base = Len(file)
        /\ Starts(file, saved.trace) /\ Starts(file, local.state.trace)
    BY <1>2
  <2>2. Starts(file, s.trace)
    <3>1. file \in Seq(Words) /\ Len(file) \in Nat
      BY <1>1 DEF TypeInv
    <3> QED
      BY <1>3, <1>4, <2>1, <3>1 DEF Starts
  <2> QED
    BY <1>2, <1>5, <1>6, <2>1, <2>2 DEF FileInv, Ahead
<1> QED
  BY <1>7, <1>8, <1>9, <1>10, <1>11, <1>12, <1>13, <1>14, <1>15 DEF IInv

\* The reviewer's session is over.
LEMMA SessionInv ==
    ASSUME IInv, UNCHANGED <<clock, aborted, state, saved, file>>,
           run.task = "review", Aim \in {"calling", "recovering"},
           NEW outcome \in Words, SessionOver(outcome, local),
           lapses' = lapses \/ lapses' = lapses \union {"stray"},
           \/ stray' = stray
           \/ /\ outcome = "lost"
              /\ stray' = [pc |-> run.pc, write |-> run.write, due |-> run.due]
              /\ run.pc = "calling" \/ (Writing /\ "stray" \in lapses')
    PROVE  IInv'
<1> DEFINE s == Excluded(local.state, run.outage)
           over == [run EXCEPT !.pc = "settling", !.outcome = outcome, !.outage = 0,
                               !.retry = FALSE, !.write = Nothing, !.due = <<>>]
<1>1. TypeInv /\ ControlInv /\ LocalInv /\ BaseInv /\ PhaseInv /\ FileInv
  BY DEF IInv
<1>2. run.task \in Phases
  BY DEF Phases
<1>3. /\ run.pc \in {"calling", "recovering"} \/ (Writing /\ run.then = "recovering")
      /\ stray = NoStray
      /\ Good(local.state) /\ ~Terminal(local.state)
      /\ Current(local.state) \in Expected(run.task)
      /\ local.base \in Nat /\ local.base <= Len(local.state.trace)
      /\ run.pc # "saving" => saved = local.state
      /\ saved # Nothing /\ state # Nothing
      /\ lapses = {} => /\ local.base = Len(file)
                        /\ Starts(file, saved.trace) /\ Starts(file, local.state.trace)
  BY <1>2, AwayFacts
<1>4. run \in Runs /\ run.outage \in Nat
  BY <1>1 DEF TypeInv, Runs
<1>5. /\ over \in Runs /\ over.pc = "settling" /\ over.task = "review"
      /\ over.write = Nothing /\ over.due = <<>> /\ over.then = run.then
      /\ over.outcome = outcome /\ over.outage = 0 /\ over.retry = FALSE
  <2>1. "settling" \in Words /\ Nothing \in Maybe /\ <<>> \in Seq(Words)
    BY DEF Words, Maybe
  <2> QED
    BY <1>4, <2>1 DEF Runs
<1>6. /\ Good(s) /\ ~Terminal(s) /\ Current(s) = Current(local.state)
      /\ s = local.state \/ Keeps(local.state, s)
  BY <1>3, <1>4, ExcludedGood
<1>7. /\ local' = [local EXCEPT !.state = s]
      /\ IF Len(s.trace) = local.base THEN run' = over
         ELSE Persist(over, s, local.base, "settling")
  BY DEF SessionOver
<1> HIDE DEF s, over
<1>8. CASE Len(s.trace) # local.base
  <2>1. Writes(run', over, s, local.base, "settling")
    <3>1. "settling" \in Words
      BY DEF Words
    <3>2. run' = [over EXCEPT !.pc = "saving", !.write = s, !.due = From(s, local.base),
                            !.then = "settling"]
      BY <1>7, <1>8 DEF Persist
    <3> QED
      BY ONLY <1>3, <1>5, <1>6, <1>7, <3>1, <3>2, PersistWrites
  <2>2. /\ run' \in Runs /\ run'.pc = "saving" /\ run'.write = s
        /\ run'.due = From(s, local.base) /\ run'.then = "settling"
        /\ run'.task = "review" /\ run'.outcome = outcome /\ run'.retry = FALSE
    BY <1>5, <2>1 DEF Writes
  <2>3. <<run.task, run'.then>> \in Written
    BY <2>2 DEF Written
  <2> QED
    BY <1>2, <1>6, <1>7, <2>2, <2>3, KeepsInv
<1>9. CASE Len(s.trace) = local.base
  <2>1. s = local.state /\ Len(local.state.trace) = local.base
    <3>1. Len(local.state.trace) \in Nat /\ Len(s.trace) \in Nat
      BY <1>3, <1>6, GoodState
    <3>2. Keeps(local.state, s) => Len(local.state.trace) < Len(s.trace)
      BY DEF Keeps
    <3> QED
      BY <1>3, <1>6, <1>9, <3>1, <3>2
  <2>2. run.pc \in {"calling", "recovering"} /\ ~Writing /\ run.then = "none"
    <3>1. Writing => Aim = run.then
      BY DEF Aim
    <3>2. ~(Writing /\ Aim = "recovering")
      BY <1>1, <1>3, <2>1 DEF BaseInv
    <3> QED
      BY <1>1, <1>3, <3>1, <3>2 DEF ControlInv, Writing
  <2>3. run' = over /\ local' \in Locals /\ local'.state = local.state /\ local'.base = local.base
    BY <1>1, <1>7, <1>9, <2>1 DEF TypeInv, Locals
  <2>4. /\ run' \in Runs /\ run'.pc = "settling" /\ run'.task = "review"
        /\ run'.write = Nothing /\ run'.due = <<>> /\ run'.then = "none"
        /\ run'.outcome = outcome /\ run'.retry = FALSE
    BY <1>5, <2>2, <2>3
  <2>5. Aim' = "settling" /\ ~Writing'
    BY <2>4 DEF Aim, Writing
  <2>6. saved = local.state
    BY <1>3, <2>2
  <2>7. TypeInv'
    <3>1. stray' \in Strays /\ (stray'.write = Nothing \/ Good(stray'.write))
      BY <1>1 DEF TypeInv, Strays, Runs
    <3> QED
      BY <1>1, <2>3, <2>4, <3>1 DEF TypeInv
  <2>8. ControlInv' /\ LocalInv' /\ BaseInv'
    <3>1. local.state # Nothing
      BY <1>3, GoodState
    <3> QED
      BY <1>3, <2>3, <2>4, <2>5, <3>1 DEF ControlInv, Places, LocalInv, BaseInv, Phases
  <2>9. PhaseInv'
    BY <1>3, <2>3, <2>4 DEF PhaseInv
  <2>10. StrayInv'
    <3> SUFFICES ASSUME stray' # NoStray PROVE StrayInv'
      BY DEF StrayInv
    <3>1. outcome = "lost" /\ stray'.pc = "calling"
      BY <1>3, <2>2
    <3> QED
      BY <2>4, <2>5, <3>1 DEF StrayInv
  <2>11. SyncInv' /\ GrowthInv'
    BY <1>3, <2>3, <2>4, <2>5, <2>6 DEF SyncInv, GrowthInv, Phases, Ahead
  <2>12. FileInv'
    <3>1. lapses' = {} => lapses = {} /\ file = saved.trace
      BY <1>1, <1>3, <2>2 DEF FileInv
    <3> QED
      BY <1>3, <2>3, <2>4, <2>5, <3>1 DEF FileInv
  <2> QED
    BY <2>7, <2>8, <2>9, <2>10, <2>11, <2>12 DEF IInv
<1> QED
  BY <1>8, <1>9

LEMMA ReviewEndsInv ==
    ASSUME IInv, NEW outcome \in Decisions \union {"aborted", "error", "lost"},
           ReviewEnds(outcome)
    PROVE  IInv'
<1>1. outcome \in Words
  BY DEF Decisions, Words
<1>2. /\ run.pc = "calling" /\ run.task = "review" /\ SessionOver(outcome, local)
      /\ UNCHANGED <<clock, aborted, state, stray, saved, file, lapses>>
  BY DEF ReviewEnds, World, Files
<1>3. Aim = "calling"
  BY <1>2 DEF Aim, Writing
<1> QED
  BY <1>1, <1>2, <1>3, SessionInv

LEMMA ReviewGivenUpInv == ASSUME IInv, ReviewGivenUp PROVE IInv'
<1>1. /\ run.pc = "recovering" /\ SessionOver("lost", local)
      /\ UNCHANGED <<clock, aborted, state, stray, saved, file, lapses>>
  BY DEF ReviewGivenUp, World, Files
<1>2. Aim = "recovering" /\ run.task = "review"
  BY <1>1 DEF Aim, Writing, IInv, ControlInv, Places
<1>3. "lost" \in Words
  BY DEF Words
<1> QED
  BY <1>1, <1>2, <1>3, SessionInv

LEMMA ReviewAbandonedInv == ASSUME IInv, ReviewAbandoned PROVE IInv'
<1>1. /\ run.retry /\ (run.pc = "calling" \/ run.then = "recovering")
      /\ SessionOver("lost", local)
      /\ stray' = [pc |-> run.pc, write |-> run.write, due |-> run.due]
      /\ lapses' = IF run.pc = "calling" THEN lapses ELSE lapses \union {"stray"}
      /\ UNCHANGED <<clock, aborted, state, saved, file>>
  BY DEF ReviewAbandoned, World
<1>2. ControlInv
  BY DEF IInv
<1>3. run.task = "review" /\ Aim \in {"calling", "recovering"}
  BY <1>1, <1>2 DEF ControlInv
<1>4. run.pc = "calling" \/ (Writing /\ "stray" \in lapses')
  BY <1>1, <1>2 DEF ControlInv
<1>5. "lost" \in Words
  BY DEF Words
<1> QED
  BY <1>1, <1>3, <1>4, <1>5, SessionInv

LEMMA ReviewInterruptedInv == ASSUME IInv, ReviewInterrupted PROVE IInv'
<1> DEFINE s == Interrupted(local.state)
<1>1. /\ run.pc = "calling" /\ run.task = "review" /\ run.task \in Phases
      /\ local' = [local EXCEPT !.state = s]
      /\ Persist(run, s, local.base, "recovering")
      /\ UNCHANGED <<clock, aborted, state, stray, saved, file, lapses>>
  BY DEF ReviewInterrupted, World, Files, Phases
<1>2. TypeInv /\ ControlInv
  BY DEF IInv
<1>3. Aim = "calling"
  BY <1>1 DEF Aim, Writing
<1>4. Good(local.state) /\ ~Terminal(local.state) /\ local.base \in Nat
  BY <1>1, <1>3, AwayFacts
<1>5. /\ Good(s) /\ ~Terminal(s) /\ Keeps(local.state, s)
      /\ Current(s) = Current(local.state) /\ Len(s.trace) = Len(local.state.trace) + 1
  BY <1>4, InterruptedGood
<1> HIDE DEF s
<1>6. Writes(run', run, s, local.base, "recovering")
  <2>1. run \in Runs /\ "recovering" \in Words
    BY <1>2 DEF TypeInv, Words
  <2> QED
    BY <1>1, <1>4, <1>5, <2>1, PersistWrites DEF Persist
<1>7. /\ run' \in Runs /\ run'.pc = "saving" /\ run'.write = s
      /\ run'.due = From(s, local.base) /\ run'.then = "recovering"
      /\ run'.task = run.task
  BY <1>6 DEF Writes
<1>8. <<run.task, run'.then>> \in Written
  BY <1>1, <1>7 DEF Written
<1> QED
  BY <1>1, <1>3, <1>5, <1>7, <1>8, KeepsInv

LEMMA ReviewRetriedInv == ASSUME IInv, ReviewRetried PROVE IInv'
<1>1. /\ run.pc = "recovering" /\ run' = [run EXCEPT !.pc = "calling", !.retry = TRUE]
      /\ UNCHANGED <<clock, aborted, state, local, stray, saved, file, lapses>>
  BY DEF ReviewRetried, World, Files
<1>2. run.task = "review" /\ run \in Runs
  BY <1>1 DEF IInv, TypeInv, ControlInv, Aim, Writing, Places
<1>3. /\ run' \in Runs /\ run'.pc = "calling" /\ run'.task = run.task
      /\ run'.write = run.write /\ run'.due = run.due /\ run'.then = run.then
  <2>1. "calling" \in Words
    BY DEF Words
  <2> QED
    BY <1>1, <1>2, <2>1 DEF Runs
<1>4. <<run.task, run'.pc>> \in Places /\ run.task \in Phases
  BY <1>2, <1>3 DEF Places, Phases
<1> QED
  BY <1>1, <1>2, <1>3, <1>4, MoveInv

LEMMA GenerationEndsInv ==
    ASSUME IInv, NEW outcome \in {"ok", "fails"}, GenerationEnds(outcome)
    PROVE  IInv'
<1> DEFINE judged == [run EXCEPT !.pc = "judging", !.outcome = outcome]
           s == Excluded(local.state, run.outage)
<1>1. /\ run.pc = "calling" /\ run.task = "generate" /\ run.task \in Phases
      /\ IF run.outage = 0 THEN run' = judged /\ UNCHANGED local
         ELSE /\ local' = [local EXCEPT !.state = s]
              /\ Persist(judged, s, local.base, "judging")
      /\ UNCHANGED <<clock, aborted, state, stray, saved, file, lapses>>
  BY DEF GenerationEnds, World, Files, Phases
<1>2. TypeInv /\ ControlInv
  BY DEF IInv
<1>3. Aim = "calling" /\ ~run.retry
  BY <1>1, <1>2 DEF Aim, Writing, ControlInv
<1>4. run \in Runs /\ run.outage \in Nat
  BY <1>2 DEF TypeInv, Runs
<1>5. /\ judged \in Runs /\ judged.pc = "judging" /\ judged.task = run.task
      /\ judged.write = run.write /\ judged.due = run.due /\ judged.then = run.then
      /\ judged.retry = run.retry
  BY <1>4 DEF Runs, Words
<1>6. Good(local.state) /\ ~Terminal(local.state) /\ local.base \in Nat
  BY <1>1, <1>3, AwayFacts
<1>7. /\ Good(s) /\ ~Terminal(s) /\ Current(s) = Current(local.state)
      /\ s = local.state \/ Keeps(local.state, s)
  BY <1>4, <1>6, ExcludedGood
<1> HIDE DEF judged, s
<1>8. CASE run.outage = 0
  <2>1. <<run.task, "judging">> \in Places
    BY <1>1 DEF Places
  <2> QED
    BY <1>1, <1>3, <1>5, <1>8, <2>1, MoveInv
<1>9. CASE run.outage # 0
  <2>1. Writes(run', judged, s, local.base, "judging")
    <3>1. "judging" \in Words
      BY DEF Words
    <3>2. run' = [judged EXCEPT !.pc = "saving", !.write = s, !.due = From(s, local.base),
                            !.then = "judging"]
      BY <1>1, <1>9 DEF Persist
    <3> QED
      BY ONLY <1>6, <1>5, <1>6, <1>7, <3>1, <3>2, PersistWrites
  <2>2. /\ run' \in Runs /\ run'.pc = "saving" /\ run'.write = s
        /\ run'.due = From(s, local.base) /\ run'.then = "judging"
        /\ run'.task = run.task
    BY <1>5, <2>1 DEF Writes
  <2>3. ~run'.retry
    BY <1>3, <1>5, <2>1 DEF Writes
  <2>4. <<run.task, run'.then>> \in Written
    BY <1>1, <2>2 DEF Written
  <2> QED
    BY <1>1, <1>3, <1>7, <1>9, <2>2, <2>3, <2>4, KeepsInv
<1> QED
  BY <1>8, <1>9

-----------------------------------------------------------------------------
(* The writes.                                                              *)
LEMMA TailFacts ==
    ASSUME NEW q \in Seq(Words), q # <<>>
    PROVE  Tail(q) \in Seq(Words) /\ (Tail(q) = <<>> <=> Len(q) = 1)
<1>1. Len(q) \in Nat /\ Len(q) # 0
  OBVIOUS
<1>2. Tail(q) \in Seq(Words) /\ Len(Tail(q)) = Len(q) - 1
  OBVIOUS
<1>3. ASSUME NEW u \in Seq(Words) PROVE u = <<>> <=> Len(u) = 0
  OBVIOUS
<1> QED
  BY <1>1, <1>2, <1>3

\* One more of the events of s is appended to a file that is now g.
Appended(s, due, g) ==
    /\ Starts(g, s.trace)
    /\ Tail(due) = From(s, Len(g))
    /\ Tail(due) = <<>> <=> Len(g) = Len(s.trace)
    /\ Tail(due) = <<>> => g = s.trace

LEMMA AppendNext ==
    ASSUME NEW f \in Seq(Words), NEW s, s.trace \in Seq(Words), Starts(f, s.trace),
           NEW due, due = From(s, Len(f)), due # <<>>, NEW g, g = Append(f, Head(due))
    PROVE  Appended(s, due, g)
<1> DEFINE t == s.trace
           n == Len(t)
           m == Len(f)
<1>1. m \in Nat /\ n \in Nat /\ m <= n /\ \A i \in 1..m : f[i] = t[i]
  BY DEF Starts
<1>2. due = [i \in 1..(n - m) |-> t[i + m]]
  BY <1>1 DEF From
<1>3. m < n
  <2>1. m = n => due = <<>>
    BY <1>1, <1>2
  <2> QED
    BY <1>1, <2>1
<1>4. due \in Seq(Words) /\ Len(due) = n - m /\ Head(due) = t[m + 1]
  BY <1>1, <1>2, <1>3
<1>5. /\ g \in Seq(Words) /\ Len(g) = m + 1
      /\ \A i \in 1..m : g[i] = f[i]
      /\ g[m + 1] = t[m + 1]
  BY <1>1, <1>3, <1>4
<1>6. Starts(g, t)
  BY <1>1, <1>3, <1>5 DEF Starts
<1>7. Tail(due) = [i \in 1..(n - m - 1) |-> t[i + 1 + m]]
  BY <1>1, <1>2, <1>3, <1>4
<1>8. From(s, m + 1) = [i \in 1..(n - (m + 1)) |-> t[i + (m + 1)]]
  BY <1>1, <1>3 DEF From
<1>9. Tail(due) = From(s, Len(g))
  <2>1. n - (m + 1) = n - m - 1
    BY <1>1
  <2>2. \A i \in 1..(n - m - 1) : t[i + (m + 1)] = t[i + 1 + m]
    <3> SUFFICES ASSUME NEW i \in 1..(n - m - 1) PROVE i + (m + 1) = i + 1 + m
      OBVIOUS
    <3> QED
      BY <1>1
  <2>3. [i \in 1..(n - m - 1) |-> t[i + (m + 1)]] = [i \in 1..(n - m - 1) |-> t[i + 1 + m]]
    BY <2>2
  <2> QED
    BY <1>5, <1>7, <1>8, <2>1, <2>3
<1>10. Tail(due) = <<>> <=> m + 1 = n
  <2>1. Tail(due) = <<>> <=> Len(due) = 1
    BY <1>3, <1>4, TailFacts
  <2> QED
    BY <1>1, <1>4, <2>1
<1>11. m + 1 = n => g = t
  BY <1>1, <1>5, <1>6 DEF Starts
<1> QED
  BY <1>5, <1>6, <1>9, <1>10, <1>11 DEF Appended

\* What is on disk while its events are appended.
LEMMA WhatIsSaved ==
    ASSUME IInv, run.pc = "appending", lapses = {}
    PROVE  saved = run.write
<1>1. ControlInv /\ SyncInv /\ Writing
  BY DEF IInv, Writing
<1>2. <<run.task, Aim>> \in Written
  BY <1>1 DEF ControlInv
<1>3. CASE run.task \in {"start", "stop", "catch"}
  BY <1>1, <1>2, <1>3 DEF SyncInv, Written
<1>4. CASE run.task \in Phases /\ Aim \in {"preparing", "judging", "recovering", "settling"}
  BY <1>1, <1>4 DEF SyncInv, Ahead
<1>5. CASE Aim = "publishing"
  BY <1>1, <1>5 DEF SyncInv
<1> QED
  BY <1>2, <1>3, <1>4, <1>5 DEF Written, Phases

\* The write is done.
LEMMA PersistedInv ==
    ASSUME IInv, Writing, UNCHANGED <<clock, aborted, state, stray, lapses>>,
           run.pc = "saving" => saved' = run.write,
           run.pc = "appending" => saved' = saved,
           file' \in Seq(Words), lapses = {} => file' = run.write.trace,
           run' \in Runs, run'.pc = run.then, run'.due = <<>>, run'.then = "none",
           run'.write = IF run.then = "publishing" THEN run.write ELSE Nothing,
           run'.task = run.task, run'.outcome = run.outcome, run'.retry = run.retry,
           local' = IF run.then \in Rebased
                    THEN [local EXCEPT !.base = Len(local.state.trace)] ELSE local
    PROVE  IInv'
<1>1. TypeInv /\ ControlInv /\ LocalInv /\ BaseInv /\ PhaseInv /\ StrayInv /\ SyncInv
      /\ FileInv
  BY DEF IInv
<1>2. Aim = run.then /\ <<run.task, Aim>> \in Written /\ run.write # Nothing
  BY <1>1 DEF Aim, ControlInv
<1>3. Aim' = Aim /\ ~Writing'
  BY <1>2 DEF Aim, Writing, Written
<1>4. run.then \in Rebased => run.task \in Phases
  BY <1>2 DEF Rebased, Written, Phases
<1>5. run.task \in Phases => /\ local.state # Nothing /\ Good(local.state)
                             /\ local.base <= Len(local.state.trace)
                             /\ Len(local.state.trace) \in Nat
  BY <1>1, GoodState DEF LocalInv, TypeInv
<1>6. /\ local' \in Locals /\ local'.state = local.state
      /\ local'.base = IF run.then \in Rebased THEN Len(local.state.trace) ELSE local.base
      /\ run.then \notin Rebased => local' = local
  BY <1>1, <1>4, <1>5 DEF TypeInv, Locals
<1>7. Good(run.write) /\ saved' # Nothing /\ Good(saved')
  <2>1. run.pc = "appending" => saved # Nothing
    BY <1>1, <1>2 DEF SyncInv, Written
  <2> QED
    BY <1>1, <1>2, <2>1 DEF TypeInv, Writing
<1>8. TypeInv'
  BY <1>1, <1>6, <1>7 DEF TypeInv
<1>9. ControlInv'
  BY <1>1, <1>2, <1>3 DEF ControlInv, Places, Written
<1>10. LocalInv'
  BY <1>1, <1>4, <1>5, <1>6 DEF LocalInv
<1>11. BaseInv' /\ PhaseInv'
  BY <1>1, <1>2, <1>3, <1>6 DEF BaseInv, PhaseInv, Ahead, Rebased, Written
<1>12. StrayInv'
  BY <1>1, <1>2, <1>3 DEF StrayInv
<1>13. SyncInv'
  <2>1. run.task = "start" => saved' = state
    BY <1>1 DEF SyncInv, Writing
  <2>2. run.task \in Phases /\ Aim \in Ahead \ {"settling"} => saved' = local.state
    BY <1>1 DEF SyncInv, Writing
  <2>3. Aim = "settling" /\ "stray" \notin lapses => saved' = local.state
    BY <1>1 DEF SyncInv, Writing
  <2>4. Aim = "publishing" =>
           saved' = run.write \/ (Terminal(run.write) /\ "stray" \in lapses)
    BY <1>1 DEF SyncInv, Writing
  <2>5. Aim = "over" /\ "stray" \notin lapses /\ "unread" \notin lapses => saved' = state
    BY <1>1 DEF SyncInv, Writing
  <2>6. state # Nothing /\ (Aim = "over" => Terminal(state))
    BY <1>1, <1>2 DEF SyncInv, Written
  <2> QED
    BY <1>2, <1>3, <1>6, <1>7, <2>1, <2>2, <2>3, <2>4, <2>5, <2>6 DEF SyncInv, Written
<1>14. GrowthInv'
  BY <1>2, <1>3 DEF GrowthInv, Writing
<1>15. FileInv'
  <2> SUFFICES ASSUME lapses = {} PROVE FileInv'
    BY DEF FileInv
  <2>1. saved' = run.write
    BY WhatIsSaved DEF Writing
  <2>2. file' = saved'.trace /\ Starts(file', saved'.trace)
    BY <1>7, <2>1, GoodState DEF Starts
  <2>3. run.then \in Rebased => local.state = saved'
    BY <1>1, <1>2, <1>4, <2>1 DEF SyncInv, Rebased, Ahead
  <2>4. run'.pc \in Ahead \/ Aim = "recovering" => run.then \in Rebased
    BY <1>2 DEF Ahead, Rebased, Written
  <2> QED
    BY <1>3, <1>6, <1>7, <2>2, <2>3, <2>4 DEF FileInv
<1> QED
  BY <1>8, <1>9, <1>10, <1>11, <1>12, <1>13, <1>14, <1>15 DEF IInv

\* The effect of Persisted.
Done(r, w) ==
    /\ w \in Runs /\ w.pc = r.then /\ w.due = <<>> /\ w.then = "none"
    /\ w.write = IF r.then = "publishing" THEN r.write ELSE Nothing
    /\ w.task = r.task /\ w.outcome = r.outcome /\ w.retry = r.retry

LEMMA PersistedDone ==
    ASSUME NEW r \in Runs
    PROVE  Done(r, [r EXCEPT !.pc = r.then, !.due = <<>>, !.then = "none",
                             !.write = IF r.then = "publishing" THEN @ ELSE Nothing])
<1>1. Nothing \in Maybe /\ <<>> \in Seq(Words) /\ "none" \in Words
  BY DEF Maybe, Words
<1> QED
  BY <1>1 DEF Done, Runs

LEMMA SaveInv == ASSUME IInv, Save PROVE IInv'
<1>1. TypeInv /\ ControlInv /\ LocalInv /\ BaseInv /\ PhaseInv /\ StrayInv /\ SyncInv
      /\ FileInv
  BY DEF IInv
<1>2. /\ run.pc = "saving" /\ saved' = run.write
      /\ UNCHANGED <<clock, aborted, state, stray, file, lapses>>
  BY DEF Save, World
<1>3. Writing /\ Aim = run.then /\ run \in Runs /\ file \in Seq(Words)
  BY <1>1, <1>2 DEF Writing, Aim, TypeInv
<1>4. /\ <<run.task, Aim>> \in Written /\ run.write # Nothing /\ Good(run.write)
      /\ run.write.trace \in Seq(Words) /\ Len(run.write.trace) \in Nat
  BY <1>1, <1>3, GoodState DEF ControlInv, TypeInv
<1>5. lapses = {} => Starts(file, run.write.trace) /\ run.due = From(run.write, Len(file))
  BY <1>1, <1>3 DEF FileInv
<1>6. CASE run.due = <<>>
  <2>1. Done(run, run')
    BY <1>2, <1>3, <1>6, PersistedDone DEF Save, Persisted
  <2>2. local' = IF run.then \in Rebased
                 THEN [local EXCEPT !.base = Len(local.state.trace)] ELSE local
    BY <1>6 DEF Save, Persisted
  <2>3. lapses = {} => file = run.write.trace
    <3> SUFFICES ASSUME lapses = {} PROVE file = run.write.trace
      OBVIOUS
    <3>1. Len(file) \in Nat /\ Len(run.write.trace) <= Len(file)
      BY <1>3, <1>4, <1>5, <1>6, FromFacts
    <3> QED
      BY <1>3, <1>4, <1>5, <3>1 DEF Starts
  <2> QED
    BY <1>2, <1>3, <2>1, <2>2, <2>3, PersistedInv DEF Done
<1>7. CASE run.due # <<>>
  <2>1. run' = [run EXCEPT !.pc = "appending"] /\ UNCHANGED local
    BY <1>7 DEF Save
  <2>2. /\ run' \in Runs /\ run'.pc = "appending" /\ run'.task = run.task
        /\ run'.write = run.write /\ run'.due = run.due /\ run'.then = run.then
        /\ run'.outcome = run.outcome /\ run'.retry = run.retry
    BY <1>3, <2>1 DEF Runs, Words
  <2>3. Aim' = Aim /\ Writing'
    BY <1>3, <2>2 DEF Aim, Writing
  <2>4. TypeInv'
    BY <1>1, <1>2, <1>4, <2>1, <2>2 DEF TypeInv
  <2>5. ControlInv' /\ LocalInv' /\ PhaseInv'
    BY <1>1, <1>2, <1>3, <1>7, <2>1, <2>2, <2>3 DEF ControlInv, LocalInv, PhaseInv
  <2>6. BaseInv' /\ StrayInv'
    BY <1>1, <1>2, <1>3, <2>1, <2>2, <2>3 DEF BaseInv, StrayInv, Ahead
  <2>7. SyncInv' /\ GrowthInv'
    BY <1>1, <1>2, <1>3, <1>4, <2>1, <2>2, <2>3 DEF SyncInv, GrowthInv, Written
  <2>8. FileInv'
    BY <1>1, <1>2, <1>3, <1>4, <1>5, <2>1, <2>2, <2>3 DEF FileInv, Ahead
  <2> QED
    BY <2>4, <2>5, <2>6, <2>7, <2>8 DEF IInv
<1> QED
  BY <1>6, <1>7

LEMMA AppendTraceInv == ASSUME IInv, AppendTrace PROVE IInv'
<1>1. TypeInv /\ ControlInv /\ LocalInv /\ BaseInv /\ PhaseInv /\ StrayInv /\ SyncInv
      /\ FileInv
  BY DEF IInv
<1> DEFINE rest == [run EXCEPT !.due = Tail(@)]
<1>2. /\ run.pc = "appending" /\ file' = Append(file, Head(run.due))
      /\ IF rest.due = <<>> THEN Persisted(rest) ELSE run' = rest /\ UNCHANGED local
      /\ UNCHANGED <<clock, aborted, state, stray, saved, lapses>>
  BY DEF AppendTrace, World
<1>3. Writing /\ Aim = run.then /\ run \in Runs /\ file \in Seq(Words) /\ run.due \in Seq(Words)
  BY <1>1, <1>2 DEF Writing, Aim, TypeInv, Runs
<1>4. /\ <<run.task, Aim>> \in Written /\ run.write # Nothing /\ Good(run.write)
      /\ run.write.trace \in Seq(Words) /\ Len(run.write.trace) \in Nat
      /\ run.due # <<>>
  BY <1>1, <1>2, <1>3, GoodState DEF ControlInv, TypeInv
<1>5. Tail(run.due) \in Seq(Words) /\ file' \in Seq(Words)
  <2>1. Head(run.due) \in Words
    BY <1>3, <1>4
  <2> QED
    BY <1>2, <1>3, <1>4, <2>1
<1>6. lapses = {} =>
         /\ Appended(run.write, run.due, file')
         /\ Starts(file', run.write.trace) /\ Len(file') = Len(file) + 1
         /\ Tail(run.due) = From(run.write, Len(file'))
         /\ Tail(run.due) = <<>> <=> Len(file') = Len(run.write.trace)
         /\ Tail(run.due) = <<>> => file' = run.write.trace
  <2> SUFFICES ASSUME lapses = {}
               PROVE  /\ Appended(run.write, run.due, file') /\ Len(file') = Len(file) + 1
    BY DEF Appended
  <2>1. Starts(file, run.write.trace) /\ run.due = From(run.write, Len(file))
    BY <1>1, <1>3 DEF FileInv
  <2>2. Appended(run.write, run.due, file')
    BY ONLY <1>2, <1>3, <1>4, <2>1, AppendNext
  <2>3. Head(run.due) \in Words
    BY <1>3, <1>4
  <2>4. Len(file') = Len(file) + 1
    BY <1>2, <1>3, <2>3
  <2> QED
    BY <2>2, <2>4
<1>7. /\ rest \in Runs /\ rest.due = Tail(run.due) /\ rest.pc = "appending"
      /\ rest.task = run.task /\ rest.write = run.write /\ rest.then = run.then
      /\ rest.outcome = run.outcome /\ rest.retry = run.retry
  BY <1>2, <1>3, <1>5 DEF Runs
<1> HIDE DEF rest
<1>8. CASE rest.due = <<>>
  <2>1. Done(rest, run')
    BY <1>2, <1>7, <1>8, PersistedDone DEF Persisted
  <2>2. local' = IF run.then \in Rebased
                 THEN [local EXCEPT !.base = Len(local.state.trace)] ELSE local
    BY <1>2, <1>7, <1>8 DEF Persisted
  <2>3. lapses = {} => file' = run.write.trace
    BY <1>6, <1>7, <1>8
  <2> QED
    BY <1>2, <1>3, <1>5, <1>7, <2>1, <2>2, <2>3, PersistedInv DEF Done
<1>9. CASE rest.due # <<>>
  <2>1. run' = rest /\ UNCHANGED local
    BY <1>2, <1>9
  <2>2. Aim' = Aim /\ Writing'
    BY <1>3, <1>7, <2>1 DEF Aim, Writing
  <2>3. TypeInv'
    BY <1>1, <1>2, <1>5, <1>7, <2>1 DEF TypeInv
  <2>4. ControlInv' /\ LocalInv' /\ PhaseInv'
    BY <1>1, <1>2, <1>3, <1>7, <1>9, <2>1, <2>2 DEF ControlInv, LocalInv, PhaseInv
  <2>5. BaseInv' /\ StrayInv'
    BY <1>1, <1>2, <1>3, <1>7, <2>1, <2>2 DEF BaseInv, StrayInv, Ahead
  <2>6. SyncInv' /\ GrowthInv'
    BY <1>1, <1>2, <1>3, <1>7, <2>1, <2>2 DEF SyncInv, GrowthInv
  <2>7. FileInv'
    <3> SUFFICES ASSUME lapses = {} PROVE FileInv'
      BY <1>2 DEF FileInv
    <3>1. saved = run.write
      BY <1>2, WhatIsSaved
    <3>2. Aim # "recovering"
      <4> SUFFICES ASSUME Aim = "recovering" PROVE FALSE
        OBVIOUS
      <4>1. run.task = "review" /\ run.task \in Phases
        BY <1>4 DEF Written, Phases
      <4>2. run.write = local.state /\ local.base = Len(file)
        BY <1>1, <1>3, <4>1 DEF SyncInv, FileInv, Ahead
      <4>3. Len(local.state.trace) = local.base + 1
        BY <1>1, <1>3 DEF BaseInv
      <4> QED
        BY <1>6, <1>7, <1>9, <4>2, <4>3
    <3> QED
      BY <1>2, <1>4, <1>6, <1>7, <2>1, <2>2, <3>1, <3>2 DEF FileInv, Ahead
  <2> QED
    BY <2>3, <2>4, <2>5, <2>6, <2>7 DEF IInv
<1> QED
  BY <1>8, <1>9

-----------------------------------------------------------------------------
(* Faults.                                                                  *)
LEMMA PersistFailsInv == ASSUME IInv, PersistFails PROVE IInv'
<1>1. TypeInv /\ ControlInv /\ LocalInv /\ SyncInv /\ FileInv /\ StrayInv
  BY DEF IInv
<1>2. /\ Writing /\ Aim = run.then /\ <<run.task, Aim>> \in Written
      /\ UNCHANGED <<clock, aborted, state, stray, saved, file>>
  BY <1>1 DEF PersistFails, Writing, World, Aim, ControlInv
<1>3. CASE run.task \in {"start", "catch"}
  <2>1. run' = [Idle EXCEPT !.pc = "rejected"] /\ UNCHANGED <<local, lapses>>
    BY <1>3 DEF PersistFails
  <2>2. Rests(run', "rejected", "none")
    <3>1. "rejected" \in Words
      BY DEF Words
    <3> QED
      BY <2>1, <3>1, IdleRests
  <2>3. run'.pc = "rejected"
    BY <2>2 DEF Rests
  <2>4. local' = Left
    BY <1>1, <1>3, <2>1 DEF LocalInv, Left, Phases
  <2>5. Good(state') \/ state' = Nothing
    BY <1>1, <1>2 DEF TypeInv
  <2> QED
    BY <1>2, <2>1, <2>2, <2>3, <2>4, <2>5, RestsInv
<1>4. CASE run.task \notin {"start", "catch"} /\ run.then = "recovering"
  <2>1. SessionOver("lost", local) /\ UNCHANGED lapses
    BY <1>4 DEF PersistFails
  <2>2. run.task = "review" /\ Aim \in {"calling", "recovering"} /\ "lost" \in Words
    BY <1>2, <1>4 DEF Written, Words
  <2> QED
    BY <1>2, <2>1, <2>2, SessionInv
<1>5. CASE run.task \notin {"start", "catch"} /\ run.then # "recovering"
  <2>1. /\ Throw
        /\ lapses' = IF file = saved.trace THEN lapses ELSE lapses \union {"gap"}
    BY <1>5 DEF PersistFails
  <2>2. run.task \in Phases \union {"stop"}
    BY <1>2, <1>5 DEF Written, Phases
  <2>3. lapses' = {} => file = saved.trace
    BY <2>1
  <2> QED
    BY <1>2, <2>1, <2>2, <2>3, ThrowInv
<1> QED
  BY <1>3, <1>4, <1>5

LEMMA CrashInv == ASSUME IInv, Crash PROVE IInv'
<1>1. TypeInv /\ FileInv
  BY DEF IInv
<1>2. /\ run' = Idle /\ aborted' = FALSE /\ state' = Nothing
      /\ local' = NoLocal /\ stray' = NoStray
      /\ UNCHANGED <<clock, saved, file, lapses>>
  BY DEF Crash, Files
<1>3. /\ run' \in Runs /\ run'.pc = "down" /\ run'.task = "none" /\ run'.write = Nothing
      /\ run'.due = <<>> /\ run'.then = "none" /\ run'.retry = FALSE
  BY <1>2, IdleType
<1>4. Aim' = "down" /\ ~Writing'
  BY <1>3 DEF Aim, Writing
<1>5. TypeInv'
  <2>1. local' \in Locals /\ stray' \in Strays /\ local'.state = Nothing /\ stray'.write = Nothing
    BY <1>2 DEF NoLocal, NoStray, Locals, Strays, Maybe, Words
  <2> QED
    BY <1>1, <1>2, <1>3, <2>1 DEF TypeInv
<1>6. ControlInv'
  BY <1>3, <1>4 DEF ControlInv, Places
<1>7. LocalInv' /\ BaseInv' /\ PhaseInv' /\ StrayInv'
  BY <1>2, <1>3, <1>4 DEF LocalInv, BaseInv, PhaseInv, StrayInv, Phases
<1>8. SyncInv' /\ GrowthInv'
  BY <1>3, <1>4 DEF SyncInv, GrowthInv, Phases, Ahead
<1>9. FileInv'
  BY <1>1, <1>2, <1>3, <1>4 DEF FileInv, Phases
<1> QED
  BY <1>5, <1>6, <1>7, <1>8, <1>9 DEF IInv

LEMMA AbortInv == ASSUME IInv, Abort PROVE IInv'
<1>1. /\ clock' = clock /\ aborted' \in BOOLEAN
      /\ UNCHANGED <<run, state, local, stray, saved, file, lapses>>
  BY DEF Abort, Files
<1> QED
  BY <1>1, SameInv

-----------------------------------------------------------------------------
(* The abandoned reviewer call.                                             *)
\* Where the process may be meanwhile.
LEMMA StrayFacts ==
    ASSUME IInv, stray # NoStray
    PROVE  /\ \/ run.task = "review" /\ Aim \in {"settling", "publishing"}
              \/ run.task \notin Phases /\ Aim \in {"catching", "rejected", "over", "head"}
           /\ Aim = "publishing" => Terminal(run.write)
           /\ Aim = "head" => Terminal(state)
           /\ run.task \notin {"start", "discover"}
           /\ local.state # Nothing /\ Good(local.state)
           /\ local.base \in Nat /\ local.base <= Len(local.state.trace)
           /\ stray \in Strays
           /\ run.pc \in Ahead => run.pc = "settling"
<1>1. TypeInv /\ ControlInv /\ LocalInv /\ StrayInv
  BY DEF IInv
<1>2. \/ /\ run.task = "review" /\ Aim \in {"settling", "publishing"}
         /\ Aim = "publishing" => Terminal(run.write)
      \/ Aim \in {"catching", "rejected", "over"}
      \/ Aim = "head" /\ Terminal(state)
  BY <1>1 DEF StrayInv
<1>3. <<run.task, Aim>> \in Places
  BY <1>1 DEF ControlInv
<1>4. Aim \in {"catching", "rejected", "over", "head"} =>
         run.task \in {"none", "stop", "catch"}
  BY <1>3 DEF Places
<1>5. local.state # Nothing /\ local.base <= Len(local.state.trace)
  BY <1>1 DEF LocalInv
<1>6. Good(local.state) /\ local.base \in Nat /\ stray \in Strays
  BY <1>1, <1>5 DEF TypeInv, Locals
<1>7. run.pc \in Ahead => Aim = run.pc
  BY DEF Aim, Writing, Ahead
<1>8. run.pc \in Ahead => run.pc = "settling"
  BY <1>2, <1>7 DEF Ahead
<1> QED
  BY <1>2, <1>4, <1>5, <1>6, <1>8 DEF Phases

\* It is over.
LEMMA StrayDoneInv ==
    ASSUME IInv, stray # NoStray, NEW base \in Nat, StrayDone(base),
           base <= Len(local.state.trace),
           UNCHANGED <<clock, aborted, run, state, saved, lapses>>,
           file' \in Seq(Words),
           (base = local.base /\ file' = file) \/ "stray" \in lapses
    PROVE  IInv'
<1>1. TypeInv /\ ControlInv /\ LocalInv /\ BaseInv /\ PhaseInv /\ SyncInv /\ GrowthInv
      /\ FileInv
  BY DEF IInv
<1>2. Aim' = Aim /\ Writing' = Writing
  BY DEF Aim, Writing
<1>3. /\ \/ run.task = "review" /\ Aim \in {"settling", "publishing"}
         \/ run.task \notin Phases /\ Aim \in {"catching", "rejected", "over", "head"}
      /\ local.state # Nothing
      /\ run.pc \in Ahead => run.pc = "settling"
  BY StrayFacts
<1>4. /\ stray' = NoStray
      /\ local' = IF run.task = "review" THEN [local EXCEPT !.base = base] ELSE NoLocal
  BY DEF StrayDone
<1>5. /\ run.task = "review" =>
            local' \in Locals /\ local'.state = local.state /\ local'.base = base
      /\ run.task # "review" =>
            local' = NoLocal /\ local' \in Locals /\ local'.state = Nothing
  BY <1>1, <1>4 DEF TypeInv, Locals, NoLocal, Maybe
<1>6. TypeInv'
  <2>1. stray' \in Strays /\ stray'.write = Nothing
    BY <1>4 DEF NoStray, Strays, Words, Maybe
  <2> QED
    BY <1>1, <1>5, <2>1 DEF TypeInv
<1>7. ControlInv' /\ StrayInv'
  BY <1>1, <1>2, <1>4 DEF ControlInv, StrayInv
<1>8. LocalInv'
  BY <1>3, <1>4, <1>5 DEF LocalInv, Phases
<1>9. BaseInv'
  BY <1>2, <1>3 DEF BaseInv
<1>10. PhaseInv'
  BY <1>1, <1>2, <1>3, <1>5 DEF PhaseInv, Phases
<1>11. SyncInv'
  BY <1>1, <1>2, <1>3, <1>5 DEF SyncInv, Phases, Ahead
<1>12. GrowthInv'
  BY <1>1, <1>2 DEF GrowthInv
<1>13. FileInv'
  <2> SUFFICES ASSUME lapses = {} PROVE FileInv'
    BY DEF FileInv
  <2>1. base = local.base /\ file' = file
    OBVIOUS
  <2>2. run.task \in Phases => local'.base = local.base
    BY <1>3, <1>5, <2>1 DEF Phases
  <2> QED
    BY <1>1, <1>2, <2>1, <2>2 DEF FileInv
<1> QED
  BY <1>6, <1>7, <1>8, <1>9, <1>10, <1>11, <1>12, <1>13 DEF IInv

LEMMA StraySettlesInv == ASSUME IInv, StraySettles PROVE IInv'
<1>1. /\ StrayDone(local.base) /\ stray # NoStray
      /\ UNCHANGED <<clock, aborted, run, state, saved, file, lapses>>
  BY DEF StraySettles, World, Files, NoStray
<1>2. local.base \in Nat /\ local.base <= Len(local.state.trace) /\ file \in Seq(Words)
  BY <1>1, StrayFacts DEF IInv, TypeInv
<1> QED
  BY <1>1, <1>2, StrayDoneInv

LEMMA StrayFailsInv == ASSUME IInv, StrayFails PROVE IInv'
<1>1. /\ StrayDone(local.base) /\ stray # NoStray
      /\ UNCHANGED <<clock, aborted, run, state, saved, file, lapses>>
  BY DEF StrayFails, World, Files, NoStray
<1>2. local.base \in Nat /\ local.base <= Len(local.state.trace) /\ file \in Seq(Words)
  BY <1>1, StrayFacts DEF IInv, TypeInv
<1> QED
  BY <1>1, <1>2, StrayDoneInv

\* It goes on writing: the invariant is about it only as far as its own variables, and
\* the process is where the state on disk is no longer its own.
LEMMA StrayOnInv ==
    ASSUME IInv, stray # NoStray, stray' \in Strays, stray' # NoStray,
           UNCHANGED <<clock, aborted, run, state>>,
           stray'.pc \in {"saving", "appending"}, stray'.due # <<>>,
           stray'.pc = "saving" => stray'.write # Nothing,
           stray'.write = Nothing \/ Good(stray'.write),
           saved' = saved \/ Good(saved'), saved' = Nothing => saved = Nothing,
           file' \in Seq(Words), "stray" \in lapses',
           lapses' = lapses \/ lapses' = lapses \union {"stray"},
           local' \in Locals, Good(local'.state), local'.base <= Len(local'.state.trace),
           Current(local'.state) = Current(local.state),
           Terminal(local'.state) => Terminal(local.state)
    PROVE  IInv'
<1>1. TypeInv /\ ControlInv /\ LocalInv /\ PhaseInv /\ StrayInv /\ SyncInv
  BY DEF IInv
<1>2. Aim' = Aim /\ Writing' = Writing
  BY DEF Aim, Writing
<1>3. /\ \/ run.task = "review" /\ Aim \in {"settling", "publishing"}
         \/ run.task \notin Phases /\ Aim \in {"catching", "rejected", "over", "head"}
      /\ Aim = "publishing" => Terminal(run.write)
      /\ Aim = "head" => Terminal(state)
      /\ run.task \notin {"start", "discover"}
      /\ run.pc \in Ahead => run.pc = "settling"
  BY StrayFacts
<1>4. TypeInv'
  BY <1>1 DEF TypeInv
<1>5. ControlInv'
  BY <1>1, <1>2 DEF ControlInv
<1>6. LocalInv'
  BY GoodState DEF LocalInv
<1>7. BaseInv'
  BY <1>2, <1>3 DEF BaseInv
<1>8. PhaseInv'
  BY <1>1, <1>2 DEF PhaseInv
<1>9. StrayInv'
  BY <1>1, <1>2 DEF StrayInv
<1>10. SyncInv'
  BY <1>1, <1>2, <1>3 DEF SyncInv, Phases, Ahead
<1>11. GrowthInv' /\ FileInv'
  BY DEF GrowthInv, FileInv
<1> QED
  BY <1>4, <1>5, <1>6, <1>7, <1>8, <1>9, <1>10, <1>11 DEF IInv

LEMMA StrayInterruptedInv == ASSUME IInv, StrayInterrupted PROVE IInv'
<1> DEFINE s == Interrupted(local.state)
<1>1. /\ stray.pc = "calling" /\ stray # NoStray /\ ~Terminal(local.state)
      /\ local' = [local EXCEPT !.state = s]
      /\ stray' = [pc |-> "saving", write |-> s, due |-> From(s, local.base)]
      /\ lapses' = lapses \union {"stray"}
      /\ UNCHANGED <<clock, aborted, run, state, saved, file>>
  BY DEF StrayInterrupted, World, NoStray, Updatable
<1>2. /\ Good(local.state) /\ local.base \in Nat /\ local.base <= Len(local.state.trace)
      /\ Len(local.state.trace) \in Nat
  BY <1>1, StrayFacts, GoodState
<1>3. /\ Good(s) /\ ~Terminal(s)
      /\ Current(s) = Current(local.state) /\ Len(s.trace) = Len(local.state.trace) + 1
  BY <1>1, <1>2, InterruptedGood
<1> HIDE DEF s
<1>4. /\ From(s, local.base) \in Seq(Words) /\ From(s, local.base) # <<>>
      /\ s \in Maybe /\ s # Nothing /\ Len(s.trace) \in Nat
  <2>1. ~(Len(s.trace) <= local.base)
    BY <1>2, <1>3
  <2> QED
    BY <1>2, <1>3, <2>1, FromFacts, GoodState
<1>5. /\ stray' \in Strays /\ stray'.pc = "saving" /\ stray'.write = s
      /\ stray'.due = From(s, local.base) /\ stray' # NoStray
  BY <1>1, <1>4 DEF Strays, Words, NoStray
<1>6. local' \in Locals /\ local'.state = s /\ local'.base = local.base
  BY <1>1, <1>4 DEF IInv, TypeInv, Locals
<1>7. file \in Seq(Words)
  BY DEF IInv, TypeInv
<1>8. local'.base <= Len(local'.state.trace)
  BY <1>2, <1>3, <1>6
<1> QED
  BY <1>1, <1>3, <1>4, <1>5, <1>6, <1>7, <1>8, StrayOnInv

LEMMA StraySavesInv == ASSUME IInv, StraySaves PROVE IInv'
<1>1. /\ stray.pc = "saving" /\ stray # NoStray /\ saved' = stray.write
      /\ stray' = [stray EXCEPT !.pc = "appending", !.write = Nothing]
      /\ UNCHANGED <<clock, aborted, run, state, local, file, lapses>>
  BY DEF StraySaves, World, NoStray
<1>2. TypeInv /\ StrayInv
  BY DEF IInv
<1>3. /\ stray \in Strays /\ Good(local.state) /\ local.base <= Len(local.state.trace)
      /\ local \in Locals
  BY <1>1, <1>2, StrayFacts DEF TypeInv
<1>4. Good(saved') /\ stray.due # <<>> /\ "stray" \in lapses
  BY <1>1, <1>2 DEF TypeInv, StrayInv
<1>5. /\ stray' \in Strays /\ stray'.pc = "appending" /\ stray'.write = Nothing
      /\ stray'.due = stray.due /\ stray' # NoStray
  BY <1>1, <1>3 DEF Strays, Words, Maybe, NoStray
<1>6. saved' # Nothing /\ file \in Seq(Words)
  BY <1>2, <1>4, GoodState DEF TypeInv
<1> QED
  BY <1>1, <1>3, <1>4, <1>5, <1>6, StrayOnInv

LEMMA StrayAppendsInv == ASSUME IInv, StrayAppends PROVE IInv'
<1>1. /\ stray.pc = "appending" /\ stray # NoStray
      /\ file' = Append(file, Head(stray.due))
      /\ IF Len(stray.due) = 1 THEN StrayDone(Len(local.state.trace))
         ELSE stray' = [stray EXCEPT !.due = Tail(@)] /\ UNCHANGED local
      /\ UNCHANGED <<clock, aborted, run, state, saved, lapses>>
  BY DEF StrayAppends, World, NoStray
<1>2. TypeInv /\ StrayInv
  BY DEF IInv
<1>3. /\ stray \in Strays /\ Good(local.state) /\ local.base <= Len(local.state.trace)
      /\ Len(local.state.trace) \in Nat /\ local \in Locals
  BY <1>1, <1>2, StrayFacts, GoodState DEF TypeInv
<1>4. stray.due # <<>> /\ "stray" \in lapses
  BY <1>1, <1>2 DEF StrayInv
<1>5. stray.due \in Seq(Words) /\ file' \in Seq(Words)
  <2>1. stray.due \in Seq(Words) /\ file \in Seq(Words)
    BY <1>2, <1>3 DEF Strays, TypeInv
  <2>2. Head(stray.due) \in Words
    BY <1>4, <2>1
  <2> QED
    BY <1>1, <2>1, <2>2
<1>6. CASE Len(stray.due) = 1
  BY <1>1, <1>3, <1>4, <1>5, <1>6, StrayDoneInv
<1>7. CASE Len(stray.due) # 1
  <2>1. Tail(stray.due) \in Seq(Words) /\ Tail(stray.due) # <<>>
    BY <1>4, <1>5, <1>7, TailFacts
  <2>2. /\ stray' \in Strays /\ stray'.pc = "appending" /\ stray'.write = stray.write
        /\ stray'.due = Tail(stray.due) /\ stray' # NoStray
    <3>1. stray' = [stray EXCEPT !.due = Tail(stray.due)]
      BY <1>1, <1>7
    <3>2. /\ stray' \in Strays /\ stray'.pc = stray.pc /\ stray'.write = stray.write
          /\ stray'.due = Tail(stray.due)
      BY <1>3, <2>1, <3>1 DEF Strays
    <3>3. NoStray.pc = "none"
      BY DEF NoStray
    <3> QED
      BY <1>1, <3>2, <3>3
  <2>3. stray.write = Nothing \/ Good(stray.write)
    BY <1>2 DEF TypeInv
  <2>4. local' = local
    BY <1>1, <1>7
  <2> QED
    BY <1>1, <1>3, <1>4, <1>5, <2>1, <2>2, <2>3, <2>4, StrayOnInv
<1> QED
  BY <1>6, <1>7

-----------------------------------------------------------------------------
(* The theorems.                                                            *)
LEMMA NextInv == IInv /\ [Next]_vars => IInv'
<1> SUFFICES ASSUME IInv, [Next]_vars PROVE IInv'
  OBVIOUS
<1>1. CASE Start  BY <1>1, StartInv
<1>2. CASE Begin  BY <1>2, BeginInv
<1>3. CASE LoopHead  BY <1>3, LoopHeadInv
<1>4. CASE Catch  BY <1>4, CatchInv
<1>5. CASE Save  BY <1>5, SaveInv
<1>6. CASE AppendTrace  BY <1>6, AppendTraceInv
<1>7. CASE Publish  BY <1>7, PublishInv
<1>8. CASE Prepared  BY <1>8, PreparedInv
<1>9. CASE DiscoveryEnds  BY <1>9, DiscoveryEndsInv
<1>10. CASE \E outcome \in {"ok", "fails"} : GenerationEnds(outcome)
  BY <1>10, GenerationEndsInv
<1>11. CASE GenerationJudged  BY <1>11, GenerationJudgedInv
<1>12. CASE \E outcome \in {"ok", "failed"} : ExecutionEnds(outcome)
  BY <1>12, ExecutionEndsInv
<1>13. CASE \E outcome \in Decisions \union {"aborted", "error", "lost"} : ReviewEnds(outcome)
  BY <1>13, ReviewEndsInv
<1>14. CASE ReviewInterrupted  BY <1>14, ReviewInterruptedInv
<1>15. CASE ReviewRetried  BY <1>15, ReviewRetriedInv
<1>16. CASE ReviewGivenUp  BY <1>16, ReviewGivenUpInv
<1>17. CASE ReviewAbandoned  BY <1>17, ReviewAbandonedInv
<1>18. CASE ReviewSettled  BY <1>18, ReviewSettledInv
<1>19. CASE StraySettles  BY <1>19, StraySettlesInv
<1>20. CASE StrayInterrupted  BY <1>20, StrayInterruptedInv
<1>21. CASE StraySaves  BY <1>21, StraySavesInv
<1>22. CASE StrayAppends  BY <1>22, StrayAppendsInv
<1>23. CASE StrayFails  BY <1>23, StrayFailsInv
<1>24. CASE PersistFails  BY <1>24, PersistFailsInv
<1>25. CASE PhaseFileFails  BY <1>25, PhaseFileFailsInv
<1>26. CASE Crash  BY <1>26, CrashInv
<1>27. CASE Abort  BY <1>27, AbortInv
<1>28. CASE Tick  BY <1>28, TickInv
<1>29. CASE UNCHANGED vars
  <2>1. /\ clock' = clock /\ aborted' = aborted
        /\ UNCHANGED <<run, state, local, stray, saved, file, lapses>>
    BY <1>29 DEF vars
  <2>2. aborted' \in BOOLEAN
    BY <2>1 DEF IInv, TypeInv
  <2> QED
    BY <2>1, <2>2, SameInv
<1> QED
  BY <1>1, <1>2, <1>3, <1>4, <1>5, <1>6, <1>7, <1>8, <1>9, <1>10, <1>11, <1>12, <1>13,
     <1>14, <1>15, <1>16, <1>17, <1>18, <1>19, <1>20, <1>21, <1>22, <1>23, <1>24, <1>25,
     <1>26, <1>27, <1>28, <1>29 DEF Next

LEMMA Invariant == Spec => []IInv
BY InitInv, NextInv, PTL DEF Spec

\* Every state of a goal, in memory or on disk, tells one story: one iteration under
\* way, its phase recorded once; and a review keeps its variables until both it and a
\* call that it abandoned are over.
THEOREM StatesAreSound == Spec => []TypeOK
<1>1. IInv => TypeOK
  <2> SUFFICES ASSUME IInv PROVE TypeOK
    OBVIOUS
  <2>1. TypeInv /\ ControlInv /\ LocalInv /\ StrayInv
    BY DEF IInv
  <2>2. \A s \in {state, saved, local.state, run.write, stray.write} :
           s = Nothing \/ Consistent(s)
    BY <2>1 DEF TypeInv, Good
  <2>3. /\ run.pc = "appending" => run.due # <<>>
        /\ run.pc \in {"saving", "publishing"} => run.write # Nothing
    BY <2>1 DEF ControlInv, Writing
  <2>4. local = NoLocal <=> run.task \notin Phases /\ stray = NoStray
    BY <2>1 DEF LocalInv, NoLocal
  <2>5. stray.pc # "none" => ~run.retry
    BY <2>1 DEF StrayInv, ControlInv, NoStray
  <2> QED
    BY <2>2, <2>3, <2>4, <2>5 DEF TypeOK, Phases
<1> QED
  BY <1>1, Invariant, PTL

\* A goal is done only by a verdict on an iteration between the minimum and the maximum,
\* and it runs out of iterations only when all of them were made, whatever failed and
\* however often it was resumed.
THEOREM EndIsEarned == Spec => []StopEarned
<1>1. IInv => StopEarned
  BY DEF IInv, TypeInv, Good, Earned, StopEarned
<1> QED
  BY <1>1, Invariant, PTL

\* Unless something listed in `lapses` went wrong, GOAL_TRACE.jsonl tells the history of
\* GOAL_STATE.json, each event once, in order, and a run returns what is on disk.
THEOREM TraceIsDurable == Spec => []Durable
<1>1. IInv => Durable
  <2> SUFFICES ASSUME IInv, lapses = {} PROVE Durable
    BY DEF Durable
  <2>1. TypeInv /\ SyncInv /\ FileInv
    BY DEF IInv
  <2>2. saved # Nothing => IsPrefix(file, saved.trace)
    <3> SUFFICES ASSUME saved # Nothing PROVE IsPrefix(file, saved.trace)
      OBVIOUS
    <3>1. saved.trace \in Seq(Words) /\ file \in Seq(Words)
      BY <2>1, GoodState DEF TypeInv
    <3>2. Starts(file, saved.trace)
      BY <2>1 DEF FileInv
    <3> QED
      BY <3>1, <3>2, StartsIsPrefix
  <2>3. run.pc = "over" => Terminal(saved) /\ saved = state /\ file = saved.trace
    <3> SUFFICES ASSUME run.pc = "over"
                 PROVE  Terminal(saved) /\ saved = state /\ file = saved.trace
      OBVIOUS
    <3>1. Aim = "over"
      BY DEF Aim, Writing
    <3>2. Terminal(state) /\ saved = state
      BY <2>1, <3>1 DEF SyncInv
    <3>3. file = saved.trace
      BY <2>1 DEF FileInv
    <3> QED
      BY <3>2, <3>3
  <2> QED
    BY <2>2, <2>3 DEF Durable
<1> QED
  BY <1>1, Invariant, PTL

\* Only two steps write GOAL_STATE.json.
LEMMA SavedChanges ==
    ASSUME [Next]_vars, saved' # saved
    PROVE  Save \/ StraySaves
<1>1. Next
  BY DEF vars
<1>2. CASE Start \/ Begin \/ LoopHead \/ Catch
  BY <1>2 DEF Start, Begin, LoopHead, Catch, Files
<1>3. CASE AppendTrace \/ Publish \/ Prepared \/ DiscoveryEnds
  BY <1>3 DEF AppendTrace, Publish, Prepared, DiscoveryEnds, Files
<1>4. CASE \E outcome \in {"ok", "fails"} : GenerationEnds(outcome)
  BY <1>4 DEF GenerationEnds, Files
<1>5. CASE \E outcome \in {"ok", "failed"} : ExecutionEnds(outcome)
  BY <1>5 DEF ExecutionEnds, Files
<1>6. CASE \E outcome \in Decisions \union {"aborted", "error", "lost"} : ReviewEnds(outcome)
  BY <1>6 DEF ReviewEnds, Files
<1>7. CASE GenerationJudged \/ ReviewInterrupted \/ ReviewRetried \/ ReviewGivenUp
           \/ ReviewAbandoned \/ ReviewSettled
  BY <1>7 DEF GenerationJudged, ReviewInterrupted, ReviewRetried, ReviewGivenUp,
              ReviewAbandoned, ReviewSettled, Files
<1>8. CASE StraySettles \/ StrayInterrupted \/ StrayAppends \/ StrayFails
  BY <1>8 DEF StraySettles, StrayInterrupted, StrayAppends, StrayFails, Files
<1>9. CASE PersistFails \/ PhaseFileFails \/ Crash \/ Abort \/ Tick
  BY <1>9 DEF PersistFails, PhaseFileFails, Crash, Abort, Tick, Files
<1> QED
  BY <1>1, <1>2, <1>3, <1>4, <1>5, <1>6, <1>7, <1>8, <1>9 DEF Next

\* How SavedGrows compares iterations: the last one may have changed.
LEMMA AllButLast ==
    ASSUME NEW a \in Seq(Words), NEW b \in Seq(Words), Len(a) <= Len(b) + 1,
           \A i \in 1..Len(a) - 1 : a[i] = b[i]
    PROVE  IsPrefix(Front(<<"none">> \o a), <<"none">> \o b)
<1> DEFINE p == <<"none">> \o a
           q == <<"none">> \o b
           f == Front(p)
<1>1. <<"none">> \in Seq(Words) /\ Len(a) \in Nat /\ Len(b) \in Nat
  BY DEF Words
<1>2. /\ p \in Seq(Words) /\ Len(p) = Len(a) + 1
      /\ p[1] = "none" /\ \A i \in 2..Len(a) + 1 : p[i] = a[i - 1]
  BY <1>1
<1>3. /\ q \in Seq(Words) /\ Len(q) = Len(b) + 1
      /\ q[1] = "none" /\ \A i \in 2..Len(b) + 1 : q[i] = b[i - 1]
  BY <1>1
<1>4. f \in Seq(Words) /\ Len(f) = Len(a) /\ \A i \in 1..Len(a) : f[i] = p[i]
  <2>1. f = SubSeq(p, 1, Len(p) - 1)
    BY DEF Front
  <2> HIDE DEF p, f
  <2> QED
    BY <1>1, <1>2, <2>1
<1> HIDE DEF p, q, f
<1>5. ASSUME NEW i \in 1..Len(a) PROVE f[i] = q[i]
  <2>1. CASE i = 1
    BY <1>2, <1>3, <1>4, <2>1
  <2>2. CASE i # 1
    <3>1. /\ i \in 2..Len(a) + 1 /\ i \in 2..Len(b) + 1
          /\ i - 1 \in 1..Len(a) - 1
      BY <1>1, <2>2
    <3>2. a[i - 1] = b[i - 1]
      BY <3>1
    <3>3. f[i] = a[i - 1]
      BY <1>2, <1>4, <3>1
    <3>4. q[i] = b[i - 1]
      BY <1>3, <3>1
    <3> QED
      BY <3>2, <3>3, <3>4
  <2> QED
    BY <2>1, <2>2
<1>6. Starts(f, q)
  BY <1>1, <1>3, <1>4, <1>5 DEF Starts
<1>7. IsPrefix(f, q)
  BY <1>3, <1>4, <1>6, StartsIsPrefix
<1> QED
  BY <1>7 DEF p, q, f

\* GOAL_STATE.json only moves on: its history is extended, its iterations remain, and a
\* goal that ended stays as it ended, except for what an abandoned reviewer writes or
\* after a state that could not be read back.
THEOREM HistoryGrows == Spec => SavedGrows
<1>1. ASSUME IInv, [Next]_vars, saved # Nothing, saved' # saved, lapses' \subseteq {"gap"}
      PROVE  /\ ~Terminal(saved)
             /\ IsStrictPrefix(saved.trace, saved'.trace)
             /\ IsPrefix(Front(<<"none">> \o saved.iterations),
                         <<"none">> \o saved'.iterations)
  <2>1. TypeInv /\ ControlInv /\ StrayInv /\ GrowthInv
    BY <1>1 DEF IInv
  <2>2. ~StraySaves
    <3> SUFFICES ASSUME StraySaves PROVE FALSE
      OBVIOUS
    <3>1. stray.pc = "saving" /\ lapses' = lapses
      BY DEF StraySaves
    <3>2. stray # NoStray
      BY <3>1 DEF NoStray
    <3>3. "stray" \in lapses
      BY <2>1, <3>1, <3>2 DEF StrayInv
    <3> QED
      BY <1>1, <3>1, <3>3
  <2>3. Save
    BY <1>1, <2>2, SavedChanges
  <2>4. run.pc = "saving" /\ saved' = run.write /\ lapses' = lapses
    BY <2>3 DEF Save
  <2>5. Grows(saved, saved') \/ Keeps(saved, saved')
    BY <1>1, <2>1, <2>4 DEF GrowthInv
  <2>6. Good(saved) /\ Good(saved')
    BY <1>1, <2>1, <2>4 DEF TypeInv, ControlInv, Writing
  <2>7. /\ saved.trace \in Seq(Words) /\ saved'.trace \in Seq(Words)
        /\ saved.iterations \in Seq(Words) /\ saved'.iterations \in Seq(Words)
    BY <2>6 DEF Good, States
  <2>8. /\ ~Terminal(saved)
        /\ Starts(saved.trace, saved'.trace) /\ Len(saved.trace) < Len(saved'.trace)
        /\ Len(saved.iterations) <= Len(saved'.iterations) + 1
        /\ \A i \in 1..Len(saved.iterations) - 1 : saved.iterations[i] = saved'.iterations[i]
    <3>1. CASE Grows(saved, saved')
      BY <3>1 DEF Grows
    <3>2. CASE Keeps(saved, saved')
      <4>1. saved'.iterations = saved.iterations /\ Len(saved.iterations) \in Nat
        BY <2>7, <3>2 DEF Keeps
      <4> QED
        BY <3>2, <4>1 DEF Keeps
    <3> QED
      BY <2>5, <3>1, <3>2
  <2>9. IsStrictPrefix(saved.trace, saved'.trace)
    BY <2>7, <2>8, StartsIsPrefix
  <2>10. IsPrefix(Front(<<"none">> \o saved.iterations), <<"none">> \o saved'.iterations)
    BY <2>7, <2>8, AllButLast
  <2> QED
    BY <2>8, <2>9, <2>10
<1>2. IInv /\ [Next]_vars =>
        [saved # Nothing /\ saved' # saved /\ lapses' \subseteq {"gap"} =>
            /\ ~Terminal(saved)
            /\ IsStrictPrefix(saved.trace, saved'.trace)
            /\ IsPrefix(Front(<<"none">> \o saved.iterations),
                        <<"none">> \o saved'.iterations)]_vars
  BY <1>1
<1> QED
  BY <1>2, Invariant, PTL DEF Spec, SavedGrows

\* A call of a phase starts only after its preparations.
LEMMA CallPrepared ==
    ASSUME IInv, [Next]_vars, run.pc = "preparing", run'.pc = "calling"
    PROVE  Prepared
<1>1. Next
  BY DEF vars
<1>2. \A pc \in {"head", "catching", "rejected"} : [Idle EXCEPT !.pc = pc].pc # "calling"
  BY IdleType DEF Runs
<1>3. CASE Start \/ Begin \/ LoopHead \/ Catch
  BY <1>3 DEF Start, Begin, LoopHead, Catch, Stopped
<1>4. CASE Save \/ AppendTrace \/ Publish \/ DiscoveryEnds
  BY <1>4 DEF Save, AppendTrace, Publish, DiscoveryEnds
<1>5. CASE \E outcome \in {"ok", "fails"} : GenerationEnds(outcome)
  BY <1>5 DEF GenerationEnds
<1>6. CASE \E outcome \in {"ok", "failed"} : ExecutionEnds(outcome)
  BY <1>6 DEF ExecutionEnds
<1>7. CASE \E outcome \in Decisions \union {"aborted", "error", "lost"} : ReviewEnds(outcome)
  BY <1>7 DEF ReviewEnds
<1>8. CASE GenerationJudged \/ ReviewInterrupted \/ ReviewRetried \/ ReviewGivenUp
           \/ ReviewSettled
  BY <1>8 DEF GenerationJudged, ReviewInterrupted, ReviewRetried, ReviewGivenUp,
              ReviewSettled
<1>9. CASE ReviewAbandoned
  <2>1. run.retry
    BY <1>9 DEF ReviewAbandoned
  <2>2. Aim = "preparing"
    BY DEF Aim, Writing
  <2> QED
    BY <2>1, <2>2 DEF IInv, ControlInv
<1>10. CASE StraySettles \/ StrayInterrupted \/ StraySaves \/ StrayAppends \/ StrayFails \/ Abort
  BY <1>10 DEF StraySettles, StrayInterrupted, StraySaves, StrayAppends, StrayFails, Abort
<1>11. CASE PersistFails
  BY <1>11 DEF PersistFails
<1>12. CASE PhaseFileFails
  BY <1>2, <1>12 DEF PhaseFileFails, Throw
<1>13. CASE Crash
  BY <1>13, IdleType DEF Crash
<1>14. CASE Tick
  <2>1. run \in Runs
    BY DEF IInv, TypeInv
  <2>2. run'.pc = run.pc
    BY <1>14, <2>1 DEF Tick, Runs
  <2> QED
    BY <2>2
<1> QED
  BY <1>1, <1>3, <1>4, <1>5, <1>6, <1>7, <1>8, <1>9, <1>10, <1>11, <1>12, <1>13, <1>14
     DEF Next

\* A planner, worker or reviewer is called only for the phase that the state on disk says
\* is next, the first two only while the deadlines leave time.
THEOREM PhasesStartInTurn == Spec => PhaseStarts
<1>1. ASSUME IInv, [Next]_vars, run.pc = "preparing", run'.pc = "calling"
      PROVE  /\ saved = local.state
             /\ CASE run.task = "generate" -> Current(saved) = "pending"
                  [] run.task = "execute" -> Current(saved) = "todo_generated"
                  [] run.task = "review" -> Current(saved) \in Reviewable
             /\ run.task # "review" =>
                   clock < saved.deadline /\ clock < saved.iterationEnds
  <2>1. TypeInv /\ ControlInv /\ PhaseInv /\ SyncInv
    BY <1>1 DEF IInv
  <2>2. Aim = "preparing" /\ ~Writing
    BY <1>1 DEF Aim, Writing
  <2>3. run.task \in Phases
    BY <2>1, <2>2 DEF ControlInv, Places, Phases
  <2>4. saved = local.state
    BY <1>1, <2>1, <2>2, <2>3 DEF SyncInv, Ahead
  <2>5. Current(saved) \in Expected(run.task)
    BY <2>1, <2>2, <2>3, <2>4 DEF PhaseInv, Ahead
  <2>6. run.task # "review" => HasTime
    <3>1. Prepared
      BY <1>1, CallPrepared
    <3>2. ~Throw
      <4> SUFFICES ASSUME Throw PROVE FALSE
        OBVIOUS
      <4>1. "catching" \in Words
        BY DEF Words
      <4>2. Rests(run', "catching", "none")
        BY <4>1, IdleRests DEF Throw
      <4> QED
        BY <1>1, <4>2 DEF Rests
    <3>3. \A s : ~Becomes(s)
      <4> SUFFICES ASSUME NEW s, Becomes(s) PROVE FALSE
        OBVIOUS
      <4>1. run \in Runs
        BY <2>1 DEF TypeInv
      <4>2. run'.pc = "saving"
        BY <4>1 DEF Becomes, Record, Persist, Runs
      <4> QED
        BY <1>1, <4>2
    <3> QED
      BY <2>3, <3>1, <3>2, <3>3
         DEF Prepared, PrepareGeneration, PrepareExecution, PrepareReview, Phases
  <2> QED
    BY <2>3, <2>4, <2>5, <2>6 DEF Expected, Phases, HasTime
<1>2. IInv /\ [Next]_vars =>
        [run.pc = "preparing" /\ run'.pc = "calling" =>
            /\ saved = local.state
            /\ CASE run.task = "generate" -> Current(saved) = "pending"
                 [] run.task = "execute" -> Current(saved) = "todo_generated"
                 [] run.task = "review" -> Current(saved) \in Reviewable
            /\ run.task # "review" =>
                  clock < saved.deadline /\ clock < saved.iterationEnds]_vars
  BY <1>1
<1> QED
  BY <1>2, Invariant, PTL DEF Spec, PhaseStarts
=============================================================================
