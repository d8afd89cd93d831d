------------------------- MODULE WorkerRecoveryProofs -------------------------
(***************************************************************************)
(* The safety of the worker session for any number of calls, sessions,      *)
(* tasks, attempts and retries: the invariants of WorkerSessionOwner and    *)
(* NothingLeftBehind of WorkerRecovery, as theorems of WorkerRecovery.      *)
(*                                                                         *)
(* The inductive invariant has a half about the owner (OwnerInv), which     *)
(* every operation of the owner preserves whoever calls it, and a half      *)
(* about the scheduler (ScheduleInv).                                       *)
(***************************************************************************)
EXTENDS WorkerRecovery, Integers, FiniteSetTheorems, TLAPS

-----------------------------------------------------------------------------
(* Types.                                                                   *)
Levels == {Level(n) : n \in Nat}

Jobs == [task : Nat, attempt : Nat, identity : Nat, level : Levels,
         cancelled : BOOLEAN]

SessionRecords ==
    [open : BOOLEAN, prompts : Int, level : Levels \union {"none"},
     said : [by : Nat, status : Results \union {"none"}],
     served : [result : {"none", "done", "partial"}, task : Nat, attempt : Nat]]

CallRecords ==
    [pc : InSession \union {"creating", "returned", "thrown"}, job : Jobs,
     tainted : BOOLEAN, session : Sessions \union {NoSession}, fresh : BOOLEAN,
     signal : BOOLEAN, sent : Nat, timers : SUBSET {"limit", "grace"},
     listening : BOOLEAN, timedOut : BOOLEAN, aborted : BOOLEAN,
     failure : Failures \union {"none", "cancelled"},
     text : Results \union {"none"},
     result : {"none", "done", "partial", "failed"}]

RetainedRecords ==
    [session : Sessions, healthy : BOOLEAN, usable : BOOLEAN, partial : BOOLEAN,
     level : Levels, job : Jobs]

WorkRecords == [task : Nat, attempt : Nat, identity : Nat, obsolete : BOOLEAN,
                retries : Nat]

OwnerType ==
    /\ session \in [Sessions -> SessionRecords]
    /\ call \in [Calls -> CallRecords \union {Idle}]
    /\ retained \in RetainedRecords \union {NoRetained}
    /\ active \in Calls \union {NoActive}
    /\ closed \in BOOLEAN
    /\ shutdown \in {"open", "waiting", "disposed"}

ScheduleType ==
    /\ phase \in {"between", "running", "noting", "delaying", "retrying", "renoting",
                  "settling", "ending", "ended"}
    /\ work \in WorkRecords
    /\ awaited \in Calls \union {NoCall}

-----------------------------------------------------------------------------
(* The owner.                                                               *)
\* The lock is held by the call at work.
Lock == \A c \in Calls : Working(c) <=> active = c

\* The retained session is the only open one, and the one that is worked in; there is
\* none while one is created.
Held ==
    /\ retained # NoRetained => session[retained.session].open
    /\ \A s \in Sessions : session[s].open => retained # NoRetained /\ s = retained.session
    /\ \A c \in Calls :
          /\ call[c].pc \in InSession =>
                retained # NoRetained /\ call[c].session = retained.session
          /\ call[c].pc = "creating" => retained = NoRetained

\* What the owner remembers of the retained session is what the session did.
Kept ==
    retained # NoRetained =>
        LET used == session[retained.session]
        IN  /\ used.level = retained.level
            /\ active = NoActive =>
                  used.served = [result |-> IF retained.partial THEN "partial" ELSE "done",
                                 task |-> retained.job.task,
                                 attempt |-> retained.job.attempt]
            /\ active # NoActive =>
                  retained.job.identity <= call[active].job.identity

\* The text an assignment ends with is what the session said to it.
OwnText(r, said) ==
    r.text # "none" => said = [by |-> r.job.identity, status |-> r.text]

TextIsOwn ==
    \A c \in Calls :
        call[c].pc = "closing" => OwnText(call[c], session[call[c].session].said)

\* A disposed owner accepts nothing.
Disposal ==
    /\ shutdown = "open" <=> ~closed
    /\ shutdown = "disposed" => active = NoActive /\ retained = NoRetained

OwnerInv ==
    /\ OwnerType
    /\ Lock
    /\ Held
    /\ Kept
    /\ OnlyHealthyContinuation
    /\ TextIsOwn
    /\ ResultIsOwn
    /\ Disposal

-----------------------------------------------------------------------------
(* The scheduler.                                                           *)
\* It waits for a call of the present attempt exactly while it runs one.
Awaits ==
    /\ awaited # NoCall <=> phase \in {"running", "retrying"}
    /\ awaited # NoCall => /\ call[awaited].pc # "idle"
                           /\ call[awaited].job.identity = work.identity

\* No assignment is newer than the present one, and the others were told to stop.
Newest ==
    /\ \A c \in Calls : Working(c) =>
          /\ call[c].job.identity <= work.identity
          /\ c # awaited => call[c].signal
    /\ retained # NoRetained => retained.job.identity <= work.identity

ScheduleInv ==
    /\ ScheduleType
    /\ Awaits
    /\ Newest
    /\ phase = "ended" => shutdown = "disposed"

IInv == OwnerInv /\ ScheduleInv

-----------------------------------------------------------------------------
(* What one step of an assignment may do.                                   *)
\* The owner may have noted a change of health.
SameButHealth(r) == \E h \in BOOLEAN : r = [retained EXCEPT !.healthy = h]

\* dispose() may have begun to wait for the active assignment.
Closes == \/ UNCHANGED <<closed, shutdown>>
          \/ active # NoActive /\ closed' = TRUE /\ shutdown' = "waiting"

\* A step of the assignment c leaves it at work in its session, which stays open,
\* with its level and its history.
Local(c, r, used) ==
    /\ call[c].pc \in InSession
    /\ r \in CallRecords
    /\ r.pc \in InSession
    /\ r.job = call[c].job
    /\ r.session = call[c].session
    /\ r.fresh = call[c].fresh
    /\ call[c].signal => r.signal
    /\ used \in SessionRecords
    /\ used.open
    /\ used.level = session[call[c].session].level
    /\ used.served = session[call[c].session].served
    /\ r.pc = "closing" => OwnText(r, used.said)
    /\ r.pc = "measuring" /\ r.result = "done" =>
           used.said = [by |-> r.job.identity, status |-> "done"]

\* Two calls at work are the same one.
LEMMA OneAtWork ==
    ASSUME OwnerInv, NEW c \in Calls, NEW d \in Calls, Working(c), Working(d)
    PROVE  c = d
BY DEF OwnerInv, Lock

\* Such a step preserves what the owner relies on.
LEMMA LocalPreserves ==
    ASSUME OwnerInv, NEW c \in Calls, NEW r, NEW used, Local(c, r, used),
           call' = [call EXCEPT ![c] = r],
           session' = [session EXCEPT ![call[c].session] = used],
           SameButHealth(retained'), UNCHANGED active, Closes
    PROVE  OwnerInv'
<1> USE DEF Local
<1>1. /\ OwnerType /\ Lock /\ Held /\ Kept /\ OnlyHealthyContinuation /\ TextIsOwn
      /\ ResultIsOwn /\ Disposal
  BY DEF OwnerInv
<1>2. /\ active = c
      /\ retained # NoRetained
      /\ retained \in RetainedRecords
      /\ call[c].session = retained.session
      /\ retained.session \in Sessions
  BY <1>1 DEF Lock, Working, Held, OwnerType, RetainedRecords
<1>3. PICK h \in BOOLEAN : retained' = [retained EXCEPT !.healthy = h]
  BY DEF SameButHealth
<1>4. /\ retained' \in RetainedRecords
      /\ retained'.session = retained.session
      /\ retained'.level = retained.level
      /\ retained'.job = retained.job
  BY <1>2, <1>3 DEF RetainedRecords
<1>5. retained' # NoRetained
  BY <1>2, <1>3 DEF RetainedRecords, NoRetained
<1>6. /\ \A d \in Calls : call'[d] = IF d = c THEN r ELSE call[d]
      /\ \A s \in Sessions : session'[s] = IF s = retained.session THEN used ELSE session[s]
  BY <1>1, <1>2 DEF OwnerType
<1>7. \A d \in Calls : d # c => call[d].pc \notin InSession \union {"creating"}
  BY <1>1, <1>2 DEF Lock, Working
<1>8. OwnerType'
  BY <1>1, <1>2, <1>4 DEF OwnerType, Closes
<1>9. Lock'
  BY <1>1, <1>6 DEF Lock, Working
<1>10. Held'
  BY <1>1, <1>2, <1>4, <1>5, <1>6, <1>7 DEF Held, InSession
<1>11. Kept'
  BY <1>1, <1>2, <1>4, <1>5, <1>6, OwnerAssumption DEF Kept
<1>12. OnlyHealthyContinuation'
  BY <1>1, <1>2, <1>6, <1>7 DEF OnlyHealthyContinuation
<1>13. TextIsOwn'
  BY <1>1, <1>2, <1>6, <1>7 DEF TextIsOwn, InSession
<1>14. ResultIsOwn'
  BY <1>1, <1>2, <1>6, <1>7 DEF ResultIsOwn, InSession
<1>15. Disposal'
  BY <1>1, <1>2 DEF Disposal, Closes
<1> QED
  BY <1>8, <1>9, <1>10, <1>11, <1>12, <1>13, <1>14, <1>15 DEF OwnerInv

\* So does one that only concerns a call outside the session.
LEMMA OutsidePreserves ==
    ASSUME OwnerInv, NEW c \in Calls, NEW r, r \in CallRecords \union {Idle},
           call[c].pc \notin InSession, r.pc \notin InSession,
           r.pc = "creating" <=> call[c].pc = "creating",
           call' = [call EXCEPT ![c] = r],
           UNCHANGED <<session, retained, active>>, Closes
    PROVE  OwnerInv'
<1>1. /\ OwnerType /\ Lock /\ Held /\ Kept /\ OnlyHealthyContinuation /\ TextIsOwn
      /\ ResultIsOwn /\ Disposal
  BY DEF OwnerInv
<1>2. \A d \in Calls : call'[d] = IF d = c THEN r ELSE call[d]
  BY <1>1 DEF OwnerType
<1>3. OwnerType'
  BY <1>1 DEF OwnerType, Closes
<1>4. Lock'
  BY <1>1, <1>2 DEF Lock, Working
<1>5. Held'
  BY <1>1, <1>2 DEF Held
<1>6. active # NoActive /\ retained # NoRetained =>
          active \in Calls /\ call'[active] = call[active]
  BY <1>1, <1>2 DEF OwnerType, Lock, Held, Working
<1>7. Kept'
  BY <1>1, <1>6 DEF Kept
<1>8. OnlyHealthyContinuation' /\ TextIsOwn' /\ ResultIsOwn'
  BY <1>1, <1>2 DEF OnlyHealthyContinuation, TextIsOwn, ResultIsOwn, InSession
<1>9. Disposal'
  BY <1>1 DEF Disposal, Closes
<1> QED
  BY <1>3, <1>4, <1>5, <1>7, <1>8, <1>9 DEF OwnerInv

-----------------------------------------------------------------------------
(* The steps of an assignment.                                              *)
\* TextOf is the text that Closing gives the call.
LEMMA TextOfIsOwn ==
    ASSUME OwnerInv, NEW c \in Calls, call[c].pc \in InSession
    PROVE  /\ TextOf(c) \in Results \union {"none"}
           /\ TextOf(c) # "none" =>
                 session[call[c].session].said =
                     [by |-> call[c].job.identity, status |-> TextOf(c)]
<1>1. session[call[c].session] \in SessionRecords
  BY DEF OwnerInv, OwnerType, Held, RetainedRecords
<1> QED
  BY <1>1 DEF TextOf, SessionRecords

\* A call at work is a record, in a session that is one.
LEMMA AtWork ==
    ASSUME OwnerInv, NEW c \in Calls, call[c].pc \in InSession
    PROVE  /\ call[c] \in CallRecords
           /\ call[c].session \in Sessions
           /\ session[call[c].session] \in SessionRecords
           /\ session[call[c].session].open
BY DEF OwnerInv, OwnerType, Held, RetainedRecords, InSession, Idle, NoRetained

\* Every step of an assignment is local.
LEMMA AssignPreserves ==
    ASSUME OwnerInv, NEW c \in Calls, Assign(c)
    PROVE  /\ OwnerInv'
           /\ Local(c, call'[c], session'[call[c].session])
           /\ call' = [call EXCEPT ![c] = call'[c]]
<1> DEFINE used == session[call[c].session]
<1>1. call[c].pc \in InSession
  BY DEF Assign, AssignmentStep, Subscribe, Says, PromptResolves, PromptRejects,
         LateSettlement, LimitFires, GraceFires, InSession
<1>2. /\ call[c] \in CallRecords
      /\ used \in SessionRecords
      /\ used.open
  BY <1>1, AtWork
<1>3. /\ call \in [Calls -> CallRecords \union {Idle}]
      /\ session \in [Sessions -> SessionRecords]
      /\ call[c].session \in Sessions
  BY <1>1, AtWork DEF OwnerInv, OwnerType
<1>4. /\ TextOf(c) \in Results \union {"none"}
      /\ OwnText([call[c] EXCEPT !.text = TextOf(c)], used.said)
  BY <1>1, <1>2, TextOfIsOwn DEF OwnText, CallRecords
<1>5. /\ call[c].pc = "closing" => OwnText(call[c], used.said)
      /\ call[c].pc = "measuring" /\ call[c].result = "done" =>
             used.said = [by |-> call[c].job.identity, status |-> "done"]
  BY DEF OwnerInv, TextIsOwn, ResultIsOwn
<1> DEFINE Goal == /\ Local(c, call'[c], session'[call[c].session])
                   /\ call' = [call EXCEPT ![c] = call'[c]]
                   /\ session' = [session EXCEPT ![call[c].session] =
                                                     session'[call[c].session]]
<1>6. ASSUME NEW r \in CallRecords, NEW t \in SessionRecords, Local(c, r, t),
             call' = [call EXCEPT ![c] = r],
             session' = [session EXCEPT ![call[c].session] = t]
      PROVE  Goal
  BY <1>3, <1>6
<1>7. Goal
  <2> HIDE DEF Goal
  <2>1. CASE Subscribe(c)
    <3> DEFINE r == [call[c] EXCEPT !.pc = "prompting", !.listening = ~call[c].signal,
                                    !.timers = {"limit"}, !.sent = 1]
               t == [used EXCEPT !.prompts = @ + 1]
    <3>1. call' = [call EXCEPT ![c] = r]
          /\ session' = [session EXCEPT ![call[c].session] = t]
      BY <2>1, <1>3 DEF Subscribe, Prompted
    <3>2. r \in CallRecords
      <4>1. {"limit"} \in SUBSET {"limit", "grace"} /\ "prompting" \in InSession
        BY DEF InSession
      <4>2. call[c].signal \in BOOLEAN
        BY <1>2 DEF CallRecords
      <4> QED
        BY <1>2, <4>1, <4>2 DEF CallRecords
    <3>3. t \in SessionRecords
      BY <1>2 DEF SessionRecords
    <3>4. Local(c, r, t)
      BY <1>1, <1>2, <3>2, <3>3 DEF Local, CallRecords, SessionRecords, InSession
    <3> QED
      BY <3>1, <3>2, <3>3, <3>4, <1>6
  <2>2. ASSUME NEW status \in Results \union {"none"}, Says(c, status)
        PROVE  Goal
    <3> DEFINE t == [used EXCEPT !.said = [by |-> call[c].job.identity, status |-> status]]
    <3>1. /\ call' = [call EXCEPT ![c] = call[c]]
          /\ session' = [session EXCEPT ![call[c].session] = t]
      BY <2>2, <1>3 DEF Says
    <3>2. t \in SessionRecords
      BY <2>2, <1>2 DEF SessionRecords, CallRecords, Jobs
    <3>3. Local(c, call[c], t)
      BY <2>2, <1>1, <1>2, <3>2 DEF Says, Local, SessionRecords
    <3> QED
      BY <3>1, <1>2, <3>2, <3>3, <1>6
  <2>3. CASE PromptResolves(c)
    <3>1. CASE MissingResult(c) /\ call' = [call EXCEPT ![c].sent = 2] /\ UNCHANGED session
      <4> DEFINE r == [call[c] EXCEPT !.sent = 2]
      <4>1. /\ call' = [call EXCEPT ![c] = r]
            /\ session' = [session EXCEPT ![call[c].session] = used]
        BY <3>1, <1>3
      <4>2. r \in CallRecords
        BY <1>2 DEF CallRecords
      <4>3. Local(c, r, used)
        BY <2>3, <1>1, <1>2, <4>2 DEF PromptResolves, Local, CallRecords
      <4> QED
        BY <4>1, <1>2, <4>2, <4>3, <1>6
    <3>2. CASE /\ ~MissingResult(c)
               /\ call' = [call EXCEPT ![c] = Closing(@, TextOf(c))]
               /\ session' = [session EXCEPT ![call[c].session].prompts = @ - 1]
      <4> DEFINE r == Closing(call[c], TextOf(c))
                 t == [used EXCEPT !.prompts = @ - 1]
      <4>1. /\ call' = [call EXCEPT ![c] = r]
            /\ session' = [session EXCEPT ![call[c].session] = t]
        BY <3>2, <1>3
      <4>2. r \in CallRecords
        BY <1>2, <1>4 DEF Closing, CallRecords, InSession
      <4>3. t \in SessionRecords
        BY <1>2 DEF SessionRecords
      <4>4. Local(c, r, t)
        BY <1>1, <1>2, <1>4, <4>2, <4>3
           DEF Local, Closing, OwnText, CallRecords, SessionRecords, InSession
      <4> QED
        BY <4>1, <4>2, <4>3, <4>4, <1>6
    <3> QED
      BY <2>3, <3>1, <3>2 DEF PromptResolves
  <2>4. ASSUME NEW f \in Failures, PromptRejects(c, f)
        PROVE  Goal
    <3> DEFINE r == Closing([call[c] EXCEPT !.failure = f], TextOf(c))
               t == [used EXCEPT !.prompts = @ - 1]
    <3>1. /\ call' = [call EXCEPT ![c] = r]
          /\ session' = [session EXCEPT ![call[c].session] = t]
      BY <2>4, <1>3 DEF PromptRejects
    <3>2. r \in CallRecords
      BY <1>2, <1>4 DEF Closing, CallRecords, InSession
    <3>3. t \in SessionRecords
      BY <1>2 DEF SessionRecords
    <3>4. Local(c, r, t)
      BY <1>1, <1>2, <1>4, <3>2, <3>3
         DEF Local, Closing, OwnText, CallRecords, SessionRecords, InSession
    <3> QED
      BY <3>1, <3>2, <3>3, <3>4, <1>6
  <2>5. ASSUME NEW f \in Failures \union {"none"}, LateSettlement(c, f)
        PROVE  Goal
    <3> DEFINE g == IF call[c].failure = "none" THEN f ELSE call[c].failure
               r == [call[c] EXCEPT !.failure = g]
               t == [used EXCEPT !.prompts = @ - 1]
    <3>1. /\ call' = [call EXCEPT ![c] = r]
          /\ session' = [session EXCEPT ![call[c].session] = t]
      BY <2>5, <1>3 DEF LateSettlement
    <3>2. r \in CallRecords
      BY <1>2 DEF CallRecords
    <3>3. t \in SessionRecords
      BY <1>2 DEF SessionRecords
    <3>4. Local(c, r, t)
      BY <2>5, <1>1, <1>2, <1>5, <3>2, <3>3
         DEF LateSettlement, Local, OwnText, CallRecords, SessionRecords
    <3> QED
      BY <3>1, <3>2, <3>3, <3>4, <1>6
  <2>6. CASE LimitFires(c)
    <3> DEFINE left == IF TextOf(c) = "none" THEN {"grace"} ELSE {}
               late == TextOf(c) = "none"
               r == [call[c] EXCEPT !.timers = left, !.timedOut = late]
    <3>1. /\ call' = [call EXCEPT ![c] = r]
          /\ session' = [session EXCEPT ![call[c].session] = used]
      BY <2>6, <1>3 DEF LimitFires
    <3>2. r \in CallRecords
      BY <1>2 DEF CallRecords
    <3>3. Local(c, r, used)
      BY <2>6, <1>1, <1>2, <3>2 DEF LimitFires, Local, CallRecords
    <3> QED
      BY <3>1, <1>2, <3>2, <3>3, <1>6
  <2>7. CASE GraceFires(c)
    <3> DEFINE r == AbortSession(call[c], TextOf(c))
    <3>1. /\ call' = [call EXCEPT ![c] = r]
          /\ session' = [session EXCEPT ![call[c].session] = used]
      BY <2>7, <1>3 DEF GraceFires
    <3>2. r \in CallRecords
      BY <1>2, <1>4 DEF AbortSession, Closing, CallRecords, InSession
    <3>3. Local(c, r, used)
      BY <1>1, <1>2, <1>4, <3>2
         DEF Local, AbortSession, Closing, OwnText, CallRecords, InSession
    <3> QED
      BY <3>1, <1>2, <3>2, <3>3, <1>6
  <2> QED
    BY <2>1, <2>2, <2>3, <2>4, <2>5, <2>6, <2>7 DEF Assign, AssignmentStep
<1>8. SameButHealth(retained')
  <2>1. retained \in RetainedRecords
    BY <1>1 DEF OwnerInv, OwnerType, Held
  <2>2. retained = [retained EXCEPT !.healthy = retained.healthy] /\ retained.healthy \in BOOLEAN
    BY <2>1 DEF RetainedRecords
  <2> QED
    BY <2>2 DEF SameButHealth, Assign
<1> QED
  BY <1>7, <1>8, LocalPreserves DEF Assign, Closes

-----------------------------------------------------------------------------
(* Signals.                                                                 *)
\* What the scheduler relies on when the owner takes a step: no call comes to work
\* or forgets its job or its signal, and a session is retained with a job it knows.
Steady ==
    /\ \A d \in Calls :
          call[d].pc # "idle" => call'[d].pc # "idle" /\ call'[d].job = call[d].job
    /\ \A d \in Calls :
          Working(d)' => Working(d) /\ (call[d].signal => call'[d].signal)
    /\ retained' # NoRetained =>
          \/ retained # NoRetained /\ retained'.job = retained.job
          \/ \E d \in Calls : Working(d) /\ retained'.job = call[d].job
    /\ shutdown = "disposed" => shutdown' = "disposed"

\* A call that is not idle is a record.
LEMMA BusyRecord ==
    ASSUME OwnerInv, NEW c \in Calls, call[c].pc # "idle"
    PROVE  call[c] \in CallRecords
BY DEF OwnerInv, OwnerType, Idle

\* What a signal does to a call.
LEMMA SignalledFacts ==
    ASSUME OwnerInv, NEW c \in Calls, call[c].pc # "idle",
           NEW r, r = Signalled(c) \/ r = Tainted(c)
    PROVE  /\ r \in CallRecords
           /\ r.job = call[c].job
           /\ r.session = call[c].session
           /\ r.fresh = call[c].fresh
           /\ r.signal
           /\ r.result = call[c].result
           /\ \/ r.pc = call[c].pc /\ r.text = call[c].text
              \/ r.pc = "closing" /\ call[c].pc = "prompting" /\ r.text = TextOf(c)
<1> DEFINE s == [call[c] EXCEPT !.signal = TRUE]
           a == AbortSession(s, TextOf(c))
<1>1. call[c] \in CallRecords
  BY BusyRecord
<1>2. call[c].pc = "prompting" => TextOf(c) \in Results \union {"none"}
  BY TextOfIsOwn DEF InSession
<1>3. s \in CallRecords
  BY <1>1 DEF CallRecords
<1>4. call[c].pc = "prompting" => a \in CallRecords
  BY <1>2, <1>3 DEF AbortSession, Closing, CallRecords, InSession
<1>5. \/ Signalled(c) = s
      \/ Signalled(c) = a /\ call[c].pc = "prompting"
  BY <1>1 DEF Signalled, CallRecords
<1>6. Signalled(c) \in CallRecords
  BY <1>3, <1>4, <1>5
<1>7. /\ Signalled(c).job = call[c].job
      /\ Signalled(c).session = call[c].session
      /\ Signalled(c).fresh = call[c].fresh
      /\ Signalled(c).signal
      /\ Signalled(c).result = call[c].result
      /\ \/ Signalled(c).pc = call[c].pc /\ Signalled(c).text = call[c].text
         \/ /\ Signalled(c).pc = "closing"
            /\ call[c].pc = "prompting"
            /\ Signalled(c).text = TextOf(c)
  BY <1>1, <1>5 DEF AbortSession, Closing, CallRecords
<1>8. /\ Tainted(c) \in CallRecords
      /\ \A x \in {"pc", "job", "session", "fresh", "signal", "result", "text"} :
            Tainted(c)[x] = Signalled(c)[x]
  BY <1>6 DEF Tainted, CallRecords
<1> QED
  BY <1>6, <1>7, <1>8

\* A signal, from the scheduler or from the owner itself.
LEMMA SignalPreserves ==
    ASSUME OwnerInv, NEW c \in Calls, call[c].pc # "idle",
           NEW r, r = Signalled(c) \/ r = Tainted(c),
           call' = [call EXCEPT ![c] = r],
           retained' = retained \/ (active = c /\ retained' = Sickened(c)),
           UNCHANGED <<session, active>>, Closes
    PROVE  OwnerInv' /\ Steady /\ call'[c].signal
<1> DEFINE used == session[call[c].session]
<1>1. /\ r \in CallRecords
      /\ r.job = call[c].job
      /\ r.session = call[c].session
      /\ r.fresh = call[c].fresh
      /\ r.signal
      /\ r.result = call[c].result
      /\ \/ r.pc = call[c].pc /\ r.text = call[c].text
         \/ r.pc = "closing" /\ call[c].pc = "prompting" /\ r.text = TextOf(c)
  BY SignalledFacts
<1>2. /\ call \in [Calls -> CallRecords \union {Idle}]
      /\ session \in [Sessions -> SessionRecords]
      /\ retained \in RetainedRecords \union {NoRetained}
      /\ retained # NoRetained => retained \in RetainedRecords
  BY DEF OwnerInv, OwnerType
<1>3. \A d \in Calls : call'[d] = IF d = c THEN r ELSE call[d]
  BY <1>2
<1>4. retained # NoRetained => SameButHealth(retained') /\ retained'.job = retained.job
  <2> SUFFICES ASSUME retained # NoRetained
               PROVE  SameButHealth(retained') /\ retained'.job = retained.job
    OBVIOUS
  <2>1. retained \in RetainedRecords
    BY <1>2
  <2>2. /\ retained = [retained EXCEPT !.healthy = retained.healthy]
        /\ retained.healthy \in BOOLEAN
        /\ [retained EXCEPT !.healthy = FALSE].job = retained.job
    BY <2>1 DEF RetainedRecords
  <2> QED
    BY <2>2 DEF SameButHealth, Sickened
<1>5. retained = NoRetained => retained' = retained
  BY DEF Sickened
<1>6. OwnerInv'
  <2>1. CASE call[c].pc \in InSession
    <3>1. /\ call[c].session \in Sessions
          /\ used \in SessionRecords
          /\ used.open
          /\ retained # NoRetained
      BY <2>1, AtWork DEF OwnerInv, Held
    <3>2. r.pc = "closing" => OwnText(r, used.said)
      BY <2>1, <1>1, TextOfIsOwn DEF OwnText, OwnerInv, TextIsOwn
    <3>3. r.pc = "measuring" /\ r.result = "done" =>
              used.said = [by |-> r.job.identity, status |-> "done"]
      BY <1>1 DEF OwnerInv, ResultIsOwn
    <3>4. Local(c, r, used)
      BY <2>1, <3>1, <3>2, <3>3, <1>1 DEF Local, InSession
    <3>5. session' = [session EXCEPT ![call[c].session] = used]
      BY <3>1, <1>2
    <3> QED
      BY <3>1, <3>4, <3>5, <1>4, LocalPreserves
  <2>2. CASE call[c].pc \notin InSession
    <3>1. /\ r.pc = call[c].pc
          /\ active = c => retained = NoRetained
      BY <2>2, <1>1 DEF InSession, OwnerInv, Lock, Held, Working
    <3> QED
      BY <2>2, <3>1, <1>1, <1>5, OutsidePreserves
  <2> QED
    BY <2>1, <2>2
<1>7. shutdown = "disposed" => shutdown' = "disposed"
  BY DEF OwnerInv, Disposal, Closes
<1>8. Steady
  BY <1>1, <1>3, <1>4, <1>5, <1>7 DEF Steady, Working, InSession
<1> QED
  BY <1>1, <1>3, <1>6, <1>8

-----------------------------------------------------------------------------
(* Steps of the owner.                                                      *)
\* A step inside the session is steady.
LEMMA LocalSteady ==
    ASSUME OwnerInv, NEW c \in Calls, NEW r, NEW used, Local(c, r, used),
           call' = [call EXCEPT ![c] = r],
           retained' = retained \/ SameButHealth(retained'),
           UNCHANGED shutdown
    PROVE  Steady
<1>1. \A d \in Calls : call'[d] = IF d = c THEN r ELSE call[d]
  BY DEF OwnerInv, OwnerType
<1>2. retained # NoRetained /\ retained \in RetainedRecords
  BY DEF OwnerInv, OwnerType, Held, Local
<1>3. retained'.job = retained.job
  BY <1>2 DEF SameButHealth, RetainedRecords
<1> QED
  BY <1>1, <1>2, <1>3 DEF Steady, Local, Working, InSession

LEMMA AssignSteady ==
    ASSUME OwnerInv, NEW c \in Calls, Assign(c)
    PROVE  Steady
BY AssignPreserves, LocalSteady DEF Assign

\* The outcome of an assignment that completes its task is the text said to it.
LEMMA OutcomeFacts ==
    ASSUME NEW r \in CallRecords
    PROVE  /\ Outcome(r) \in CallRecords
           /\ Outcome(r).pc = "measuring"
           /\ Outcome(r).job = r.job
           /\ Outcome(r).session = r.session
           /\ Outcome(r).fresh = r.fresh
           /\ Outcome(r).signal = r.signal
           /\ Outcome(r).result = "done" => r.text = "done"
           /\ Healthy(r) \in BOOLEAN
<1>1. Result(r) \in {"done", "partial", "failed"} /\ (Result(r) = "done" => r.text = "done")
  BY DEF Result, Done
<1> HIDE DEF Result
<1>2. /\ Outcome(r).pc = "measuring"
      /\ Outcome(r).job = r.job
      /\ Outcome(r).session = r.session
      /\ Outcome(r).fresh = r.fresh
      /\ Outcome(r).signal = r.signal
      /\ Outcome(r).result = Result(r)
  BY DEF Outcome, CallRecords
<1>3. Outcome(r) \in CallRecords
  BY <1>1 DEF Outcome, CallRecords, InSession
<1>4. Healthy(r) \in BOOLEAN
  BY DEF Healthy
<1> QED
  BY <1>1, <1>2, <1>3, <1>4

LEMMA MeasurePreserves ==
    ASSUME OwnerInv, NEW c \in Calls, Measure(c)
    PROVE  OwnerInv' /\ Steady
<1> DEFINE r == Outcome(call[c])
           used == session[call[c].session]
<1>1. call[c].pc \in InSession
  BY DEF Measure, InSession
<1>2. /\ call[c] \in CallRecords
      /\ call[c].session \in Sessions
      /\ used \in SessionRecords
      /\ used.open
  BY <1>1, AtWork
<1>3. /\ r \in CallRecords
      /\ r.pc = "measuring"
      /\ r.job = call[c].job
      /\ r.session = call[c].session
      /\ r.fresh = call[c].fresh
      /\ r.signal = call[c].signal
      /\ r.result = "done" => call[c].text = "done"
      /\ Healthy(call[c]) \in BOOLEAN
  BY <1>2, OutcomeFacts
<1>4. r.result = "done" => used.said = [by |-> r.job.identity, status |-> "done"]
  BY <1>3 DEF Measure, OwnerInv, TextIsOwn, OwnText
<1> HIDE DEF r
<1>5. Local(c, r, used)
  BY <1>1, <1>2, <1>3, <1>4 DEF Local, InSession
<1>6. /\ call' = [call EXCEPT ![c] = r]
      /\ session' = [session EXCEPT ![call[c].session] = used]
      /\ SameButHealth(retained')
  BY <1>2, <1>3 DEF Measure, OwnerInv, OwnerType, SameButHealth, r
<1> QED
  BY <1>5, <1>6, LocalPreserves, LocalSteady DEF Measure, Closes

\* An assignment is entered with nothing said to it yet.
LEMMA EnteredFacts ==
    ASSUME NEW r \in CallRecords, NEW s \in Sessions, NEW fresh \in BOOLEAN
    PROVE  /\ Entered(r, s, fresh) \in CallRecords
           /\ Entered(r, s, fresh).pc \in {"starting", "closing"}
           /\ Entered(r, s, fresh).job = r.job
           /\ Entered(r, s, fresh).session = s
           /\ Entered(r, s, fresh).fresh = fresh
           /\ Entered(r, s, fresh).signal = r.signal
           /\ Entered(r, s, fresh).pc = "closing" => Entered(r, s, fresh).text = "none"
<1> DEFINE in == [r EXCEPT !.session = s, !.fresh = fresh]
           begun == [in EXCEPT !.pc = "starting"]
           over == Closing([in EXCEPT !.failure = "cancelled"], "none")
<1>1. begun \in CallRecords
  BY DEF CallRecords, InSession
<1>2. over \in CallRecords
  BY DEF Closing, CallRecords, InSession
<1>3. /\ begun.pc = "starting" /\ begun.job = r.job /\ begun.session = s
      /\ begun.fresh = fresh /\ begun.signal = r.signal
  BY DEF CallRecords
<1>4. /\ over.pc = "closing" /\ over.job = r.job /\ over.session = s
      /\ over.fresh = fresh /\ over.signal = r.signal /\ over.text = "none"
  BY DEF Closing, CallRecords
<1>5. Entered(r, s, fresh) = IF r.signal THEN over ELSE begun
  BY DEF Entered
<1> QED
  BY <1>1, <1>2, <1>3, <1>4, <1>5

\* A session that does not exist.
LEMMA UnbornRecord == Unborn \in SessionRecords /\ ~Unborn.open
BY DEF Unborn, SessionRecords

\* A created session is entered.
LEMMA CreatedPreserves ==
    ASSUME OwnerInv, NEW c \in Calls, Created(c)
    PROVE  OwnerInv' /\ Steady
<1>1. /\ OwnerType /\ Lock /\ Held /\ Kept /\ OnlyHealthyContinuation /\ TextIsOwn
      /\ ResultIsOwn /\ Disposal
  BY DEF OwnerInv
<1> DEFINE job == call[c].job
<1>2. PICK s \in Sessions :
          /\ ~session[s].open
          /\ session' = [session EXCEPT ![s] =
                            [Unborn EXCEPT !.open = TRUE, !.level = job.level]]
          /\ retained' = [session |-> s, healthy |-> TRUE, usable |-> FALSE,
                          partial |-> FALSE, level |-> job.level, job |-> job]
          /\ call' = [call EXCEPT ![c] = Entered(@, s, TRUE)]
  BY DEF Created
<1> DEFINE r == Entered(call[c], s, TRUE)
           used == [Unborn EXCEPT !.open = TRUE, !.level = job.level]
<1>3. call[c].pc = "creating" /\ call[c] \in CallRecords
  BY BusyRecord DEF Created
<1>4. job \in Jobs /\ job.level \in Levels
  BY <1>3 DEF CallRecords, Jobs
<1>5. /\ r \in CallRecords
      /\ r.pc \in {"starting", "closing"}
      /\ r.job = job
      /\ r.session = s
      /\ r.fresh = TRUE
      /\ r.signal = call[c].signal
      /\ r.pc = "closing" => r.text = "none"
  BY <1>3, EnteredFacts
<1>6. /\ used \in SessionRecords
      /\ used.open
      /\ used.level = job.level
  <2>1. Unborn \in SessionRecords
    BY UnbornRecord
  <2> QED
    BY <1>4, <2>1 DEF SessionRecords
<1>7. /\ retained' \in RetainedRecords
      /\ retained'.session = s
      /\ retained'.level = job.level
      /\ retained'.job = job
  BY <1>2, <1>4 DEF RetainedRecords
<1>8. retained' # NoRetained
  BY <1>2 DEF NoRetained
<1> HIDE DEF r, used
<1>9. /\ \A d \in Calls : call'[d] = IF d = c THEN r ELSE call[d]
      /\ \A t \in Sessions : session'[t] = IF t = s THEN used ELSE session[t]
  BY <1>1, <1>2 DEF OwnerType, r, used
<1>10. /\ active = c
       /\ active' = c
       /\ active # NoActive
       /\ retained = NoRetained
       /\ \A t \in Sessions : ~session[t].open
       /\ \A d \in Calls : d # c => call[d].pc \notin InSession \union {"creating"}
  BY <1>1, <1>3, OwnerAssumption DEF Created, Lock, Held, Working
<1>11. OwnerType'
  BY <1>1, <1>2, <1>5, <1>6, <1>7 DEF OwnerType, Created, r, used
<1>12. Lock'
  BY <1>1, <1>3, <1>5, <1>9, <1>10 DEF Lock, Working, InSession
<1>13. Held'
  BY <1>5, <1>6, <1>7, <1>8, <1>9, <1>10 DEF Held, InSession
<1>14. job.identity \in Nat
  BY <1>4 DEF Jobs
<1>15. Kept'
  BY <1>5, <1>6, <1>7, <1>8, <1>9, <1>10, <1>14 DEF Kept
<1>16. OnlyHealthyContinuation' /\ TextIsOwn' /\ ResultIsOwn'
  BY <1>5, <1>9, <1>10 DEF OnlyHealthyContinuation, TextIsOwn, ResultIsOwn, OwnText, InSession
<1>17. Disposal'
  BY <1>1, <1>10 DEF Disposal, Created
<1>18. Steady
  BY <1>3, <1>5, <1>7, <1>9 DEF Steady, Working, InSession, Created
<1> QED
  BY <1>11, <1>12, <1>13, <1>15, <1>16, <1>17, <1>18 DEF OwnerInv

\* A call that held the lock ends: the session it was in is kept as the session says,
\* or none is retained.
LEMMA EndPreserves ==
    ASSUME OwnerInv, NEW c \in Calls, NEW r \in CallRecords, Working(c), Released(c),
           r.pc = "returned", r.job = call[c].job,
           call' = [call EXCEPT ![c] = r],
           session' \in [Sessions -> SessionRecords],
           retained' \in RetainedRecords \union {NoRetained},
           \A s \in Sessions : session'[s].open =>
               retained' # NoRetained /\ s = retained'.session,
           retained' # NoRetained =>
               LET used == session'[retained'.session]
               IN  /\ used.open
                   /\ used.level = retained'.level
                   /\ used.served = [result |-> IF retained'.partial THEN "partial" ELSE "done",
                                     task |-> retained'.job.task,
                                     attempt |-> retained'.job.attempt]
                   /\ \/ retained # NoRetained /\ retained'.job = retained.job
                      \/ retained'.job = call[c].job
    PROVE  OwnerInv' /\ Steady
<1>1. /\ OwnerType /\ Lock /\ Held /\ Kept /\ OnlyHealthyContinuation /\ TextIsOwn
      /\ ResultIsOwn /\ Disposal
  BY DEF OwnerInv
<1>2. /\ active = c
      /\ active' = NoActive
      /\ \A d \in Calls : d # c => ~Working(d)
  BY <1>1 DEF Lock, Released
<1>3. \A d \in Calls : call'[d] = IF d = c THEN r ELSE call[d]
  BY <1>1 DEF OwnerType
<1>4. \A d \in Calls : call'[d].pc \notin InSession \union {"creating"}
  BY <1>2, <1>3 DEF Working, InSession
<1>5. OwnerType'
  BY <1>1, <1>2 DEF OwnerType, Released
<1>6. Lock'
  BY <1>2, <1>4, OwnerAssumption DEF Lock, Working
<1>7. Held'
  BY <1>4 DEF Held
<1>8. Kept'
  BY <1>2 DEF Kept
<1>9. OnlyHealthyContinuation' /\ TextIsOwn' /\ ResultIsOwn'
  BY <1>4 DEF OnlyHealthyContinuation, TextIsOwn, ResultIsOwn, InSession
<1>10. Disposal'
  BY <1>1, <1>2, OwnerAssumption DEF Disposal, Released
<1>11. Steady
  BY <1>3, <1>4 DEF Steady, Working, Released
<1> QED
  BY <1>5, <1>6, <1>7, <1>8, <1>9, <1>10, <1>11 DEF OwnerInv

LEMMA CreationFailsPreserves ==
    ASSUME OwnerInv, NEW c \in Calls, NEW f \in Failures, CreationFails(c, f)
    PROVE  OwnerInv' /\ Steady
<1> DEFINE r == [call[c] EXCEPT !.pc = "returned", !.failure = f, !.result = "failed"]
<1>1. call[c].pc = "creating" /\ call[c] \in CallRecords /\ Working(c)
  BY BusyRecord DEF CreationFails, Working
<1>2. r \in CallRecords
  BY <1>1 DEF CallRecords
<1>3. r.pc = "returned" /\ r.job = call[c].job
  BY <1>1 DEF CallRecords
<1>4. call' = [call EXCEPT ![c] = r]
  BY DEF CreationFails, OwnerInv, OwnerType
<1>5. /\ retained = NoRetained
      /\ \A s \in Sessions : ~session[s].open
      /\ session \in [Sessions -> SessionRecords]
  BY <1>1 DEF OwnerInv, OwnerType, Held
<1> HIDE DEF r
<1> QED
  BY <1>1, <1>2, <1>3, <1>4, <1>5, EndPreserves DEF CreationFails

LEMMA ReturnPreserves ==
    ASSUME OwnerInv, NEW c \in Calls, NEW usable \in Usages, Return(c, usable)
    PROVE  OwnerInv' /\ Steady
<1> DEFINE r == [call[c] EXCEPT !.pc = "returned", !.session = NoSession,
                                !.signal = FALSE, !.tainted = FALSE]
           used == session[call[c].session]
           served == [result |-> call[c].result, task |-> call[c].job.task,
                      attempt |-> call[c].job.attempt]
<1>1. /\ call[c].pc \in InSession
      /\ Working(c)
  BY DEF Return, Working, InSession
<1>2. /\ call[c] \in CallRecords
      /\ call[c].session \in Sessions
      /\ used \in SessionRecords
      /\ used.open
  BY <1>1, AtWork
<1>3. /\ session \in [Sessions -> SessionRecords]
      /\ retained \in RetainedRecords
      /\ retained # NoRetained
      /\ call[c].session = retained.session
      /\ used.level = retained.level
      /\ \A s \in Sessions : session[s].open => s = retained.session
  BY <1>1 DEF OwnerInv, OwnerType, Held, Kept
<1>4. r \in CallRecords
  BY <1>2 DEF CallRecords
<1>5. r.pc = "returned" /\ r.job = call[c].job
  BY <1>2 DEF CallRecords
<1>6. call' = [call EXCEPT ![c] = r]
  BY DEF Return, OwnerInv, OwnerType
<1> HIDE DEF r
<1>7. CASE Keeps(c, usable)
  <2> DEFINE left == [retained EXCEPT !.usable = usable, !.job = call[c].job,
                                      !.partial = call[c].result = "partial"]
             t == [used EXCEPT !.served = served]
  <2>1. retained' = left /\ session' = [session EXCEPT ![call[c].session] = t]
    BY <1>3, <1>7 DEF Return
  <2>2. call[c].job \in Jobs /\ call[c].result \in {"done", "partial"}
    BY <1>2, <1>7 DEF Keeps, CallRecords
  <2>3. left \in RetainedRecords
    BY <1>3, <2>2 DEF RetainedRecords, Usages
  <2>4. /\ left.session = retained.session
        /\ left.level = retained.level
        /\ left.job = call[c].job
        /\ left.partial = (call[c].result = "partial")
    BY <1>3 DEF RetainedRecords
  <2>5. served \in [result : {"none", "done", "partial"}, task : Nat, attempt : Nat]
    BY <2>2 DEF Jobs
  <2>6. t \in SessionRecords
    BY <1>2, <2>5 DEF SessionRecords
  <2>7. t.open /\ t.level = used.level /\ t.served = served
    BY <1>2 DEF SessionRecords
  <2>8. left # NoRetained
    BY <2>3 DEF NoRetained, RetainedRecords
  <2>9. \A s \in Sessions :
            session'[s] = IF s = retained.session THEN t ELSE session[s]
    BY <1>3, <2>1
  <2>10. session' \in [Sessions -> SessionRecords]
    BY <1>2, <1>3, <2>1, <2>6
  <2>11. served = [result |-> IF left.partial THEN "partial" ELSE "done",
                   task |-> left.job.task, attempt |-> left.job.attempt]
    BY <2>2, <2>4
  <2>12. retained.session \in Sessions
    BY <1>2, <1>3
  <2> HIDE DEF left, t, served
  <2>13. /\ retained' \in RetainedRecords
         /\ retained'.session = retained.session
         /\ retained'.job = call[c].job
         /\ session'[retained'.session].open
         /\ session'[retained'.session].level = retained'.level
         /\ session'[retained'.session].served =
               [result |-> IF retained'.partial THEN "partial" ELSE "done",
                task |-> retained'.job.task, attempt |-> retained'.job.attempt]
    BY <1>3, <2>1, <2>3, <2>4, <2>7, <2>9, <2>11, <2>12
  <2>14. \A s \in Sessions : session'[s].open =>
             retained' # NoRetained /\ s = retained'.session
    BY <1>3, <2>1, <2>4, <2>8, <2>9
  <2> QED
    BY <1>1, <1>4, <1>5, <1>6, <2>10, <2>13, <2>14, EndPreserves DEF Return
<1>8. CASE ~Keeps(c, usable)
  <2>1. retained' = NoRetained /\ session' = [session EXCEPT ![retained.session] = Unborn]
    BY <1>3, <1>8 DEF Return, Disposed
  <2>2. session' \in [Sessions -> SessionRecords]
    BY <1>3, <2>1, UnbornRecord
  <2>3. \A s \in Sessions : ~session'[s].open
    BY <1>3, <2>1, UnbornRecord
  <2> QED
    BY <1>1, <1>4, <1>5, <1>6, <2>1, <2>2, <2>3, EndPreserves DEF Return
<1> QED
  BY <1>7, <1>8

-----------------------------------------------------------------------------
(* A new assignment.                                                        *)
LEMMA BegunFacts ==
    ASSUME NEW job \in Jobs, NEW at \in {"creating", "thrown"}
    PROVE  /\ Begun(job, at) \in CallRecords
           /\ Begun(job, at).pc = at
           /\ Begun(job, at).job = job
BY DEF Begun, CallRecords, Jobs

\* A call is refused, continues in the retained session, or waits for a new one.
LEMMA RunPreserves ==
    ASSUME OwnerInv, NEW c \in Calls, NEW job \in Jobs, Run(c, job),
           retained # NoRetained => retained.job.identity <= job.identity
    PROVE  /\ OwnerInv'
           /\ call[c].pc = "idle"
           /\ call'[c].pc # "idle" /\ call'[c].job = job
           /\ \A d \in Calls : d # c => call'[d] = call[d]
           /\ retained' # NoRetained =>
                  retained # NoRetained /\ retained'.job = retained.job
           /\ shutdown' = shutdown
<1>1. /\ OwnerType /\ Lock /\ Held /\ Kept /\ OnlyHealthyContinuation /\ TextIsOwn
      /\ ResultIsOwn /\ Disposal
  BY DEF OwnerInv
<1>2. /\ call[c].pc = "idle"
      /\ shutdown' = shutdown
  BY DEF Run
<1>3. CASE call' = [call EXCEPT ![c] = Begun(job, "thrown")]
           /\ UNCHANGED <<session, retained, active>>
  <2> DEFINE r == Begun(job, "thrown")
  <2>1. r \in CallRecords /\ r.pc = "thrown" /\ r.job = job
    BY BegunFacts
  <2> HIDE DEF r
  <2>2. OwnerInv'
    BY <1>2, <1>3, <2>1, OutsidePreserves DEF Run, Closes, InSession, r
  <2> QED
    BY <1>1, <1>2, <1>3, <2>1, <2>2 DEF OwnerType, r
<1>4. ASSUME ~closed, ~Busy, active' = c
      PROVE  /\ active' # NoActive
             /\ \A d \in Calls : ~Working(d)
             /\ \A d \in Calls : call[d].pc \notin InSession \union {"creating"}
             /\ Disposal'
  BY <1>1, <1>4, OwnerAssumption DEF Busy, Lock, Working, Disposal, Run
<1>5. CASE /\ ~closed
           /\ ~Busy
           /\ active' = c
           /\ Reuses(job)
           /\ call' = [call EXCEPT ![c] =
                 Entered(Begun(job, "creating"), retained.session, FALSE)]
           /\ session' = Levelled(LevelOf(job))
           /\ retained' = [retained EXCEPT !.level = LevelOf(job)]
  <2> DEFINE r == Entered(Begun(job, "creating"), retained.session, FALSE)
             s == retained.session
             used == [session[s] EXCEPT !.level = job.level]
  <2>1. /\ retained # NoRetained
        /\ retained \in RetainedRecords
        /\ s \in Sessions
        /\ LevelOf(job) = job.level
        /\ ScopeMatches(job)
    BY <1>1, <1>5 DEF Reuses, Reusable, OwnerType, RetainedRecords
  <2>2. /\ r \in CallRecords
        /\ r.pc \in {"starting", "closing"}
        /\ r.job = job
        /\ r.session = s
        /\ r.fresh = FALSE
        /\ r.pc = "closing" => r.text = "none"
    <3>1. Begun(job, "creating") \in CallRecords /\ Begun(job, "creating").job = job
      BY BegunFacts
    <3> QED
      BY <2>1, <3>1, EnteredFacts
  <2>3. session[s] \in SessionRecords /\ session[s].open
    BY <1>1, <2>1 DEF OwnerType, Held
  <2>4. job.level \in Levels /\ job.identity \in Nat
    BY DEF Jobs
  <2>5. /\ used \in SessionRecords
        /\ used.open
        /\ used.level = job.level
        /\ used.served = session[s].served
    BY <2>3, <2>4 DEF SessionRecords
  <2>6. /\ retained' = [retained EXCEPT !.level = job.level]
        /\ retained' \in RetainedRecords
        /\ retained'.session = s
        /\ retained'.level = job.level
        /\ retained'.job = retained.job
    BY <1>5, <2>1, <2>4 DEF RetainedRecords
  <2>7. retained' # NoRetained
    BY <2>6 DEF RetainedRecords, NoRetained
  <2> HIDE DEF r
  <2>8. /\ call' = [call EXCEPT ![c] = r]
        /\ session' = [session EXCEPT ![s] = used]
    BY <1>1, <1>5, <2>1 DEF OwnerType, Levelled, r
  <2> HIDE DEF s, used
  <2>9. /\ \A d \in Calls : call'[d] = IF d = c THEN r ELSE call[d]
        /\ \A t \in Sessions : session'[t] = IF t = s THEN used ELSE session[t]
    BY <1>1, <2>8 DEF OwnerType
  <2>10. s = retained.session
    BY DEF s
  <2>11. /\ active' = c
         /\ active' # NoActive
         /\ active = NoActive
         /\ \A d \in Calls : ~Working(d)
         /\ \A d \in Calls : call[d].pc \notin InSession \union {"creating"}
         /\ Disposal'
    BY <1>4, <1>5 DEF Busy
  <2>12. OwnerType'
    BY <1>1, <1>2, <2>2, <2>5, <2>6, <2>8, <2>11 DEF OwnerType, Run
  <2>13. Lock'
    BY <2>2, <2>9, <2>11 DEF Lock, Working, InSession
  <2>14. \A t \in Sessions : session'[t].open => t = s
    BY <1>1, <2>9, <2>10 DEF Held
  <2>15. Held'
    BY <2>1, <2>2, <2>5, <2>6, <2>7, <2>9, <2>10, <2>11, <2>14 DEF Held, InSession
  <2>16. Kept'
    BY <2>1, <2>2, <2>5, <2>6, <2>7, <2>9, <2>10, <2>11 DEF Kept
  <2>17. used.served = [result |-> IF retained.partial THEN "partial" ELSE "done",
                        task |-> retained.job.task, attempt |-> retained.job.attempt]
    BY <1>1, <2>1, <2>5, <2>10, <2>11 DEF Kept
  <2>18. OnlyHealthyContinuation'
    <3> SUFFICES ASSUME NEW d \in Calls, call'[d].pc \in InSession, ~call'[d].fresh
                 PROVE  /\ session'[call'[d].session].level = call'[d].job.level
                        /\ LET last == session'[call'[d].session].served
                           IN  \/ last.result = "done"
                               \/ /\ last.result = "partial"
                                  /\ last.task = call'[d].job.task
                                  /\ last.attempt + 1 = call'[d].job.attempt
      BY DEF OnlyHealthyContinuation
    <3>1. call'[d] = r /\ session'[call'[d].session] = used
      BY <2>1, <2>2, <2>9, <2>10, <2>11
    <3> QED
      BY <2>1, <2>2, <2>5, <2>17, <3>1 DEF ScopeMatches
  <2>19. TextIsOwn' /\ ResultIsOwn'
    BY <2>2, <2>9, <2>11 DEF TextIsOwn, ResultIsOwn, OwnText, InSession
  <2> QED
    BY <1>2, <2>1, <2>2, <2>6, <2>9, <2>11, <2>12, <2>13, <2>15, <2>16, <2>18, <2>19
       DEF OwnerInv
<1>6. CASE /\ ~closed
           /\ ~Busy
           /\ active' = c
           /\ call' = [call EXCEPT ![c] = Begun(job, "creating")]
           /\ session' = IF retained = NoRetained THEN session
                         ELSE Disposed(retained.session)
           /\ retained' = NoRetained
  <2> DEFINE r == Begun(job, "creating")
  <2>1. r \in CallRecords /\ r.pc = "creating" /\ r.job = job
    BY BegunFacts
  <2> HIDE DEF r
  <2>2. \A d \in Calls : call'[d] = IF d = c THEN r ELSE call[d]
    BY <1>1, <1>6 DEF OwnerType, r
  <2>3. session' \in [Sessions -> SessionRecords] /\ \A s \in Sessions : ~session'[s].open
    BY <1>1, <1>6, UnbornRecord DEF OwnerType, Held, Disposed
  <2>4. OwnerType'
    BY <1>1, <1>2, <1>6, <2>1, <2>3 DEF OwnerType, Run, r
  <2>5. Lock'
    BY <1>4, <1>6, <2>1, <2>2 DEF Lock, Working
  <2>6. Held'
    BY <1>4, <1>6, <2>1, <2>2, <2>3 DEF Held, InSession
  <2>7. Kept'
    BY <1>6 DEF Kept
  <2>8. OnlyHealthyContinuation' /\ TextIsOwn' /\ ResultIsOwn'
    BY <1>4, <1>6, <2>1, <2>2 DEF OnlyHealthyContinuation, TextIsOwn, ResultIsOwn, InSession
  <2> QED
    BY <1>2, <1>4, <1>6, <2>1, <2>2, <2>4, <2>5, <2>6, <2>7, <2>8 DEF OwnerInv
<1> QED
  BY <1>3, <1>5, <1>6 DEF Run

-----------------------------------------------------------------------------
(* Invalidation and disposal.                                               *)
\* The retained session is disposed while nothing works in it.
LEMMA DisposePreserves ==
    ASSUME OwnerInv, active = NoActive,
           session' = IF retained = NoRetained THEN session ELSE Disposed(retained.session),
           retained' = NoRetained,
           UNCHANGED <<call, active>>,
           shutdown' = shutdown \/ shutdown' = "disposed",
           closed' \in BOOLEAN,
           shutdown' = "open" <=> ~closed'
    PROVE  OwnerInv' /\ Steady
<1>1. /\ OwnerType /\ Lock /\ Held /\ Kept /\ OnlyHealthyContinuation /\ TextIsOwn
      /\ ResultIsOwn /\ Disposal
  BY DEF OwnerInv
<1>2. session' \in [Sessions -> SessionRecords] /\ \A s \in Sessions : ~session'[s].open
  BY <1>1, UnbornRecord DEF OwnerType, Held, Disposed
<1>3. \A d \in Calls : call[d].pc \notin InSession \union {"creating"}
  BY <1>1, OwnerAssumption DEF Lock, Working
<1>4. OwnerType'
  BY <1>1, <1>2 DEF OwnerType
<1>5. Lock'
  BY <1>1 DEF Lock, Working
<1>6. Held' /\ Kept' /\ OnlyHealthyContinuation' /\ TextIsOwn' /\ ResultIsOwn'
  BY <1>2, <1>3 DEF Held, Kept, OnlyHealthyContinuation, TextIsOwn, ResultIsOwn, InSession
<1>7. Disposal'
  BY <1>1 DEF Disposal
<1>8. Steady
  BY DEF Steady, Working
<1> QED
  BY <1>4, <1>5, <1>6, <1>7, <1>8 DEF OwnerInv

\* The identity of the newest assignment is invalidated: the call that works for it
\* is told, and no other call loses the session it works in.
LEMMA InvalidatePreserves ==
    ASSUME OwnerInv, NEW identity \in Nat, Invalidate(identity),
           active # NoActive => call[active].job.identity <= identity
    PROVE  /\ OwnerInv'
           /\ Steady
           /\ IsActive(identity) => call'[active].signal
<1>1. CASE IsActive(identity)
  <2>1. /\ active \in Calls
        /\ call[active].pc # "idle"
    BY <1>1 DEF IsActive, OwnerInv, OwnerType, Lock, Working, InSession
  <2> QED
    BY <1>1, <2>1, SignalPreserves DEF Invalidate, Closes
<1>2. CASE /\ ~IsActive(identity)
           /\ retained # NoRetained
           /\ retained.job.identity = identity
           /\ session' = Disposed(retained.session)
           /\ retained' = NoRetained
           /\ UNCHANGED call
  <2>1. active = NoActive
    <3> SUFFICES ASSUME active # NoActive PROVE FALSE
      OBVIOUS
    <3>1. /\ active \in Calls
          /\ retained.job.identity <= call[active].job.identity
          /\ call[active].job.identity # identity
      BY <1>2 DEF OwnerInv, OwnerType, Kept, IsActive
    <3>2. call[active].job.identity \in Nat
      BY <3>1, BusyRecord DEF OwnerInv, Lock, Working, InSession, CallRecords, Jobs
    <3> QED
      BY <1>2, <3>1, <3>2
  <2>2. closed \in BOOLEAN /\ (shutdown = "open" <=> ~closed)
    BY DEF OwnerInv, OwnerType, Disposal
  <2> QED
    BY <1>2, <2>1, <2>2, DisposePreserves DEF Invalidate
<1>3. CASE ~IsActive(identity) /\ UNCHANGED <<call, session, retained>>
  <2>1. UNCHANGED ownerVars
    BY <1>3 DEF Invalidate, ownerVars
  <2> QED
    BY <1>3, <2>1 DEF ownerVars, OwnerInv, OwnerType, Lock, Held, Kept,
       OnlyHealthyContinuation, TextIsOwn, ResultIsOwn, Disposal, Steady, Working
<1> QED
  BY <1>1, <1>2, <1>3 DEF Invalidate

\* The owner is closed; it is disposed at once only if nothing is at work.
LEMMA ShutdownPreserves ==
    ASSUME OwnerInv, Shutdown \/ ShutdownEnds
    PROVE  OwnerInv' /\ Steady
<1>1. closed \in BOOLEAN /\ Disposal
  BY DEF OwnerInv, OwnerType
<1>2. CASE Shutdown /\ active = NoActive
  BY <1>1, <1>2, DisposePreserves DEF Shutdown, DisposeRetained
<1>3. CASE ShutdownEnds
  BY <1>1, <1>3, DisposePreserves DEF ShutdownEnds, DisposeRetained, Disposal
<1>4. CASE Shutdown /\ active # NoActive
  <2>1. /\ active \in Calls
        /\ call[active].pc # "idle"
    BY <1>4 DEF OwnerInv, OwnerType, Lock, Working, InSession
  <2>2. Closes
    BY <1>4 DEF Shutdown, Closes
  <2> QED
    BY <1>4, <2>1, <2>2, SignalPreserves DEF Shutdown
<1> QED
  BY <1>2, <1>3, <1>4

-----------------------------------------------------------------------------
(* The scheduler's steps.                                                   *)
LEMMA InitEstablishes == Init => IInv
<1> SUFFICES ASSUME Init PROVE IInv
  OBVIOUS
<1> USE DEF Init, OwnerInit
<1>1. OwnerType
  BY UnbornRecord DEF OwnerType
<1>2. \A c \in Calls : call[c].pc = "idle"
  BY DEF Idle
<1>3. \A s \in Sessions : ~session[s].open
  BY UnbornRecord
<1>4. Lock /\ OnlyHealthyContinuation /\ TextIsOwn /\ ResultIsOwn
  BY <1>2, OwnerAssumption
     DEF Lock, Working, OnlyHealthyContinuation, TextIsOwn, ResultIsOwn, InSession
<1>5. Held /\ Kept /\ Disposal
  BY <1>2, <1>3 DEF Held, Kept, Disposal, InSession
<1>6. ScheduleInv
  BY <1>2 DEF ScheduleInv, ScheduleType, WorkRecords, Awaits, Newest, Working, InSession
<1> QED
  BY <1>1, <1>4, <1>5, <1>6 DEF IInv, OwnerInv

LEMMA OwnerUnchanged ==
    ASSUME OwnerInv, UNCHANGED ownerVars
    PROVE  OwnerInv' /\ Steady
BY DEF ownerVars, OwnerInv, OwnerType, Lock, Held, Kept, OnlyHealthyContinuation, TextIsOwn,
       ResultIsOwn, Disposal, Steady, Working

\* The scheduler goes on waiting, or leaves a call that has been told to stop.
LEMMA SteadyPreserves ==
    ASSUME IInv, OwnerInv', Steady, work' \in WorkRecords, work'.identity = work.identity,
           \/ phase' = phase /\ awaited' = awaited
           \/ /\ phase' \in {"settling", "ending"}
              /\ awaited' = NoCall
              /\ \A c \in Calls : c = awaited /\ Working(c)' => call'[c].signal
    PROVE  IInv'
<1>1. ScheduleType /\ Awaits /\ Newest /\ (phase = "ended" => shutdown = "disposed")
  BY DEF IInv, ScheduleInv
<1>2. ScheduleType'
  BY <1>1 DEF ScheduleType, WorkRecords
<1>3. \A c \in Calls : Working(c) => call'[c].job = call[c].job
  BY DEF Steady, Working, InSession
<1>4. Awaits'
  BY <1>1 DEF Awaits, Steady, ScheduleType
<1>5. Newest'
  BY <1>1, <1>3, RecoveryAssumption DEF Newest, Steady
<1>6. phase' = "ended" => shutdown' = "disposed"
  BY <1>1 DEF Steady
<1> QED
  BY <1>2, <1>4, <1>5, <1>6 DEF IInv, ScheduleInv

\* Only the scheduler moves, between two calls.
LEMMA QuietPreserves ==
    ASSUME IInv, UNCHANGED ownerVars, UNCHANGED awaited, awaited = NoCall,
           work' \in WorkRecords, work'.identity = work.identity,
           phase' \in {"between", "noting", "delaying", "renoting", "settling", "ending",
                       "ended"},
           phase' = "ended" => shutdown = "disposed"
    PROVE  IInv'
<1>1. OwnerInv' /\ Steady
  BY OwnerUnchanged DEF IInv
<1>2. Newest'
  BY <1>1 DEF IInv, ScheduleInv, Newest, Steady, Working, ownerVars
<1>3. ScheduleInv'
  BY <1>2 DEF IInv, ScheduleInv, ScheduleType, Awaits, WorkRecords, ownerVars
<1> QED
  BY <1>1, <1>3 DEF IInv

\* A call of the owner for the present attempt.
LEMMA CallPreserves ==
    ASSUME IInv, NEW w \in WorkRecords, NEW next \in {"running", "retrying"},
           work' = w, work.identity <= w.identity, awaited = NoCall, Call(w, next)
    PROVE  IInv'
<1> DEFINE job == [task |-> w.task, attempt |-> w.attempt, identity |-> w.identity,
                   level |-> Level(w.attempt + w.retries), cancelled |-> Cancelled]
<1>1. ScheduleType /\ Newest /\ (phase = "ended" => shutdown = "disposed")
  BY DEF IInv, ScheduleInv
<1>2. PICK c \in Calls : Run(c, job) /\ awaited' = c /\ phase' = next
  BY DEF Call
<1>3. job \in Jobs
  <2>1. w.attempt + w.retries \in Nat
    BY DEF WorkRecords
  <2>2. Level(w.attempt + w.retries) \in Levels
    BY <2>1 DEF Levels
  <2>3. Cancelled \in BOOLEAN
    BY DEF Cancelled
  <2> QED
    BY <2>2, <2>3 DEF Jobs, WorkRecords
<1>4. job.identity = w.identity
  OBVIOUS
<1> HIDE DEF job
<1>5. /\ w.identity \in Nat
      /\ work.identity \in Nat
      /\ retained # NoRetained => retained.job.identity \in Nat
  BY <1>1 DEF WorkRecords, ScheduleType, IInv, OwnerInv, OwnerType, RetainedRecords, Jobs
<1>6. retained # NoRetained => retained.job.identity <= job.identity
  BY <1>1, <1>4, <1>5 DEF Newest
<1>7. /\ OwnerInv'
      /\ call'[c].pc # "idle" /\ call'[c].job = job
      /\ \A d \in Calls : d # c => call'[d] = call[d]
      /\ retained' # NoRetained => retained # NoRetained /\ retained'.job = retained.job
      /\ shutdown' = shutdown
  BY <1>2, <1>3, <1>6, RunPreserves DEF IInv
<1>8. ScheduleType' /\ Awaits'
  BY <1>1, <1>2, <1>4, <1>7, RecoveryAssumption DEF ScheduleType, Awaits, WorkRecords
<1>9. \A d \in Calls : Working(d) => call[d].job.identity \in Nat
  BY BusyRecord DEF IInv, Working, InSession, CallRecords, Jobs
<1>10. Newest'
  BY <1>1, <1>2, <1>4, <1>5, <1>6, <1>7, <1>9, RecoveryAssumption DEF Newest, Working
<1> QED
  BY <1>1, <1>2, <1>7, <1>8, <1>10 DEF IInv, ScheduleInv

\* The result of the awaited call is taken.
LEMMA ConsumePreserves ==
    ASSUME IInv, awaited # NoCall, call[awaited].pc \in {"thrown", "returned"}, Consume,
           UNCHANGED work, phase' \in {"noting", "renoting", "settling", "ending"}
    PROVE  IInv'
<1>1. /\ ScheduleType
      /\ Newest
      /\ awaited \in Calls
      /\ call \in [Calls -> CallRecords \union {Idle}]
  BY DEF IInv, OwnerInv, OwnerType, ScheduleInv, ScheduleType
<1>2. Idle.pc = "idle"
  BY DEF Idle
<1>3. OwnerInv'
  BY <1>1, <1>2, OutsidePreserves DEF Consume, IInv, InSession, Closes
<1>4. \A d \in Calls : call'[d] = IF d = awaited THEN Idle ELSE call[d]
  BY <1>1 DEF Consume
<1>5. ScheduleType' /\ Awaits'
  BY <1>1 DEF ScheduleType, Awaits, Consume
<1>6. Newest'
  BY <1>1, <1>2, <1>4 DEF Newest, Working, InSession, Consume
<1> QED
  BY <1>3, <1>5, <1>6 DEF IInv, ScheduleInv

LEMMA WorkFacts ==
    ASSUME IInv
    PROVE  /\ work \in WorkRecords
           /\ awaited \in Calls \union {NoCall}
           /\ awaited # NoCall <=> phase \in {"running", "retrying"}
           /\ awaited # NoCall => call[awaited].pc # "idle"
BY DEF IInv, ScheduleInv, ScheduleType, Awaits, WorkRecords

\* What the scheduler does of its own accord.
LEMMA SchedulerPreserves ==
    ASSUME IInv, Begin \/ Stop \/ Settle \/ Ran \/ Noted \/ Retry \/ Expire \/ Retried
    PROVE  IInv'
<1> DEFINE next == [work EXCEPT !.task = @ + 1, !.attempt = 1, !.obsolete = FALSE,
                                !.retries = 0]
           again == [work EXCEPT !.attempt = @ + 1, !.retries = 0]
           newer == [work EXCEPT !.identity = @ + 1]
           retry == [work EXCEPT !.retries = @ + 1]
<1>1. /\ work \in WorkRecords
      /\ awaited # NoCall <=> phase \in {"running", "retrying"}
  BY WorkFacts
<1>2. /\ next \in WorkRecords /\ next.identity = work.identity
      /\ again \in WorkRecords /\ again.identity = work.identity
      /\ newer \in WorkRecords /\ work.identity <= newer.identity
      /\ retry \in WorkRecords /\ work.identity <= retry.identity
  <2>1. work.task + 1 \in Nat /\ work.attempt + 1 \in Nat
    BY <1>1 DEF WorkRecords
  <2>2. next \in WorkRecords
    BY <1>1, <2>1 DEF WorkRecords
  <2>3. again \in WorkRecords
    BY <1>1, <2>1 DEF WorkRecords
  <2>4. newer \in WorkRecords /\ retry \in WorkRecords
    BY <1>1 DEF WorkRecords
  <2>5. /\ work.identity \in Nat
        /\ next.identity = work.identity
        /\ again.identity = work.identity
        /\ newer.identity = work.identity + 1
        /\ retry.identity = work.identity
    BY <1>1 DEF WorkRecords
  <2> QED
    BY <2>2, <2>3, <2>4, <2>5
<1> HIDE DEF next, again, newer, retry
<1>3. CASE Begin
  <2>1. work' = newer /\ Call(newer, "running") /\ awaited = NoCall
    BY <1>1, <1>3 DEF Begin, newer
  <2> QED
    BY <1>2, <2>1, CallPreserves
<1>4. CASE Retry
  <2>1. work' = retry /\ Call(retry, "retrying") /\ awaited = NoCall
    BY <1>1, <1>4 DEF Retry, retry
  <2> QED
    BY <1>2, <2>1, CallPreserves
<1>5. CASE Stop
  BY <1>1, <1>5, QuietPreserves DEF Stop
<1>6. CASE Settle
  <2>1. work' \in {next, again}
    BY <1>6 DEF Settle, next, again
  <2>2. phase' \in {"ending", "between"} /\ UNCHANGED <<ownerVars, awaited>>
    BY <1>6 DEF Settle
  <2> QED
    BY <1>1, <1>2, <1>6, <2>1, <2>2, QuietPreserves DEF Settle
<1>7. CASE Noted
  BY <1>1, <1>7, QuietPreserves DEF Noted, Throws, Comes
<1>8. CASE Expire
  BY <1>1, <1>8, QuietPreserves DEF Expire, Throws, Comes
<1>9. CASE Ran
  BY <1>1, <1>9, ConsumePreserves DEF Ran, Throws, Comes
<1>10. CASE Retried
  BY <1>1, <1>10, ConsumePreserves DEF Retried, Throws, Comes
<1> QED
  BY <1>3, <1>4, <1>5, <1>6, <1>7, <1>8, <1>9, <1>10

\* The attempt is cancelled: its call is told, and perhaps left behind.
LEMMA CancellationPreserves ==
    ASSUME IInv, Deadline \/ Replace \/ Abort
    PROVE  IInv'
<1>1. /\ work \in WorkRecords
      /\ awaited \in Calls \union {NoCall}
      /\ awaited # NoCall <=> phase \in {"running", "retrying"}
      /\ awaited # NoCall => call[awaited].pc # "idle"
  BY WorkFacts
<1>2. OwnerInv
  BY DEF IInv
<1>3. ASSUME awaited # NoCall, call' = [call EXCEPT ![awaited] = Signalled(awaited)],
             UNCHANGED <<session, retained, active, closed, shutdown>>
      PROVE  OwnerInv' /\ Steady /\ call'[awaited].signal
  BY <1>1, <1>2, <1>3, SignalPreserves DEF Closes
<1>4. CASE Deadline
  BY <1>1, <1>3, <1>4, SteadyPreserves DEF Deadline, Throws, Comes
<1>5. CASE Abort
  <2>1. \/ phase' = phase /\ awaited' = awaited
        \/ phase' \in {"settling", "ending"} /\ awaited' = NoCall
    BY <1>5 DEF Abort, Leaves, Throws, Comes
  <2>2. CASE awaited = NoCall
    BY <1>1, <1>2, <1>5, <2>1, <2>2, OwnerUnchanged, SteadyPreserves, RecoveryAssumption
       DEF Abort, ownerVars
  <2>3. CASE awaited # NoCall
    BY <1>1, <1>3, <1>5, <2>1, <2>3, SteadyPreserves DEF Abort
  <2> QED
    BY <2>2, <2>3
<1>6. CASE Replace
  <2>1. work.identity \in Nat
    BY <1>1 DEF WorkRecords
  <2>2. active # NoActive => call[active].job.identity <= work.identity
    BY <1>2 DEF OwnerInv, OwnerType, Lock, IInv, ScheduleInv, Newest
  <2>3. /\ OwnerInv'
        /\ Steady
        /\ IsActive(work.identity) => call'[active].signal
    BY <1>2, <1>6, <2>1, <2>2, InvalidatePreserves DEF Replace
  <2>4. work' \in WorkRecords /\ work'.identity = work.identity
    BY <1>1, <1>6 DEF Replace, WorkRecords
  <2>5. \/ phase' = phase /\ awaited' = awaited
        \/ phase' \in {"settling", "ending"} /\ awaited' = NoCall
    BY <1>6 DEF Replace, Leaves, Throws, Comes
  <2>6. \A c \in Calls : c = awaited /\ Working(c)' => call'[c].signal
    <3> SUFFICES ASSUME NEW c \in Calls, c = awaited, Working(c)'
                 PROVE  call'[c].signal
      OBVIOUS
    <3>1. Working(c)
      BY <2>3 DEF Steady
    <3>2. active = c /\ active # NoActive
      BY <1>2, <3>1, OwnerAssumption DEF OwnerInv, Lock
    <3>3. IsActive(work.identity)
      BY <3>2, RecoveryAssumption DEF IsActive, IInv, ScheduleInv, Awaits
    <3> QED
      BY <2>3, <3>2, <3>3
  <2> QED
    BY <2>3, <2>4, <2>5, <2>6, SteadyPreserves
<1> QED
  BY <1>4, <1>5, <1>6

\* A call that nobody waits for is dropped.
LEMMA ForgottenPreserves ==
    ASSUME IInv, Forgotten
    PROVE  IInv'
<1>1. PICK c \in Calls \ {awaited} :
          call[c].pc = "returned" /\ call' = [call EXCEPT ![c] = Idle]
  BY DEF Forgotten
<1>2. Idle.pc = "idle"
  BY DEF Idle
<1>3. OwnerInv'
  BY <1>1, <1>2, OutsidePreserves DEF Forgotten, IInv, InSession, Closes
<1>4. \A d \in Calls : call'[d] = IF d = c THEN Idle ELSE call[d]
  BY <1>1 DEF IInv, OwnerInv, OwnerType
<1>5. ScheduleType' /\ Awaits' /\ Newest'
  BY <1>1, <1>2, <1>4
     DEF IInv, ScheduleInv, ScheduleType, Awaits, Newest, Working, InSession, Forgotten,
         attemptVars
<1> QED
  BY <1>3, <1>5 DEF IInv, ScheduleInv, Forgotten, attemptVars

\* The owner takes a step of its own.
LEMMA OwnerStepPreserves ==
    ASSUME OwnerInv, NEW c \in Calls, OwnerStep(c)
    PROVE  OwnerInv' /\ Steady
<1>1. CASE Assign(c)
  BY <1>1, AssignPreserves, AssignSteady
<1>2. CASE Created(c)
  BY <1>2, CreatedPreserves
<1>3. ASSUME NEW f \in Failures, CreationFails(c, f)
      PROVE  OwnerInv' /\ Steady
  BY <1>3, CreationFailsPreserves
<1>4. CASE Measure(c)
  BY <1>4, MeasurePreserves
<1>5. ASSUME NEW usable \in Usages, Return(c, usable)
      PROVE  OwnerInv' /\ Steady
  BY <1>5, ReturnPreserves
<1> QED
  BY <1>1, <1>2, <1>3, <1>4, <1>5 DEF OwnerStep

LEMMA WorkerPreserves ==
    ASSUME IInv, Worker
    PROVE  IInv'
<1>1. OwnerInv' /\ Steady
  BY OwnerStepPreserves DEF IInv, Worker
<1> QED
  BY <1>1, WorkFacts, SteadyPreserves DEF Worker, attemptVars

LEMMA EndStepPreserves ==
    ASSUME IInv, End
    PROVE  IInv'
<1>1. CASE Shutdown \/ ShutdownEnds
  <2>1. OwnerInv' /\ Steady
    BY <1>1, ShutdownPreserves DEF IInv
  <2>2. phase' = phase /\ awaited' = awaited
    BY <1>1 DEF End, Shutdown, ShutdownEnds, DisposeRetained, IInv, OwnerInv, Disposal
  <2> QED
    BY <2>1, <2>2, WorkFacts, SteadyPreserves DEF End
<1>2. CASE shutdown = "disposed" /\ phase' = "ended" /\ UNCHANGED ownerVars
  BY <1>2, WorkFacts, QuietPreserves DEF End
<1> QED
  BY <1>1, <1>2 DEF End

LEMMA NextPreserves == IInv /\ [Next]_vars => IInv'
<1> SUFFICES ASSUME IInv, [Next]_vars PROVE IInv'
  OBVIOUS
<1>1. CASE UNCHANGED vars
  BY <1>1, OwnerUnchanged, WorkFacts, SteadyPreserves DEF vars, attemptVars, IInv
<1> QED
  BY <1>1, SchedulerPreserves, CancellationPreserves, ForgottenPreserves, WorkerPreserves,
     EndStepPreserves DEF Next

-----------------------------------------------------------------------------
(* The theorems.                                                            *)
THEOREM Invariant == Spec => []IInv
BY InitEstablishes, NextPreserves, PTL DEF Spec

\* In every run, of any length: two assignments of the owner are never at work at the
\* same time, no session is lost, and none is taken from the assignment that uses it.
THEOREM SessionIsExclusive == Spec => []ExclusiveSession
<1>1. IInv => ExclusiveSession
  <2> SUFFICES ASSUME IInv PROVE ExclusiveSession
    OBVIOUS
  <2>1. \A c, d \in Calls : Working(c) /\ Working(d) => c = d
    BY OneAtWork DEF IInv
  <2>2. Cardinality({s \in Sessions : session[s].open}) <= 1
    <3> DEFINE opened == {s \in Sessions : session[s].open}
    <3>1. opened \subseteq {retained.session}
      BY DEF IInv, OwnerInv, Held
    <3>2. IsFiniteSet({retained.session}) /\ Cardinality({retained.session}) = 1
      BY FS_Singleton
    <3> QED
      BY <3>1, <3>2, FS_Subset
  <2>3. \A c \in Calls : call[c].pc \in InSession =>
            /\ retained # NoRetained
            /\ retained.session = call[c].session
            /\ session[call[c].session].open
    BY DEF IInv, OwnerInv, Held
  <2> QED
    BY <2>1, <2>2, <2>3 DEF ExclusiveSession
<1> QED
  BY <1>1, Invariant, PTL

\* A session takes another assignment only after a completed one, or with the next
\* attempt at a task it made partial work on, at the level chosen for that assignment.
THEOREM ContinuationIsHealthy == Spec => []OnlyHealthyContinuation
<1>1. IInv => OnlyHealthyContinuation
  BY DEF IInv, OwnerInv
<1> QED
  BY <1>1, Invariant, PTL

\* A result that completes a task was given to the assignment it is reported for.
THEOREM ResultBelongs == Spec => []ResultIsOwn
<1>1. IInv => ResultIsOwn
  BY DEF IInv, OwnerInv
<1> QED
  BY <1>1, Invariant, PTL

\* A run that has ended left no session open and no call at work, and a call that the
\* scheduler left behind was told to stop.
THEOREM NothingIsLeft == Spec => []NothingLeftBehind
<1>1. IInv => NothingLeftBehind
  BY OwnerAssumption DEF IInv, OwnerInv, ScheduleInv, NothingLeftBehind, Lock, Held, Newest, Disposal
<1> QED
  BY <1>1, Invariant, PTL
=============================================================================
