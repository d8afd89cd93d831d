------------------------------ MODULE Extension ------------------------------
(***************************************************************************)
(* The shell of the extension (src/src/index.ts) around concurrent tool      *)
(* calls: each runs a coordinator, whose progress updates, network outages   *)
(* and costs (src/src/coordinator.ts) reach the sidebar and the bill of the  *)
(* chat, and the user's guidance is routed to one of them                    *)
(* (ActiveLongTaskSteeringRouter of src/src/steering.ts).  The host's user   *)
(* interface calls the factories it was given whenever it likes.             *)
(***************************************************************************)
EXTENDS Naturals, FiniteSets, FiniteSetsExt, Functions

CONSTANTS Calls, NoCall,
          Nothing,        \* no update yet
          Status,         \* an ordinary update; one about an outage is its number
          NoComponent, Factory, Component,  \* what the host has of a component
          Unknown,        \* a worker's cost before it is done
          LongTasks,      \* the calls of pi_long_task; the others are of pi_goal_task
          Operations,     \* of each call, those that may meet a network outage
          Workers,        \* of each call, the worker executions it may start
          Modes,          \* "tui", or another one without components
          MaxCost,        \* bound on the cost of a run
          MaxGuidance     \* bound on the messages the user types

ASSUME CallAssumption == /\ IsFiniteSet(Calls) /\ NoCall \notin Calls
                         /\ LongTasks \subseteq Calls
                         /\ Operations \in [Calls -> SUBSET (Nat \ {0})]
                         /\ \A c \in Calls : /\ IsFiniteSet(Operations[c])
                                             /\ Status \notin Operations[c]
                         /\ Workers \in [Calls -> SUBSET (Nat \ {0})]
                         /\ \A c \in Calls : IsFiniteSet(Workers[c])
                         /\ Unknown \notin Nat

VARIABLES mode,
          phase,      \* of a call: "idle", "running", "closing", "ended"
          registered, \* calls whose queue the router has
          guided,     \* messages that each queue was given
          pending,    \* pendingWorkerCostTotal
          charged     \* what was added to the messages of the assistant

\* What a run tells: its outages, each "new", "active", "recovered" or "over"; and
\* whether it told anything before (lastProgress).
VARIABLES outage, told

\* What a run spends: the current worker, the name it goes by (its task and attempt)
\* and how far it is ("working", "obsolete" once a revision replaced its attempt,
\* "done", "failed" with an error that ends the run, "replaced" when obsolete and
\* over), the cost each worker caused, and what is known of it while it works and
\* when it is over.
VARIABLES worker, name, stage, cost, live, final

\* Its sessions: whether the network interrupted one of the current worker, what the
\* latest one spent, and of each worker whether its latest session was given up, and
\* what such a session spent.
VARIABLES recovering, session, abandoned, lost

\* The sidebar of a call: the latest update, the component in the widget and in the
\* overlay with the update that it shows, and the host's one slot for the widget.
VARIABLES latest, closed, widget, overlay, slot

runs == <<outage, told>>
costs == <<worker, name, stage, cost, live, final, recovering, session, abandoned, lost>>
screen == <<latest, closed, widget, overlay, slot>>
shell == <<phase, registered, guided, pending, charged>>
vars == <<mode, shell, runs, costs, screen>>

EmptySlot == [by |-> NoCall, shows |-> Nothing]

Init == /\ mode \in Modes
        /\ phase = [c \in Calls |-> "idle"]
        /\ registered = {}
        /\ guided = [c \in Calls |-> 0]
        /\ pending = 0
        /\ charged = 0
        /\ outage = [c \in Calls |-> [o \in Operations[c] |-> "new"]]
        /\ told = [c \in Calls |-> FALSE]
        /\ worker = [c \in Calls |-> 0]
        /\ name = [c \in Calls |-> 0]
        /\ stage = [c \in Calls |-> "done"]
        /\ cost = [c \in Calls |-> [w \in Workers[c] |-> 0]]
        /\ live = [c \in Calls |-> [w \in Workers[c] |-> 0]]
        /\ final = [c \in Calls |-> [w \in Workers[c] |-> Unknown]]
        /\ recovering = [c \in Calls |-> FALSE]
        /\ session = [c \in Calls |-> 0]
        /\ abandoned = [c \in Calls |-> {}]
        /\ lost = [c \in Calls |-> [w \in Workers[c] |-> 0]]
        /\ latest = [c \in Calls |-> Nothing]
        /\ closed = [c \in Calls |-> FALSE]
        /\ widget = [c \in Calls |-> NoComponent]
        /\ overlay = [c \in Calls |-> [stage |-> "none", shows |-> NoComponent]]
        /\ slot = EmptySlot

-----------------------------------------------------------------------------
(* The sidebar (createLongTaskSidebarController).                           *)

\* update: a component in use gets it; without one in the widget the lines are set
\* in place of whatever the slot holds.
Show(c, update) ==
    /\ latest' = [latest EXCEPT ![c] = update]
    /\ widget' = [widget EXCEPT ![c] = IF @ = NoComponent THEN @ ELSE update]
    /\ overlay' = [overlay EXCEPT ![c].shows = IF @ = NoComponent THEN @ ELSE update]
    /\ slot' = IF widget[c] = NoComponent THEN [by |-> c, shows |-> update] ELSE slot
    /\ UNCHANGED closed

\* The slot gets a factory, of which the host has not made a component yet.
Open(c) ==
    /\ slot' = [by |-> c, shows |-> IF mode = "tui" THEN Factory ELSE Nothing]
    /\ overlay' = [overlay EXCEPT ![c].stage = IF mode = "tui" THEN "requested" ELSE "none"]
    /\ UNCHANGED <<latest, closed, widget>>

\* The host calls the factory of the widget in its slot.
BuildWidget(c) ==
    /\ slot = [by |-> c, shows |-> Factory]
    /\ widget' = [widget EXCEPT ![c] = latest[c]]
    /\ slot' = [slot EXCEPT !.shows = Component]
    /\ UNCHANGED <<mode, shell, runs, costs, latest, closed, overlay>>

\* Mutant: the sidebar may be closed by then.
BuildOverlay_Late(c) ==
    /\ overlay[c].stage = "requested"
    /\ overlay' = [overlay EXCEPT ![c] = [stage |-> "built", shows |-> latest[c]]]
    /\ UNCHANGED <<mode, shell, runs, costs, latest, closed, widget, slot>>

\* It calls the factory of the overlay, which is done at once after close; it may
\* never do so.
BuildOverlay(c) ==
    /\ overlay[c].stage = "requested"
    /\ overlay' = [overlay EXCEPT ![c] =
                      IF closed[c] THEN [stage |-> "gone", shows |-> NoComponent]
                      ELSE [stage |-> "built", shows |-> latest[c]]]
    /\ UNCHANGED <<mode, shell, runs, costs, latest, closed, widget, slot>>

\* close: the slot is emptied, and an overlay is hidden through its handle, or told
\* that it is done if the host has not given the handle yet.
CloseSidebar(c) ==
    /\ closed' = [closed EXCEPT ![c] = TRUE]
    /\ slot' = EmptySlot
    /\ widget' = [widget EXCEPT ![c] = NoComponent]
    /\ overlay' = [overlay EXCEPT ![c] =
                      IF @.stage = "built"
                      THEN [stage |-> "gone", shows |-> NoComponent] ELSE @]
    /\ UNCHANGED latest

-----------------------------------------------------------------------------
(* Progress of a run.                                                       *)

\* activeNetworkRecoveries, with what just became of one.
Active(outages) == {o \in DOMAIN outages : outages[o] = "active"}

\* Mutant: the status is restored whatever else goes on.
Current_Status(outages) == Status

\* What emitProgress and a recovered operation publish: the outage of the latest
\* operation, or the status.
Current(outages) == IF Active(outages) = {} THEN Status ELSE Max(Active(outages))

\* emitProgress, from anywhere in the run.
EmitProgress(c) ==
    /\ phase[c] = "running"
    /\ told' = [told EXCEPT ![c] = TRUE]
    /\ Show(c, Current(outage[c]))
    /\ UNCHANGED <<mode, shell, outage, costs>>

\* An event of an outage that goes on.  The run tells a status before it starts an
\* operation.
OutageEvent(c, o) ==
    /\ phase[c] = "running"
    /\ told[c]
    /\ outage[c][o] \in {"new", "active"}
    /\ outage' = [outage EXCEPT ![c][o] = "active"]
    /\ IF o = Current(outage'[c]) THEN Show(c, o) ELSE UNCHANGED screen
    /\ UNCHANGED <<mode, shell, told, costs>>

\* The operation recovered.
Recovered(c, o) ==
    /\ phase[c] = "running"
    /\ outage[c][o] = "active"
    /\ outage' = [outage EXCEPT ![c][o] = "recovered"]
    /\ Show(c, Current(outage'[c]))
    /\ UNCHANGED <<mode, shell, told, costs>>

\* It failed, was cancelled or expired: what becomes of the run is told next.
OutageOver(c, o) ==
    /\ phase[c] = "running"
    /\ outage[c][o] = "active"
    /\ outage' = [outage EXCEPT ![c][o] = "over"]
    /\ UNCHANGED <<mode, shell, told, costs, screen>>

-----------------------------------------------------------------------------
(* Costs of a run (WorkerCostState).                                        *)

\* Mutant: workers are known by their task and attempt.
AccountingWorker_ByName(c) == name[c]

\* accountingWorker: a task and attempt, made unique by the number of the execution.
AccountingWorker(c) == worker[c]

\* recomputeWorkerCostTotal.
Total(c) == SumFunction([w \in Workers[c] |-> IF final[c][w] = Unknown THEN live[c][w]
                                              ELSE final[c][w]])
Working(c) == stage[c] \in {"working", "obsolete"}

\* A worker execution begins when the one before it is settled.  The attempt that
\* replaces an obsolete one may have its task number and attempt.
StartWorker(c, w) ==
    /\ phase[c] = "running"
    /\ w \in Workers[c]
    /\ w = worker[c] + 1
    /\ stage[c] \in {"done", "replaced"}
    /\ worker' = [worker EXCEPT ![c] = w]
    /\ name' \in {[name EXCEPT ![c] = n] : n \in IF stage[c] = "replaced" THEN {name[c], w} ELSE {w}}
    /\ stage' = [stage EXCEPT ![c] = "working"]
    /\ UNCHANGED <<mode, shell, runs, cost, live, final, recovering, session, abandoned, lost, screen>>

Replace(c) ==
    /\ phase[c] = "running"
    /\ stage[c] = "working"
    /\ stage' = [stage EXCEPT ![c] = "obsolete"]
    /\ UNCHANGED <<mode, shell, runs, worker, name, cost, live, final,
                   recovering, session, abandoned, lost, screen>>

\* The worker ends a message with a cost; onEvent passes over an obsolete worker,
\* and recordLiveWorkerCost over a settled one.
UseModel(c) ==
    /\ phase[c] = "running"
    /\ Working(c)
    /\ SumFunction(cost[c]) < MaxCost
    /\ cost' = [cost EXCEPT ![c][worker[c]] = @ + 1]
    /\ session' = [session EXCEPT ![c] = @ + 1]
    /\ live' = IF stage[c] = "working" /\ final[c][AccountingWorker(c)] = Unknown
               THEN [live EXCEPT ![c][AccountingWorker(c)] = @ + 1] ELSE live
    /\ UNCHANGED <<mode, shell, runs, worker, name, stage, final, recovering, abandoned,
                   lost, screen>>

\* recordRecoverableInterruption: the network failed a session, whose outcome is kept;
\* a retry is another session.
Interrupt(c) ==
    /\ phase[c] = "running"
    /\ Working(c)
    /\ recovering' = [recovering EXCEPT ![c] = TRUE]
    /\ session' = [session EXCEPT ![c] = 0]
    /\ UNCHANGED <<mode, shell, runs, worker, name, stage, cost, live, final, abandoned,
                   lost, screen>>

\* finalizeWorkerCost, and what follows it.
Settle(c, amount, over) ==
    /\ final' = [final EXCEPT ![c][AccountingWorker(c)] = amount]
    /\ stage' = [stage EXCEPT ![c] = over]
    /\ recovering' = [recovering EXCEPT ![c] = FALSE]
    /\ session' = [session EXCEPT ![c] = 0]

\* It is called with the cost of the latest session's statistics, and of those before
\* it; a failure that no retry can mend is thrown after that.
FinalizeWorkerCost(c) ==
    /\ phase[c] = "running"
    /\ Working(c)
    /\ \E over \in IF stage[c] = "obsolete" THEN {"replaced"} ELSE {"done", "failed"} :
          Settle(c, cost[c][worker[c]], over)
    /\ UNCHANGED <<mode, shell, runs, worker, name, cost, live, abandoned, lost, screen>>

\* A recovery is cancelled or expires while a session retries, or an obsolete attempt
\* rejects: only what the interrupted sessions cost is kept, the live cost of this one
\* goes, and the error is thrown on unless the attempt is obsolete.
CutOff(c) ==
    /\ phase[c] = "running"
    /\ Working(c)
    /\ recovering[c] \/ stage[c] = "obsolete"
    /\ Settle(c, cost[c][worker[c]] - session[c],
              IF stage[c] = "obsolete" THEN "replaced" ELSE "failed")
    /\ lost' = [lost EXCEPT ![c][worker[c]] = session[c]]
    /\ abandoned' = [abandoned EXCEPT ![c] = @ \union {worker[c]}]
    /\ UNCHANGED <<mode, shell, runs, worker, name, cost, live, screen>>

\* The session that was cut off spends until it stops, which nobody records.
SpendUnseen(c, w) ==
    /\ phase[c] \in {"running", "closing"}
    /\ w \in abandoned[c]
    /\ SumFunction(cost[c]) < MaxCost
    /\ cost' = [cost EXCEPT ![c][w] = @ + 1]
    /\ lost' = [lost EXCEPT ![c][w] = @ + 1]
    /\ UNCHANGED <<mode, shell, runs, worker, name, stage, live, final, recovering, session,
                   abandoned, screen>>

-----------------------------------------------------------------------------
(* Calls of the tools, and the chat around them.                            *)

Execute(c) ==
    /\ phase[c] = "idle"
    /\ phase' = [phase EXCEPT ![c] = "running"]
    /\ registered' = registered \union ({c} \intersect LongTasks)
    /\ Open(c)
    /\ UNCHANGED <<mode, guided, pending, charged, runs, costs>>

\* runCoordinator tells how it ended, also when a worker that is not obsolete threw
\* without an outcome; from then on nothing is told, and it waits for its sessions.
Complete(c) ==
    /\ phase[c] = "running"
    /\ stage[c] # "obsolete"
    /\ ~recovering[c]
    /\ phase' = [phase EXCEPT ![c] = "closing"]
    /\ told' = [told EXCEPT ![c] = TRUE]
    /\ Show(c, Current(outage[c]))
    /\ UNCHANGED <<mode, registered, guided, pending, charged, outage, costs>>

\* Mutant: the queue stays with the router.
Finally_KeepsQueue(c) ==
    /\ phase' = [phase EXCEPT ![c] = "ended"]
    /\ UNCHANGED registered
    /\ CloseSidebar(c)

\* finally of execute.
Finally(c) ==
    /\ phase' = [phase EXCEPT ![c] = "ended"]
    /\ registered' = registered \ {c}
    /\ CloseSidebar(c)

\* Its result comes back.
Return(c) ==
    /\ phase[c] = "closing"
    /\ pending' = pending + Total(c)
    /\ Finally(c)
    /\ UNCHANGED <<mode, guided, charged, runs, costs>>

\* applyToAssistantMessage.
MessageEnd ==
    /\ pending > 0
    /\ charged' = charged + pending
    /\ pending' = 0
    /\ UNCHANGED <<mode, phase, registered, guided, runs, costs, screen>>

\* handleLongTaskInput: the user types while the assistant is busy.  Without a run,
\* or with several of them, the text goes its ordinary way.
Route ==
    /\ Cardinality(registered) = 1
    /\ \E c \in registered :
        /\ guided[c] < MaxGuidance
        /\ guided' = [guided EXCEPT ![c] = @ + 1]
    /\ UNCHANGED <<mode, phase, registered, pending, charged, runs, costs, screen>>

Next ==
    \/ \E c \in Calls :
        \/ Execute(c) \/ Complete(c) \/ Return(c)
        \/ EmitProgress(c)
        \/ \E o \in Operations[c] : OutageEvent(c, o) \/ Recovered(c, o) \/ OutageOver(c, o)
        \/ \E w \in Workers[c] : StartWorker(c, w) \/ SpendUnseen(c, w)
        \/ Replace(c) \/ UseModel(c) \/ Interrupt(c) \/ FinalizeWorkerCost(c) \/ CutOff(c)
        \/ BuildWidget(c) \/ BuildOverlay(c)
    \/ MessageEnd
    \/ Route

Spec == Init /\ [][Next]_vars

-----------------------------------------------------------------------------
\* What the user can read of a call in the widget and in the overlay.
Shown(c) ==
    ({widget[c], overlay[c].shows}
        \union (IF slot.by = c THEN {slot.shows} ELSE {}))
    \ {NoComponent, Factory, Component}

\* While the network is out the sidebar says so, whatever else is told and whenever
\* the host makes its components, and speaks of no outage that a later one
\* overtook; an outage that is over by recovery is gone from it.
SidebarTellsOutages ==
    \A c \in Calls : phase[c] = "running" =>
        \A update \in Shown(c) :
            /\ Active(outage[c]) # {} =>
                  update \in Operations[c] /\ update >= Max(Active(outage[c]))
            /\ update \in Operations[c] => outage[c][update] # "recovered"

\* A call that is over leaves nothing on the screen, also if the host makes the
\* overlay only then.
ScreenCleared ==
    \A c \in Calls : phase[c] = "ended" =>
        /\ slot.by # c
        /\ overlay[c].stage # "built"

\* What the sessions that were not given up spent.
Awaited(c) == [w \in Workers[c] |-> cost[c][w] - lost[c][w]]
Spent(c) == SumFunction(Awaited(c))

\* Every cost of a run that is over, those of replaced attempts and of sessions that
\* the network interrupted included, is charged to one message or waits for one; only
\* what a session spends that was given up in its retry is charged to none.
SpendCounted ==
    charged + pending = SumFunctionOnSet([c \in Calls |-> Spent(c)],
                                         {c \in Calls : phase[c] = "ended"})

\* Guidance that the user is told is queued is in the queue of a run that goes on,
\* the only one it can be meant for ("guidance is not guessed between them",
\* README.md:224).
GuidanceReachesRun ==
    [][\A c \in Calls : guided'[c] # guided[c] =>
            /\ phase[c] \in {"running", "closing"}
            /\ \A d \in LongTasks \ {c} : phase[d] \in {"idle", "ended"}]_vars
=============================================================================
