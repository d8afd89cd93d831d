--------------------------- MODULE ExtensionProofs ---------------------------
(***************************************************************************)
(* ScreenCleared, GuidanceReachesRun, SidebarTellsOutages and SpendCounted   *)
(* of Extension for any number of calls, outages, workers and messages: what *)
(* depends on the order in which calls begin and end, operations meet        *)
(* outages, workers are replaced, and the host makes the components of the   *)
(* sidebars.                                                                 *)
(***************************************************************************)
EXTENDS Extension, FiniteSetTheorems, WellFoundedInduction, TLAPS

Phases == {"idle", "running", "closing", "ended"}
GoingOn == {"running", "closing"}

\* An overlay is a record, whatever it shows.
TypeInv == /\ phase \in [Calls -> Phases]
           /\ closed \in [Calls -> BOOLEAN]
           /\ guided \in [Calls -> Nat]
           /\ overlay = [c \in Calls |-> [stage |-> overlay[c].stage,
                                          shows |-> overlay[c].shows]]

\* The router has the queues of the calls that go on.
Routed == registered = {c \in LongTasks : phase[c] \in GoingOn}

\* A call that is over closed its sidebar, which therefore cannot be built any more.
Cleared == \A c \in Calls : phase[c] = "ended" =>
               /\ closed[c]
               /\ slot.by # c
               /\ overlay[c].stage # "built"

IInv == TypeInv /\ Routed /\ Cleared

-----------------------------------------------------------------------------
\* At first no call has begun.
LEMMA InitEstablishes == Init => IInv
<1> SUFFICES ASSUME Init PROVE IInv
  OBVIOUS
<1>1. TypeInv
  BY DEF Init, TypeInv, Phases
<1>2. Routed
  BY CallAssumption DEF Init, Routed, GoingOn
<1>3. Cleared
  BY DEF Init, Cleared
<1> QED
  BY <1>1, <1>2, <1>3 DEF IInv

\* Updates come from calls that go on; they leave sidebars open and unbuilt ones unbuilt.
LEMMA ShowPreserves ==
    ASSUME IInv, NEW c \in Calls, NEW update, phase[c] = "running", Show(c, update),
           phase' \in {phase, [phase EXCEPT ![c] = "closing"]},
           UNCHANGED <<registered, guided>>
    PROVE  IInv'
<1> USE DEF IInv, Show
<1>1. TypeInv'
  BY DEF TypeInv, Phases
<1>2. Routed'
  BY CallAssumption DEF Routed, TypeInv, GoingOn
<1>3. \A d \in Calls : overlay'[d].stage = overlay[d].stage
  BY DEF TypeInv
<1>4. Cleared'
  <2> SUFFICES ASSUME NEW d \in Calls, phase'[d] = "ended"
               PROVE  closed'[d] /\ slot'.by # d /\ overlay'[d].stage # "built"
    BY DEF Cleared
  <2>1. phase[d] = "ended" /\ d # c
    BY DEF TypeInv
  <2> QED
    BY <2>1, <1>3 DEF Cleared
<1> QED
  BY <1>1, <1>2, <1>4

\* A call begins.
LEMMA ExecutePreserves ==
    ASSUME IInv, NEW c \in Calls, Execute(c)
    PROVE  IInv'
<1> USE DEF IInv, Execute, Open
<1>1. TypeInv'
  BY DEF TypeInv, Phases
<1>2. Routed'
  BY CallAssumption DEF Routed, TypeInv, GoingOn
<1>3. Cleared'
  BY DEF Cleared, TypeInv
<1> QED
  BY <1>1, <1>2, <1>3

\* A call ends, and closes its sidebar.
LEMMA ReturnPreserves ==
    ASSUME IInv, NEW c \in Calls, Return(c)
    PROVE  IInv'
<1> USE DEF IInv, Return, Finally, CloseSidebar
<1>1. TypeInv'
  BY DEF TypeInv, Phases
<1>2. Routed'
  BY CallAssumption DEF Routed, TypeInv, GoingOn
<1>3. overlay'[c].stage # "built"
  BY DEF TypeInv
<1>4. slot'.by = NoCall
  BY DEF EmptySlot
<1>5. Cleared'
  BY <1>3, <1>4, CallAssumption DEF Cleared, TypeInv
<1> QED
  BY <1>1, <1>2, <1>5

\* The host makes a component.
LEMMA BuildPreserves ==
    ASSUME IInv, NEW c \in Calls, BuildWidget(c) \/ BuildOverlay(c)
    PROVE  IInv'
<1> USE DEF IInv, shell
<1>1. CASE BuildWidget(c)
  BY <1>1 DEF BuildWidget, TypeInv, Routed, Cleared
<1>2. CASE BuildOverlay(c)
  <2> USE <1>2 DEF BuildOverlay
  <2>1. TypeInv'
    BY DEF TypeInv
  <2>2. Routed'
    BY DEF Routed
  <2>3. phase[c] = "ended" => overlay'[c].stage # "built"
    BY DEF TypeInv, Cleared
  <2>4. Cleared'
    BY <2>3 DEF Cleared, TypeInv
  <2> QED
    BY <2>1, <2>2, <2>4
<1> QED
  BY <1>1, <1>2

\* What touches neither the calls nor what they show.
LEMMA OthersPreserve ==
    ASSUME IInv, UNCHANGED <<phase, registered, screen>>,
           guided' \in [Calls -> Nat]
    PROVE  IInv'
BY DEF IInv, TypeInv, Routed, Cleared, screen

\* What a worker does to the accounts of its run.
Accounts(c) ==
    \/ \E w \in Workers[c] : StartWorker(c, w) \/ SpendUnseen(c, w)
    \/ Replace(c) \/ UseModel(c) \/ Interrupt(c) \/ FinalizeWorkerCost(c) \/ CutOff(c)

\* It shows nothing, and ends no call.
LEMMA AccountsFacts ==
    ASSUME NEW c \in Calls, Accounts(c)
    PROVE  phase[c] \in GoingOn /\ UNCHANGED <<mode, shell, runs, screen>>
BY DEF Accounts, GoingOn, StartWorker, SpendUnseen, Replace, UseModel, Interrupt,
       FinalizeWorkerCost, CutOff

\* Every step preserves the invariant.
LEMMA NextPreserves == ASSUME IInv, [Next]_vars PROVE IInv'
<1> USE DEF shell
<1>0. guided \in [Calls -> Nat]
  BY DEF IInv, TypeInv
<1>1. ASSUME NEW c \in Calls, Execute(c) PROVE IInv'
  BY <1>1, ExecutePreserves
<1>2. ASSUME NEW c \in Calls, Complete(c) PROVE IInv'
  BY <1>2, ShowPreserves DEF Complete
<1>3. ASSUME NEW c \in Calls, Return(c) PROVE IInv'
  BY <1>3, ReturnPreserves
<1>4. ASSUME NEW c \in Calls, EmitProgress(c) PROVE IInv'
  BY <1>4, ShowPreserves DEF EmitProgress
<1>5. ASSUME NEW c \in Calls, NEW o \in Operations[c], OutageEvent(c, o) PROVE IInv'
  <2>1. CASE o = Current(outage'[c])
    BY <1>5, <2>1, ShowPreserves DEF OutageEvent
  <2>2. CASE o # Current(outage'[c])
    BY <1>0, <1>5, <2>2, OthersPreserve DEF OutageEvent
  <2> QED
    BY <2>1, <2>2
<1>6. ASSUME NEW c \in Calls, NEW o \in Operations[c], Recovered(c, o) PROVE IInv'
  BY <1>6, ShowPreserves DEF Recovered
<1>7. ASSUME NEW c \in Calls, NEW o \in Operations[c], OutageOver(c, o) PROVE IInv'
  BY <1>0, <1>7, OthersPreserve DEF OutageOver
<1>8. ASSUME NEW c \in Calls, Accounts(c) PROVE IInv'
  BY <1>0, <1>8, OthersPreserve, AccountsFacts
<1>9. ASSUME NEW c \in Calls, BuildWidget(c) \/ BuildOverlay(c) PROVE IInv'
  BY <1>9, BuildPreserves
<1>10. CASE MessageEnd
  BY <1>0, <1>10, OthersPreserve DEF MessageEnd
<1>11. CASE Route
  <2>1. PICK c \in registered : guided' = [guided EXCEPT ![c] = @ + 1]
    BY <1>11 DEF Route
  <2>2. c \in Calls
    BY CallAssumption DEF IInv, Routed
  <2>3. guided' \in [Calls -> Nat]
    BY <1>0, <2>1, <2>2
  <2> QED
    BY <1>11, <2>3, OthersPreserve DEF Route
<1>12. CASE UNCHANGED vars
  BY <1>0, <1>12, OthersPreserve DEF vars
<1> QED
  BY <1>1, <1>2, <1>3, <1>4, <1>5, <1>6, <1>7, <1>8, <1>9, <1>10, <1>11, <1>12
     DEF Next, Accounts

-----------------------------------------------------------------------------
\* Whenever the host makes the components of a sidebar, and however many calls there
\* are, a call that is over leaves nothing on the screen.
THEOREM SidebarGone == Spec => []ScreenCleared
<1>1. Init => IInv
  BY InitEstablishes
<1>2. IInv /\ [Next]_vars => IInv'
  BY NextPreserves
<1>3. IInv => ScreenCleared
  BY DEF IInv, Cleared, ScreenCleared
<1> QED
  BY <1>1, <1>2, <1>3, PTL DEF Spec

\* Guidance is only ever given to the queue of the one long task that goes on.
THEOREM GuidanceGoesToTheRun == Spec => GuidanceReachesRun
<1>1. Init => IInv
  BY InitEstablishes
<1>2. IInv /\ [Next]_vars => IInv'
  BY NextPreserves
<1>3. IInv /\ [Next]_vars =>
          [\A c \in Calls : guided'[c] # guided[c] =>
               /\ phase[c] \in {"running", "closing"}
               /\ \A d \in LongTasks \ {c} : phase[d] \in {"idle", "ended"}]_vars
  <2> SUFFICES ASSUME IInv, Next, NEW c \in Calls, guided'[c] # guided[c]
               PROVE  /\ phase[c] \in {"running", "closing"}
                      /\ \A d \in LongTasks \ {c} : phase[d] \in {"idle", "ended"}
    OBVIOUS
  <2>1. Route
    BY DEF Next, Execute, Complete, Return, EmitProgress, OutageEvent, Recovered,
           OutageOver, StartWorker, SpendUnseen, Replace, UseModel, Interrupt,
           FinalizeWorkerCost, CutOff, BuildWidget,
           BuildOverlay, MessageEnd, shell
  <2>2. registered \subseteq LongTasks /\ registered \subseteq Calls
    BY CallAssumption DEF IInv, Routed
  <2>3. IsFiniteSet(registered)
    BY <2>2, CallAssumption, FS_Subset
  <2>4. PICK d : registered = {d}
    BY <2>1, <2>3, FS_Singleton DEF Route
  <2>5. c = d
    BY <2>1, <2>2, <2>4 DEF Route, IInv, TypeInv
  <2> QED
    BY <2>2, <2>4, <2>5, CallAssumption DEF IInv, TypeInv, Routed, Phases, GoingOn
<1> QED
  BY <1>1, <1>2, <1>3, PTL DEF Spec, GuidanceReachesRun

-----------------------------------------------------------------------------
(* What the sidebar says of outages.                                        *)
\* A finite set of numbers has a greatest one: the smallest counterexample would have
\* one without one of its elements.
LEMMA MaxFacts ==
    ASSUME NEW S, S \subseteq Nat, IsFiniteSet(S), S # {}
    PROVE  Max(S) \in S /\ \A x \in S : Max(S) >= x
<1> DEFINE HasMax(U) == \E x \in U : \A y \in U : x >= y
           Without == {U \in FiniteSubsetsOf(Nat) : U # {} /\ ~HasMax(U)}
<1>1. Without = {}
  <2> SUFFICES ASSUME Without # {} PROVE FALSE
    OBVIOUS
  <2>1. IsWellFoundedOn(StrictSubsetOrdering(Nat), FiniteSubsetsOf(Nat))
    BY FS_StrictSubsetOrderingWellFounded
  <2>2. Without \subseteq FiniteSubsetsOf(Nat)
    OBVIOUS
  <2> HIDE DEF Without
  <2>3. PICK U \in Without : \A V \in Without : ~ (<<V, U>> \in StrictSubsetOrdering(Nat))
    BY <2>1, <2>2, WFMin
  <2> USE DEF Without
  <2>4. U \subseteq Nat /\ IsFiniteSet(U) /\ U # {} /\ ~HasMax(U)
    BY DEF FiniteSubsetsOf
  <2>5. PICK x \in U : TRUE
    BY <2>4
  <2> DEFINE V == U \ {x}
  <2>6. V \in FiniteSubsetsOf(Nat)
    BY <2>4, FS_Subset DEF FiniteSubsetsOf
  <2>7. <<V, U>> \in StrictSubsetOrdering(Nat)
    BY <2>4, <2>5 DEF StrictSubsetOrdering
  <2>8. V = {} \/ HasMax(V)
    BY <2>3, <2>6, <2>7
  <2>9. HasMax(U)
    BY <2>4, <2>5, <2>8
  <2> QED
    BY <2>4, <2>9
<1>2. HasMax(S)
  BY <1>1 DEF FiniteSubsetsOf
<1> QED
  BY <1>2 DEF Max

Outages == {"new", "active", "recovered", "over"}

ScreenShape ==
    /\ phase \in [Calls -> Phases]
    /\ outage = [c \in Calls |-> outage[c]]
    /\ \A c \in Calls : outage[c] \in [Operations[c] -> Outages]
    /\ latest = [c \in Calls |-> latest[c]]
    /\ widget = [c \in Calls |-> widget[c]]
    /\ overlay = [c \in Calls |-> [stage |-> overlay[c].stage, shows |-> overlay[c].shows]]
    /\ slot = [by |-> slot.by, shows |-> slot.shows]

\* A component in the slot of a call stands in for its lines; a call that has not
\* begun has none, and met no outage.
Fresh == /\ \A c \in Calls : slot.by = c /\ widget[c] # NoComponent => slot.shows = Component
         /\ \A c \in Calls : phase[c] = "idle" =>
               /\ slot.by # c
               /\ widget[c] = NoComponent
               /\ \A o \in Operations[c] : outage[c][o] = "new"

\* An update that may stand in the sidebar of a call.
Right(c, update) ==
    /\ Active(outage[c]) # {} => update \in Operations[c] /\ update >= Max(Active(outage[c]))
    /\ update \in Operations[c] => outage[c][update] # "recovered"

\* The latest update counts too: a component that is made later shows it.
Told == \A c \in Calls : phase[c] = "running" =>
            Right(c, latest[c]) /\ \A update \in Shown(c) : Right(c, update)

TellInv == ScreenShape /\ Fresh /\ Told

\* At first nothing is shown and nothing is out.
LEMMA TellInit == Init => TellInv
<1> SUFFICES ASSUME Init PROVE TellInv
  OBVIOUS
<1>1. ScreenShape
  BY DEF Init, ScreenShape, Phases, Outages, EmptySlot
<1>2. Fresh
  BY CallAssumption DEF Init, Fresh, EmptySlot
<1>3. Told
  BY DEF Init, Told
<1> QED
  BY <1>1, <1>2, <1>3 DEF TellInv

\* The active outages of a call have a latest one.
LEMMA ActiveFacts ==
    ASSUME NEW c \in Calls, NEW f \in [Operations[c] -> Outages]
    PROVE  /\ Active(f) = {o \in Operations[c] : f[o] = "active"}
           /\ Active(f) \subseteq Nat
           /\ Active(f) # {} => /\ Max(Active(f)) \in Active(f)
                               /\ \A o \in Active(f) : Max(Active(f)) >= o
<1>1. Active(f) = {o \in Operations[c] : f[o] = "active"}
  BY DEF Active
<1>2. Active(f) \subseteq Nat /\ IsFiniteSet(Active(f))
  BY <1>1, CallAssumption, FS_Subset
<1> QED
  BY <1>1, <1>2, MaxFacts

\* What is current may stand in the sidebar.
LEMMA CurrentIsRight ==
    ASSUME NEW c \in Calls, outage[c] \in [Operations[c] -> Outages]
    PROVE  Right(c, Current(outage[c]))
BY ActiveFacts, CallAssumption DEF Right, Current

\* An update goes wherever the call shows something, and nowhere else.
LEMMA ShowFacts ==
    ASSUME TellInv, NEW c \in Calls, NEW update, Show(c, update)
    PROVE  /\ latest'[c] = update
           /\ \A u \in Shown(c)' : u = update
           /\ \A d \in Calls \ {c} : latest'[d] = latest[d] /\ Shown(d)' \subseteq Shown(d)
           /\ latest' = [d \in Calls |-> latest'[d]]
           /\ widget' = [d \in Calls |-> widget'[d]]
           /\ overlay' = [d \in Calls |-> [stage |-> overlay'[d].stage,
                                           shows |-> overlay'[d].shows]]
           /\ slot' = [by |-> slot'.by, shows |-> slot'.shows]
           /\ \A d \in Calls : widget[d] = NoComponent => widget'[d] = NoComponent
           /\ slot'.by \in {c, slot.by}
           /\ \A d \in Calls :
                 slot'.by = d /\ widget'[d] # NoComponent => slot'.shows = Component
<1> USE DEF TellInv, ScreenShape, Show
<1>1. /\ latest'[c] = update
      /\ widget'[c] = IF widget[c] = NoComponent THEN NoComponent ELSE update
      /\ overlay'[c].shows = IF overlay[c].shows = NoComponent THEN NoComponent ELSE update
  OBVIOUS
<1>2. \A d \in Calls \ {c} : latest'[d] = latest[d] /\ widget'[d] = widget[d]
                              /\ overlay'[d] = overlay[d]
  OBVIOUS
<1>3. /\ slot' = IF widget[c] = NoComponent THEN [by |-> c, shows |-> update] ELSE slot
      /\ widget[c] # NoComponent /\ slot.by = c => slot.shows = Component
  BY DEF Fresh
<1>4. \A u \in Shown(c)' : u = update
  BY <1>1, <1>3 DEF Shown
<1>5. \A d \in Calls \ {c} : Shown(d)' \subseteq Shown(d)
  BY <1>2, <1>3 DEF Shown
<1>6. \A d \in Calls : slot'.by = d /\ widget'[d] # NoComponent => slot'.shows = Component
  BY <1>1, <1>2, <1>3 DEF Fresh
<1>7. /\ latest' = [d \in Calls |-> latest'[d]]
      /\ widget' = [d \in Calls |-> widget'[d]]
  OBVIOUS
<1>8. overlay' = [d \in Calls |-> [stage |-> overlay'[d].stage, shows |-> overlay'[d].shows]]
  OBVIOUS
<1>9. slot' = [by |-> slot'.by, shows |-> slot'.shows]
  BY <1>3
<1>10. \A d \in Calls : widget[d] = NoComponent => widget'[d] = NoComponent
  BY <1>1, <1>2
<1> QED
  BY <1>1, <1>2, <1>3, <1>4, <1>5, <1>6, <1>7, <1>8, <1>9, <1>10

\* A run that goes on shows what is current.
LEMMA ShowTells ==
    ASSUME TellInv, NEW c \in Calls, NEW update, phase[c] = "running", Show(c, update),
           phase' \in {phase, [phase EXCEPT ![c] = "closing"]},
           NEW f \in [Operations[c] -> Outages], outage' = [outage EXCEPT ![c] = f],
           phase'[c] = "running" => Right(c, update)'
    PROVE  TellInv'
<1> USE DEF TellInv, ScreenShape
<1>1. /\ latest'[c] = update
      /\ \A u \in Shown(c)' : u = update
      /\ \A d \in Calls \ {c} : latest'[d] = latest[d] /\ Shown(d)' \subseteq Shown(d)
      /\ latest' = [d \in Calls |-> latest'[d]]
      /\ widget' = [d \in Calls |-> widget'[d]]
      /\ overlay' = [d \in Calls |-> [stage |-> overlay'[d].stage,
                                      shows |-> overlay'[d].shows]]
      /\ slot' = [by |-> slot'.by, shows |-> slot'.shows]
      /\ \A d \in Calls : widget[d] = NoComponent => widget'[d] = NoComponent
      /\ slot'.by \in {c, slot.by}
      /\ \A d \in Calls :
            slot'.by = d /\ widget'[d] # NoComponent => slot'.shows = Component
  BY ShowFacts
<1>2. /\ outage'[c] = f
      /\ outage' = [d \in Calls |-> outage'[d]]
      /\ \A d \in Calls \ {c} : outage'[d] = outage[d] /\ phase'[d] = phase[d]
      /\ phase'[c] # "idle"
      /\ phase' \in [Calls -> Phases]
  BY DEF Phases
<1>3. ScreenShape'
  BY <1>1, <1>2
<1>4. Fresh'
  BY <1>1, <1>2 DEF Fresh
<1>5. ASSUME NEW d \in Calls, d # c, NEW u, Right(d, u)
      PROVE  Right(d, u)'
  BY <1>2, <1>5 DEF Right
<1>6. Told'
  <2> SUFFICES ASSUME NEW d \in Calls, (phase[d] = "running")'
               PROVE  Right(d, latest[d])' /\ \A u \in Shown(d)' : Right(d, u)'
    BY DEF Told
  <2>1. CASE d = c
    BY <1>1, <2>1
  <2>2. CASE d # c
    <3>1. Right(d, latest[d]) /\ \A u \in Shown(d) : Right(d, u)
      BY <1>2, <2>2 DEF Told
    <3>2. latest'[d] = latest[d] /\ Shown(d)' \subseteq Shown(d)
      BY <1>1, <2>2
    <3> QED
      BY <1>5, <2>2, <3>1, <3>2
  <2> QED
    BY <2>1, <2>2
<1> QED
  BY <1>3, <1>4, <1>6

\* The latest active outage is still active unless it is the one that changed.
LEMMA ActiveBefore ==
    ASSUME NEW c \in Calls, NEW o \in Operations[c],
           NEW f \in [Operations[c] -> Outages], NEW g \in [Operations[c] -> Outages],
           \A p \in Operations[c] \ {o} : f[p] = g[p],
           Active(f) # {}, Max(Active(f)) # o
    PROVE  /\ Max(Active(f)) \in Nat /\ Max(Active(g)) \in Nat
           /\ Max(Active(g)) >= Max(Active(f))
           /\ Active(g) # {}
<1>1. /\ Active(f) = {p \in Operations[c] : f[p] = "active"}
      /\ Active(f) \subseteq Nat
      /\ Max(Active(f)) \in Active(f)
  BY ActiveFacts
<1>2. /\ Active(g) = {p \in Operations[c] : g[p] = "active"}
      /\ Active(g) \subseteq Nat
      /\ Active(g) # {} => /\ Max(Active(g)) \in Active(g)
                          /\ \A p \in Active(g) : Max(Active(g)) >= p
  BY ActiveFacts
<1>3. Max(Active(f)) \in Active(g)
  BY <1>1, <1>2
<1> QED
  BY <1>1, <1>2, <1>3

\* An outage ends or goes on without a word.
LEMMA OutageTells ==
    ASSUME TellInv, NEW c \in Calls, NEW o \in Operations[c], phase[c] = "running",
           NEW became \in {"active", "over"},
           outage' = [outage EXCEPT ![c][o] = became],
           became = "active" => Current(outage'[c]) # o,
           UNCHANGED <<phase, screen>>
    PROVE  TellInv'
<1> USE DEF TellInv, ScreenShape, screen
<1> DEFINE f == [outage[c] EXCEPT ![o] = became]
<1>1. /\ outage'[c] = f
      /\ outage' = [d \in Calls |-> outage'[d]]
      /\ \A d \in Calls \ {c} : outage'[d] = outage[d]
      /\ f \in [Operations[c] -> Outages]
  BY DEF Outages
<1>2. ScreenShape' /\ Fresh'
  BY <1>1 DEF Fresh
<1>3. \A u : Right(c, u) => Right(c, u)'
  <2> SUFFICES ASSUME NEW u, Right(c, u) PROVE Right(c, u)'
    OBVIOUS
  <2>1. u \in Operations[c] => f[u] # "recovered"
    BY <1>1 DEF Right
  <2>2. ASSUME Active(f) # {} PROVE u \in Operations[c] /\ u >= Max(Active(f))
    <3>1. Max(Active(f)) # o
      <4>1. CASE became = "active"
        BY <1>1, <2>2, <4>1 DEF Current
      <4>2. CASE became = "over"
        <5>1. f \in [Operations[c] -> Outages] /\ f[o] # "active"
          BY <1>1, <4>2
        <5> HIDE DEF f
        <5> QED
          BY <5>1, <2>2, ActiveFacts
      <4> QED
        BY <4>1, <4>2
    <3>2. /\ f \in [Operations[c] -> Outages]
          /\ outage[c] \in [Operations[c] -> Outages]
          /\ \A p \in Operations[c] \ {o} : f[p] = outage[c][p]
      BY <1>1
    <3> HIDE DEF f, TellInv, ScreenShape
    <3>3. /\ Max(Active(f)) \in Nat /\ Max(Active(outage[c])) \in Nat
          /\ Max(Active(outage[c])) >= Max(Active(f))
          /\ Active(outage[c]) # {}
      BY <2>2, <3>1, <3>2, ActiveBefore
    <3>4. u \in Operations[c] /\ u >= Max(Active(outage[c]))
      BY <3>3 DEF Right
    <3> QED
      BY <3>3, <3>4, CallAssumption
  <2> QED
    BY <1>1, <2>1, <2>2 DEF Right
<1>4. ASSUME NEW d \in Calls, d # c, NEW u, Right(d, u)
      PROVE  Right(d, u)'
  BY <1>1, <1>4 DEF Right
<1>5. Told'
  <2> SUFFICES ASSUME NEW d \in Calls, phase[d] = "running", NEW u,
                      u = latest[d] \/ u \in Shown(d)
               PROVE  Right(d, u)'
    BY DEF Told, Shown
  <2> QED
    BY <1>3, <1>4 DEF Told
<1> QED
  BY <1>2, <1>5

\* A call begins with an empty sidebar, and ends with none.
LEMMA CallTells ==
    ASSUME TellInv, NEW c \in Calls, UNCHANGED outage,
           \/ phase[c] = "idle" /\ phase' = [phase EXCEPT ![c] = "running"] /\ Open(c)
           \/ phase' = [phase EXCEPT ![c] = "ended"] /\ CloseSidebar(c)
    PROVE  TellInv'
<1> USE DEF TellInv, ScreenShape
<1>1. CASE phase[c] = "idle" /\ phase' = [phase EXCEPT ![c] = "running"] /\ Open(c)
  <2>1. ScreenShape'
    <3>1. phase' \in [Calls -> Phases]
      BY <1>1 DEF Phases
    <3>2. overlay' = [d \in Calls |-> [stage |-> overlay'[d].stage,
                                       shows |-> overlay'[d].shows]]
      BY <1>1 DEF Open
    <3>3. slot' = [by |-> slot'.by, shows |-> slot'.shows]
      BY <1>1 DEF Open
    <3> QED
      BY <1>1, <3>1, <3>2, <3>3 DEF Open
  <2>2. Fresh'
    BY <1>1 DEF Fresh, Open, Phases
  <2>3. \A u : Right(c, u)'
    BY <1>1 DEF Fresh, Right, Active
  <2>4. \A d \in Calls \ {c} : /\ latest'[d] = latest[d]
                               /\ Shown(d)' \subseteq Shown(d)
                               /\ phase'[d] = phase[d]
    BY <1>1 DEF Open, Shown
  <2>5. Told'
    BY <1>1, <2>3, <2>4 DEF Told, Right
  <2> QED
    BY <2>1, <2>2, <2>5
<1>2. CASE phase' = [phase EXCEPT ![c] = "ended"] /\ CloseSidebar(c)
  <2>1. ScreenShape'
    BY <1>2 DEF CloseSidebar, Phases, EmptySlot
  <2>2. Fresh'
    BY <1>2, CallAssumption DEF Fresh, CloseSidebar, EmptySlot
  <2>3. \A d \in Calls \ {c} : /\ latest'[d] = latest[d]
                               /\ Shown(d)' \subseteq Shown(d)
                               /\ phase'[d] = phase[d]
    BY <1>2, CallAssumption DEF CloseSidebar, EmptySlot, Shown
  <2>4. Told'
    BY <1>2, <2>3 DEF Told, Right
  <2> QED
    BY <2>1, <2>2, <2>4
<1> QED
  BY <1>1, <1>2

\* A component that the host makes shows the latest update.
LEMMA BuildTells ==
    ASSUME TellInv, NEW c \in Calls, BuildWidget(c) \/ BuildOverlay(c)
    PROVE  TellInv'
<1> USE DEF TellInv, ScreenShape
<1>1. UNCHANGED <<phase, outage, latest>>
  BY DEF BuildWidget, BuildOverlay, shell, runs
<1>2. CASE BuildWidget(c)
  <2>1. /\ slot = [by |-> c, shows |-> Factory]
        /\ slot' = [by |-> c, shows |-> Component]
        /\ widget' = [widget EXCEPT ![c] = latest[c]]
        /\ overlay' = overlay
    BY <1>2 DEF BuildWidget
  <2>2. /\ widget'[c] = latest[c]
        /\ \A d \in Calls \ {c} : widget'[d] = widget[d]
        /\ widget' = [d \in Calls |-> widget'[d]]
    BY <2>1
  <2>3. \A d \in Calls : Shown(d)' \subseteq Shown(d) \union {latest[d]}
    BY <2>1, <2>2 DEF Shown
  <2>4. ScreenShape'
    BY <1>1, <2>1, <2>2
  <2>5. Fresh'
    BY <1>1, <2>1, <2>2 DEF Fresh
  <2>6. Told'
    BY <1>1, <2>3 DEF Told, Right
  <2> QED
    BY <2>4, <2>5, <2>6
<1>3. CASE BuildOverlay(c)
  <2> DEFINE new == IF closed[c] THEN [stage |-> "gone", shows |-> NoComponent]
                    ELSE [stage |-> "built", shows |-> latest[c]]
  <2>1. /\ overlay' = [overlay EXCEPT ![c] = new]
        /\ new.shows \in {NoComponent, latest[c]}
        /\ new = [stage |-> new.stage, shows |-> new.shows]
        /\ UNCHANGED <<slot, widget>>
    BY <1>3 DEF BuildOverlay
  <2> HIDE DEF new
  <2>2. /\ overlay'[c].shows \in {NoComponent, latest[c]}
        /\ \A d \in Calls \ {c} : overlay'[d] = overlay[d]
        /\ overlay' = [d \in Calls |-> [stage |-> overlay'[d].stage,
                                        shows |-> overlay'[d].shows]]
    BY <2>1
  <2>3. \A d \in Calls : Shown(d)' \subseteq Shown(d) \union {latest[d]}
    BY <2>1, <2>2 DEF Shown
  <2>4. ScreenShape'
    BY <1>1, <2>1, <2>2
  <2>5. Fresh'
    BY <1>1, <2>1 DEF Fresh
  <2>6. Told'
    BY <1>1, <2>3 DEF Told, Right
  <2> QED
    BY <2>4, <2>5, <2>6
<1> QED
  BY <1>2, <1>3

\* Steps that are about neither progress nor the screen.
LEMMA OthersTell ==
    ASSUME TellInv, UNCHANGED <<phase, outage, screen>>
    PROVE  TellInv'
BY DEF TellInv, ScreenShape, Fresh, Told, Right, Shown, screen

\* Every step keeps the sidebar right.
LEMMA TellNext == ASSUME TellInv, [Next]_vars PROVE TellInv'
<1> USE DEF shell, runs
<1>1. ASSUME NEW c \in Calls PROVE outage[c] \in [Operations[c] -> Outages]
  BY DEF TellInv, ScreenShape
<1>2. ASSUME NEW c \in Calls, EmitProgress(c) \/ Complete(c) PROVE TellInv'
  <2>1. outage' = [outage EXCEPT ![c] = outage[c]] /\ outage' = outage
    BY <1>2 DEF EmitProgress, Complete, TellInv, ScreenShape
  <2>2. Right(c, Current(outage[c]))'
    BY <1>1, <2>1, CurrentIsRight DEF Right
  <2> QED
    BY <1>1, <1>2, <2>1, <2>2, ShowTells DEF EmitProgress, Complete
<1>3. ASSUME NEW c \in Calls, NEW o \in Operations[c], NEW became \in Outages,
             outage' = [outage EXCEPT ![c][o] = became]
      PROVE  \E f \in [Operations[c] -> Outages] :
                 outage' = [outage EXCEPT ![c] = f] /\ outage'[c] = f
  <2>1. [outage[c] EXCEPT ![o] = became] \in [Operations[c] -> Outages]
    BY <1>1
  <2> QED
    BY <1>3, <2>1 DEF TellInv, ScreenShape
<1>4. ASSUME NEW c \in Calls, NEW f \in [Operations[c] -> Outages], outage'[c] = f,
             NEW u, u = Current(outage'[c])
      PROVE  Right(c, u)'
  <2>1. /\ Active(f) = {o \in Operations[c] : f[o] = "active"}
        /\ Active(f) # {} => Max(Active(f)) \in Active(f)
        /\ Active(f) \subseteq Nat
        /\ Status \notin Operations[c]
        /\ u = IF Active(f) = {} THEN Status ELSE Max(Active(f))
    BY <1>4, ActiveFacts, CallAssumption DEF Current
  <2>2. Active(f) # {} => u \in Operations[c] /\ u >= Max(Active(f))
    BY <2>1
  <2>3. u \in Operations[c] => f[u] # "recovered"
    BY <2>1
  <2> QED
    BY <1>4, <2>2, <2>3 DEF Right
<1>5. ASSUME NEW c \in Calls, NEW o \in Operations[c], OutageEvent(c, o) PROVE TellInv'
  <2>1. /\ phase[c] = "running" /\ phase' = phase
        /\ outage' = [outage EXCEPT ![c][o] = "active"]
    BY <1>5 DEF OutageEvent
  <2>2. CASE o = Current(outage'[c])
    <3>1. PICK f \in [Operations[c] -> Outages] :
              outage' = [outage EXCEPT ![c] = f] /\ outage'[c] = f
      BY <1>3, <2>1 DEF Outages
    <3>2. Right(c, o)'
      BY <1>4, <2>2, <3>1
    <3>3. Show(c, o)
      BY <1>5, <2>2 DEF OutageEvent
    <3> QED
      BY <2>1, <3>1, <3>2, <3>3, ShowTells
  <2>3. CASE o # Current(outage'[c])
    BY <1>5, <2>1, <2>3, OutageTells DEF OutageEvent
  <2> QED
    BY <2>2, <2>3
<1>6. ASSUME NEW c \in Calls, NEW o \in Operations[c], Recovered(c, o) PROVE TellInv'
  <2>1. /\ phase[c] = "running" /\ phase' = phase
        /\ outage' = [outage EXCEPT ![c][o] = "recovered"]
        /\ Show(c, Current(outage'[c]))
    BY <1>6 DEF Recovered
  <2>2. PICK f \in [Operations[c] -> Outages] :
            outage' = [outage EXCEPT ![c] = f] /\ outage'[c] = f
    BY <1>3, <2>1 DEF Outages
  <2>3. PICK u : u = Current(outage'[c])
    OBVIOUS
  <2>4. Right(c, u)'
    BY <1>4, <2>2, <2>3
  <2> QED
    BY <2>1, <2>2, <2>3, <2>4, ShowTells
<1>7. ASSUME NEW c \in Calls, NEW o \in Operations[c], OutageOver(c, o) PROVE TellInv'
  BY <1>7, OutageTells DEF OutageOver
<1>8. ASSUME NEW c \in Calls, Execute(c) \/ Return(c) PROVE TellInv'
  BY <1>8, CallTells DEF Execute, Return, Finally
<1>9. ASSUME NEW c \in Calls, BuildWidget(c) \/ BuildOverlay(c) PROVE TellInv'
  BY <1>9, BuildTells
<1>10. ASSUME NEW c \in Calls, Accounts(c) PROVE TellInv'
  BY <1>10, OthersTell, AccountsFacts
<1>11. ASSUME MessageEnd \/ Route \/ UNCHANGED vars PROVE TellInv'
  BY <1>11, OthersTell DEF MessageEnd, Route, vars
<1> QED
  BY <1>2, <1>5, <1>6, <1>7, <1>8, <1>9, <1>10, <1>11 DEF Next, Accounts

\* However many operations of however many calls meet an outage, and whenever the host
\* makes the components, a running call's sidebar speaks of the latest outage that goes
\* on or of a later one, and of none that recovered.
THEOREM SidebarSpeaksOfOutages == Spec => []SidebarTellsOutages
<1>1. Init => TellInv
  BY TellInit
<1>2. TellInv /\ [Next]_vars => TellInv'
  BY TellNext
<1>3. TellInv => SidebarTellsOutages
  BY DEF TellInv, Told, Right, SidebarTellsOutages
<1> QED
  BY <1>1, <1>2, <1>3, PTL DEF Spec

-----------------------------------------------------------------------------
(* Sums over finite sets, by the smallest set on which they would be wrong.   *)

Any(s) == CHOOSE x \in s : TRUE

\* One step of a sum: an element is added to the sum of the others.
Added(f, total, s) == IF s = {} THEN 0 ELSE f[Any(s)] + total[s \ {Any(s)}]

\* The recursion behind a sum (MapThenFoldSet of the community modules).
Summing(f, S, total) ==
    total = [s \in SUBSET S |-> Added(f, total, s)]

\* The same up to a size.
Smaller(S, n) == {s \in SUBSET S : Cardinality(s) <= n}

SummingTo(f, S, n, total) ==
    total = [s \in Smaller(S, n) |-> Added(f, total, s)]

\* A set of numbers has a smallest one.
LEMMA Smallest ==
    ASSUME NEW S, S \subseteq Nat, S # {}
    PROVE  \E i \in S : \A j \in S : i <= j
<1> DEFINE Less == OpToRel(<, Nat)
<1>1. IsWellFoundedOn(Less, Nat)
  BY NatLessThanWellFounded
<1>2. \A j \in Nat, i \in Nat : j < i => <<j, i>> \in Less
  BY Zenon DEF OpToRel
<1> HIDE DEF Less
<1>3. PICK i \in S : \A j \in S : ~ (<<j, i>> \in Less)
  BY <1>1, WFMin
<1>4. \A j \in S : ~ (j < i)
  BY <1>2, <1>3
<1> QED
  BY <1>3, <1>4

\* A set without an element has one fewer.
LEMMA OneFewer ==
    ASSUME NEW S, IsFiniteSet(S), NEW s \in SUBSET S, NEW x \in s
    PROVE  /\ Cardinality(s) \in Nat /\ Cardinality(s \ {x}) \in Nat
           /\ Cardinality(s \ {x}) = Cardinality(s) - 1
           /\ s \ {x} \in SUBSET S
<1>1. IsFiniteSet(s)
  BY FS_Subset
<1>2. IsFiniteSet(s \ {x}) /\ Cardinality(s \ {x}) = Cardinality(s) - 1
  BY <1>1, FS_RemoveElement
<1> QED
  BY <1>1, <1>2, FS_CardinalityType

\* Over a finite set there is such a function.
LEMMA SumExists ==
    ASSUME NEW f, NEW S, IsFiniteSet(S)
    PROVE  \E total : Summing(f, S, total)
<1> DEFINE lacking == {n \in Nat : ~ \E total : SummingTo(f, S, n, total)}
<1>1. lacking = {}
  <2> SUFFICES ASSUME lacking # {} PROVE FALSE
    OBVIOUS
  <2>1. PICK n \in lacking : \A m \in lacking : n <= m
    BY Smallest
  <2>2. n \in Nat /\ ~ \E total : SummingTo(f, S, n, total)
    OBVIOUS
  <2> HIDE DEF lacking
  <2>3. CASE n = 0
    <3> DEFINE total == [s \in Smaller(S, n) |-> 0]
    <3>1. \A s \in Smaller(S, n) : s = {}
      <4> SUFFICES ASSUME NEW s \in Smaller(S, n), s # {} PROVE FALSE
        OBVIOUS
      <4>1. PICK x \in s : TRUE
        OBVIOUS
      <4>2. s \in SUBSET S /\ Cardinality(s) <= 0
        BY <2>3 DEF Smaller
      <4>3. /\ Cardinality(s) \in Nat /\ Cardinality(s \ {x}) \in Nat
            /\ Cardinality(s \ {x}) = Cardinality(s) - 1
        BY <4>1, <4>2, OneFewer
      <4> QED
        BY <4>2, <4>3
    <3>2. SummingTo(f, S, n, total)
      BY <3>1 DEF SummingTo, Added
    <3> QED
      BY <2>2, <3>2
  <2>4. CASE n # 0
    <3>1. n - 1 \in Nat /\ n - 1 \notin lacking
      BY <2>1, <2>2, <2>4
    <3>2. PICK less : SummingTo(f, S, n - 1, less)
      BY <3>1 DEF lacking
    <3> DEFINE total == [s \in Smaller(S, n) |-> Added(f, less, s)]
    <3>3. \A s \in Smaller(S, n - 1) : s \in Smaller(S, n) /\ less[s] = Added(f, less, s)
      <4>1. \A s \in SUBSET S : Cardinality(s) \in Nat
        BY FS_Subset, FS_CardinalityType
      <4>2. Smaller(S, n - 1) \subseteq Smaller(S, n)
        BY <2>2, <3>1, <4>1 DEF Smaller
      <4> QED
        BY <3>2, <4>2 DEF SummingTo
    <3>4. \A s \in Smaller(S, n) : \A x \in s : s \ {x} \in Smaller(S, n - 1)
      <4> SUFFICES ASSUME NEW s \in Smaller(S, n), NEW x \in s
                   PROVE  s \ {x} \in Smaller(S, n - 1)
        OBVIOUS
      <4>1. s \in SUBSET S /\ Cardinality(s) <= n
        BY DEF Smaller
      <4>2. /\ Cardinality(s) \in Nat /\ Cardinality(s \ {x}) = Cardinality(s) - 1
            /\ s \ {x} \in SUBSET S
        BY <4>1, OneFewer
      <4>3. Cardinality(s \ {x}) <= n - 1
        BY <2>2, <4>1, <4>2
      <4> QED
        BY <4>2, <4>3 DEF Smaller
    <3>5. \A s \in Smaller(S, n - 1) : total[s] = less[s]
      BY <3>3
    <3> HIDE DEF total
    <3>6. \A s \in Smaller(S, n) : Added(f, less, s) = Added(f, total, s)
      <4> SUFFICES ASSUME NEW s \in Smaller(S, n), s # {}
                   PROVE  Added(f, less, s) = Added(f, total, s)
        BY DEF Added
      <4>1. Any(s) \in s
        BY DEF Any
      <4> QED
        BY <3>4, <3>5, <4>1 DEF Added
    <3>7. total = [s \in Smaller(S, n) |-> Added(f, total, s)]
      BY <3>6 DEF total
    <3> QED
      BY <2>2, <3>7 DEF SummingTo
  <2> QED
    BY <2>3, <2>4
<1>2. Cardinality(S) \in Nat
  BY FS_CardinalityType
<1>3. PICK total : SummingTo(f, S, Cardinality(S), total)
  BY <1>1, <1>2
<1>4. Smaller(S, Cardinality(S)) = SUBSET S
  BY <1>2, FS_Subset DEF Smaller
<1> QED
  BY <1>3, <1>4 DEF Summing, SummingTo

\* A sum depends on what it adds and on nothing else.
LEMMA SumsAgree ==
    ASSUME NEW f, NEW g, NEW S, IsFiniteSet(S), NEW T \in SUBSET S,
           \A x \in T : f[x] = g[x],
           NEW a, Summing(f, S, a), NEW b, Summing(g, T, b)
    PROVE  \A s \in SUBSET T : a[s] = b[s]
<1> DEFINE wrong == {Cardinality(s) : s \in {t \in SUBSET T : a[t] # b[t]}}
<1> SUFFICES ASSUME wrong # {} PROVE FALSE
  OBVIOUS
<1>1. wrong \subseteq Nat
  BY FS_Subset, FS_CardinalityType
<1>2. PICK n \in wrong : \A m \in wrong : n <= m
  BY <1>1, Smallest
<1>3. PICK s \in SUBSET T : a[s] # b[s] /\ n = Cardinality(s)
  OBVIOUS
<1>4. s # {}
  BY <1>3 DEF Summing, Added
<1> DEFINE x == Any(s)
<1>5. x \in s
  BY <1>4 DEF Any
<1>6. /\ s \ {x} \in SUBSET T
      /\ n \in Nat /\ Cardinality(s \ {x}) = n - 1
  BY <1>3, <1>5, OneFewer
<1>7. a[s \ {x}] = b[s \ {x}]
  BY <1>1, <1>2, <1>6
<1>8. a[s] = f[x] + a[s \ {x}] /\ b[s] = g[x] + b[s \ {x}]
  <2> HIDE DEF wrong
  <2> QED
    BY <1>4 DEF Summing, Added
<1>9. f[x] = g[x]
  BY <1>5
<1> QED
  BY <1>3, <1>7, <1>8, <1>9

\* Sums of numbers are numbers.
LEMMA SumNat ==
    ASSUME NEW f, NEW S, IsFiniteSet(S), \A x \in S : f[x] \in Nat,
           NEW a, Summing(f, S, a)
    PROVE  \A s \in SUBSET S : a[s] \in Nat
<1> DEFINE wrong == {Cardinality(s) : s \in {t \in SUBSET S : a[t] \notin Nat}}
<1> SUFFICES ASSUME wrong # {} PROVE FALSE
  OBVIOUS
<1>1. wrong \subseteq Nat
  BY FS_Subset, FS_CardinalityType
<1>2. PICK n \in wrong : \A m \in wrong : n <= m
  BY <1>1, Smallest
<1>3. PICK s \in SUBSET S : a[s] \notin Nat /\ n = Cardinality(s)
  OBVIOUS
<1>4. s # {}
  BY <1>3 DEF Summing, Added
<1> DEFINE x == Any(s)
<1>5. x \in s
  BY <1>4 DEF Any
<1>6. /\ s \ {x} \in SUBSET S
      /\ n \in Nat /\ Cardinality(s \ {x}) = n - 1
  BY <1>3, <1>5, OneFewer
<1>7. a[s \ {x}] \in Nat
  BY <1>1, <1>2, <1>6
<1>8. a[s] = f[x] + a[s \ {x}]
  <2> HIDE DEF wrong
  <2> QED
    BY <1>4 DEF Summing, Added
<1> QED
  BY <1>3, <1>5, <1>7, <1>8

\* Any element may be added last.
LEMMA SumAnyOrder ==
    ASSUME NEW f, NEW S, IsFiniteSet(S), \A x \in S : f[x] \in Nat,
           NEW a, Summing(f, S, a)
    PROVE  \A s \in SUBSET S : \A x \in s : a[s] = f[x] + a[s \ {x}]
<1> DEFINE Wrong(s) == \E x \in s : a[s] # f[x] + a[s \ {x}]
           wrong == {Cardinality(s) : s \in {t \in SUBSET S : Wrong(t)}}
<1> SUFFICES ASSUME wrong # {} PROVE FALSE
  OBVIOUS
<1>1. wrong \subseteq Nat
  BY FS_Subset, FS_CardinalityType
<1>2. PICK n \in wrong : \A m \in wrong : n <= m
  BY <1>1, Smallest
<1>3. PICK s \in SUBSET S : Wrong(s) /\ n = Cardinality(s)
  OBVIOUS
<1>4. PICK x \in s : a[s] # f[x] + a[s \ {x}]
  BY <1>3
<1> DEFINE y == Any(s)
<1>5. y \in s
  BY <1>4 DEF Any
<1>6. \A t \in SUBSET S : t # {} => a[t] = f[Any(t)] + a[t \ {Any(t)}]
  <2> HIDE DEF wrong
  <2> QED
    BY DEF Summing, Added
<1>7. a[s] = f[y] + a[s \ {y}]
  BY <1>4, <1>6
<1> HIDE DEF y
<1>8. y # x
  BY <1>4, <1>7
<1>9. /\ s \ {x} \in SUBSET S /\ s \ {y} \in SUBSET S /\ n \in Nat
      /\ Cardinality(s \ {x}) = n - 1 /\ Cardinality(s \ {y}) = n - 1
  BY <1>3, <1>4, <1>5, OneFewer
<1>10. ~Wrong(s \ {x}) /\ ~Wrong(s \ {y})
  <2>1. ASSUME NEW t \in SUBSET S, Cardinality(t) = n - 1 PROVE ~Wrong(t)
    <3> SUFFICES ASSUME Wrong(t) PROVE FALSE
      OBVIOUS
    <3> HIDE DEF Wrong
    <3>1. n - 1 \in wrong
      BY <2>1
    <3>2. n <= n - 1
      BY <1>2, <3>1
    <3> QED
      BY <1>9, <3>2
  <2> HIDE DEF Wrong, wrong
  <2> QED
    BY <1>9, <2>1
<1>11. /\ a[s \ {x}] = f[y] + a[(s \ {x}) \ {y}]
       /\ a[s \ {y}] = f[x] + a[(s \ {y}) \ {x}]
  BY <1>4, <1>5, <1>8, <1>10
<1>12. (s \ {x}) \ {y} = (s \ {y}) \ {x}
  OBVIOUS
<1> DEFINE rest == a[(s \ {y}) \ {x}]
<1>13. rest \in Nat /\ f[x] \in Nat /\ f[y] \in Nat
  <2>1. (s \ {y}) \ {x} \in SUBSET S
    OBVIOUS
  <2>2. \A t \in SUBSET S : a[t] \in Nat
    BY SumNat
  <2> HIDE DEF wrong, Wrong
  <2> QED
    BY <1>4, <1>5, <2>1, <2>2
<1>14. a[s] = f[y] + (f[x] + rest) /\ f[x] + a[s \ {x}] = f[x] + (f[y] + rest)
  BY <1>7, <1>11, <1>12
<1> HIDE DEF rest
<1> QED
  BY <1>4, <1>13, <1>14

\* What a sum is.
LEMMA SumIs ==
    ASSUME NEW f, NEW S, IsFiniteSet(S)
    PROVE  \E total : Summing(f, S, total) /\ SumFunctionOnSet(f, S) = total[S]
<1>1. \A total : Summing(f, S, total) <=>
          total = [s \in SUBSET S |-> IF s = {} THEN 0
                                      ELSE LET x == CHOOSE x \in s : TRUE
                                           IN f[x] + total[s \ {x}]]
  BY DEF Summing, Added, Any
<1>2. \E total : total = [s \in SUBSET S |-> IF s = {} THEN 0
                                      ELSE LET x == CHOOSE x \in s : TRUE
                                           IN f[x] + total[s \ {x}]]
  <2>1. PICK total : Summing(f, S, total)
    BY SumExists
  <2> WITNESS total
  <2> QED
    BY <1>1, <2>1
<1>3. \E total : /\ total = [s \in SUBSET S |-> IF s = {} THEN 0
                                      ELSE LET x == CHOOSE x \in s : TRUE
                                           IN f[x] + total[s \ {x}]]
                 /\ SumFunctionOnSet(f, S) = total[S]
  BY <1>2 DEF SumFunctionOnSet, FoldFunctionOnSet, MapThenFoldSet
<1> QED
  BY <1>1, <1>3

\* A sum of numbers is a number.
LEMMA SumIsNat ==
    ASSUME NEW f, NEW S, IsFiniteSet(S), \A x \in S : f[x] \in Nat
    PROVE  SumFunctionOnSet(f, S) \in Nat
<1>1. PICK a : Summing(f, S, a) /\ SumFunctionOnSet(f, S) = a[S]
  BY SumIs
<1> QED
  BY <1>1, SumNat

\* Sums of the same are the same.
LEMMA SumsEqual ==
    ASSUME NEW f, NEW g, NEW S, IsFiniteSet(S), \A x \in S : f[x] = g[x]
    PROVE  SumFunctionOnSet(f, S) = SumFunctionOnSet(g, S)
<1>1. PICK a : Summing(f, S, a) /\ SumFunctionOnSet(f, S) = a[S]
  BY SumIs
<1>2. PICK b : Summing(g, S, b) /\ SumFunctionOnSet(g, S) = b[S]
  BY SumIs
<1>3. S \in SUBSET S
  OBVIOUS
<1>4. \A s \in SUBSET S : a[s] = b[s]
  BY <1>1, <1>2, <1>3, SumsAgree
<1> QED
  BY <1>1, <1>2, <1>3, <1>4

\* An element adds what it is worth.
LEMMA SumGrows ==
    ASSUME NEW f, NEW S, IsFiniteSet(S), \A x \in S : f[x] \in Nat, NEW x \in S
    PROVE  SumFunctionOnSet(f, S) = SumFunctionOnSet(f, S \ {x}) + f[x]
<1> DEFINE T == S \ {x}
<1>1. IsFiniteSet(T) /\ T \in SUBSET S
  BY FS_Subset
<1>2. PICK a : Summing(f, S, a) /\ SumFunctionOnSet(f, S) = a[S]
  BY SumIs
<1>3. PICK b : Summing(f, T, b) /\ SumFunctionOnSet(f, T) = b[T]
  BY <1>1, SumIs
<1>4. a[S] = f[x] + a[T]
  BY <1>2, SumAnyOrder
<1>5. a[T] \in Nat /\ f[x] \in Nat
  BY <1>1, <1>2, SumNat
<1> HIDE DEF T
<1>6. \A s \in SUBSET T : a[s] = b[s]
  <2>1. \A y \in T : f[y] = f[y]
    OBVIOUS
  <2> QED
    BY <1>1, <1>2, <1>3, <2>1, SumsAgree
<1>7. SumFunctionOnSet(f, S) = SumFunctionOnSet(f, T) + f[x]
  BY <1>2, <1>3, <1>4, <1>5, <1>6
<1> QED
  BY <1>7 DEF T

-----------------------------------------------------------------------------
(* The costs.                                                               *)

Stages == {"working", "obsolete", "done", "failed", "replaced"}

\* The workers of a call whose costs are final.
Settled(c) == {w \in Workers[c] : w < worker[c] \/ (w = worker[c] /\ ~Working(c))}

\* What is known of the costs of a call: nothing was spent by workers yet to start; the
\* final cost of those that are settled is what they spent in sessions that were not
\* given up, of which they have one at most; until then it is unknown, the latest session
\* is part of what was spent, and what is seen of that is right unless a revision replaced
\* the attempt.  No call stops telling before such a worker is settled.
Ledger(c) ==
    /\ worker[c] \in Nat
    /\ cost[c] \in [Workers[c] -> Nat]
    /\ live[c] \in [Workers[c] -> Nat]
    /\ lost[c] \in [Workers[c] -> Nat]
    /\ final[c] \in [Workers[c] -> Nat \union {Unknown}]
    /\ session[c] \in Nat
    /\ abandoned[c] \subseteq Settled(c)
    /\ Working(c) => /\ worker[c] \in Workers[c]
                     /\ final[c][worker[c]] = Unknown
                     /\ session[c] <= cost[c][worker[c]]
                     /\ lost[c][worker[c]] = 0
    /\ ~Working(c) => session[c] = 0
    /\ stage[c] = "working" => live[c][worker[c]] = cost[c][worker[c]]
    /\ \A w \in Workers[c] :
          /\ w > worker[c] => /\ cost[c][w] = 0 /\ live[c][w] = 0 /\ lost[c][w] = 0
                              /\ final[c][w] = Unknown
          /\ w \in Settled(c) => /\ lost[c][w] <= cost[c][w]
                                 /\ final[c][w] = cost[c][w] - lost[c][w]
    /\ phase[c] \in {"closing", "ended"} => stage[c] # "obsolete"

\* An account has entries for each call.
Account(entries) == entries = [c \in Calls |-> entries[c]]

Books == /\ worker \in [Calls -> Nat]
         /\ stage \in [Calls -> Stages]
         /\ Account(cost) /\ Account(live) /\ Account(final)
         /\ Account(session) /\ Account(abandoned) /\ Account(lost)
         /\ phase \in [Calls -> Phases]
         /\ charged \in Nat /\ pending \in Nat

SpendInv == Books /\ SpendCounted /\ \A c \in Calls : Ledger(c)

Over == {c \in Calls : phase[c] = "ended"}

\* At first nothing is spent.
LEMMA SpendInit == Init => SpendInv
<1> SUFFICES ASSUME Init PROVE SpendInv
  OBVIOUS
<1>1. Books
  BY DEF Init, Books, Account, Stages, Phases
<1>2. SpendCounted
  <2>0. charged + pending = 0 /\ {c \in Calls : phase[c] = "ended"} = {}
    BY DEF Init
  <2> SUFFICES ASSUME NEW f, f = [c \in Calls |-> Spent(c)]
               PROVE  SumFunctionOnSet(f, {}) = 0
    BY <2>0 DEF SpendCounted
  <2>1. PICK total : Summing(f, {}, total) /\ SumFunctionOnSet(f, {}) = total[{}]
    BY FS_EmptySet, SumIs
  <2>2. total[{}] = 0
    BY <2>1 DEF Summing, Added
  <2> QED
    BY <2>1, <2>2
<1>3. ASSUME NEW c \in Calls PROVE Ledger(c)
  BY CallAssumption DEF Init, Ledger, Working, Settled
<1> QED
  BY <1>1, <1>2, <1>3 DEF SpendInv

\* A call without an obsolete worker reports what it spent.
LEMMA TotalIsSpent ==
    ASSUME NEW c \in Calls, Ledger(c), stage[c] \in Stages, stage[c] # "obsolete"
    PROVE  Total(c) = Spent(c) /\ Spent(c) \in Nat
<1>1. /\ cost[c] \in [Workers[c] -> Nat] /\ lost[c] \in [Workers[c] -> Nat]
      /\ IsFiniteSet(Workers[c])
  BY CallAssumption DEF Ledger
<1>2. ASSUME NEW w \in Workers[c]
      PROVE  /\ lost[c][w] <= cost[c][w]
             /\ (IF final[c][w] = Unknown THEN live[c][w] ELSE final[c][w])
                    = cost[c][w] - lost[c][w]
  <2>1. worker[c] \in Nat /\ w \in Nat /\ cost[c][w] \in Nat /\ lost[c][w] \in Nat
    BY <1>1, CallAssumption DEF Ledger
  <2>2. CASE w > worker[c]
    BY <2>1, <2>2 DEF Ledger
  <2>3. CASE w \in Settled(c)
    <3>1. lost[c][w] <= cost[c][w] /\ final[c][w] = cost[c][w] - lost[c][w]
      BY <2>3 DEF Ledger
    <3>2. final[c][w] # Unknown
      BY <2>1, <3>1, CallAssumption
    <3> QED
      BY <3>1, <3>2
  <2>4. CASE w = worker[c] /\ Working(c)
    <3>1. /\ stage[c] = "working" /\ final[c][w] = Unknown /\ lost[c][w] = 0
          /\ live[c][w] = cost[c][w]
      BY <2>4 DEF Ledger, Working
    <3> QED
      BY <2>1, <3>1
  <2> QED
    BY <2>1, <2>2, <2>3, <2>4 DEF Settled
<1>3. [w \in Workers[c] |-> IF final[c][w] = Unknown THEN live[c][w] ELSE final[c][w]] = Awaited(c)
  BY <1>2 DEF Awaited
<1>4. Spent(c) \in Nat
  <2>1. DOMAIN Awaited(c) = Workers[c] /\ \A w \in Workers[c] : Awaited(c)[w] \in Nat
    BY <1>1, <1>2 DEF Awaited
  <2> QED
    BY <1>1, <2>1, SumIsNat DEF Spent, SumFunction
<1> QED
  BY <1>3, <1>4 DEF Total, Spent

\* While no call ends, what is billed stays what was spent.
LEMMA BillKept ==
    ASSUME SpendCounted, phase' \in [Calls -> Phases], phase \in [Calls -> Phases],
           \A c \in Calls : phase'[c] = "ended" => /\ phase[c] = "ended"
                                               /\ cost'[c] = cost[c] /\ lost'[c] = lost[c],
           \A c \in Calls : phase[c] = "ended" => phase'[c] = "ended",
           charged' + pending' = charged + pending
    PROVE  SpendCounted'
<1>1. Over' = Over /\ IsFiniteSet(Over)
  BY CallAssumption, FS_Subset DEF Over
<1> SUFFICES ASSUME NEW f, f = [c \in Calls |-> Spent(c)],
                    NEW g, g = [c \in Calls |-> Spent(c)]'
             PROVE  SumFunctionOnSet(f, Over) = SumFunctionOnSet(g, Over)
  BY <1>1 DEF SpendCounted, Over
<1>2. \A c \in Over : f[c] = g[c]
  BY DEF Over, Spent, Awaited
<1> QED
  BY <1>1, <1>2, SumsEqual

\* A call that spends nothing keeps its ledger.
LEMMA LedgerKept ==
    ASSUME NEW c \in Calls, Ledger(c), worker'[c] = worker[c], stage'[c] = stage[c],
           cost'[c] = cost[c], live'[c] = live[c], final'[c] = final[c],
           session'[c] = session[c], abandoned'[c] = abandoned[c], lost'[c] = lost[c],
           phase'[c] \in {"closing", "ended"} => stage[c] # "obsolete"
    PROVE  Ledger(c)'
BY DEF Ledger, Working, Settled

\* What spends nothing and ends no call.
LEMMA OthersSpend ==
    ASSUME SpendInv, UNCHANGED <<phase, costs>>, charged' \in Nat, pending' \in Nat,
           charged' + pending' = charged + pending
    PROVE  SpendInv'
<1> USE DEF costs
<1>1. Books'
  BY DEF SpendInv, Books
<1>2. SpendCounted'
  BY BillKept DEF SpendInv, Books
<1>3. ASSUME NEW c \in Calls PROVE Ledger(c)'
  BY LedgerKept DEF SpendInv, Ledger
<1> QED
  BY <1>1, <1>2, <1>3 DEF SpendInv

\* A call begins, or tells how it ended.
LEMMA CallSpends ==
    ASSUME SpendInv, NEW c \in Calls, Execute(c) \/ Complete(c)
    PROVE  SpendInv'
<1> USE DEF Execute, Complete, costs
<1>1. Books'
  BY DEF SpendInv, Books, Phases
<1>2. SpendCounted'
  BY BillKept, <1>1 DEF SpendInv, Books
<1>3. ASSUME NEW d \in Calls PROVE Ledger(d)'
  BY LedgerKept DEF SpendInv, Ledger, Books
<1> QED
  BY <1>1, <1>2, <1>3 DEF SpendInv

\* A call ends: what it spent is added to what waits for a message.
LEMMA ReturnSpends ==
    ASSUME SpendInv, NEW c \in Calls, Return(c)
    PROVE  SpendInv'
<1> USE DEF Return, Finally, costs
<1>1. /\ phase[c] = "closing" /\ phase \in [Calls -> Phases] /\ stage[c] \in Stages
      /\ stage[c] # "obsolete" /\ Ledger(c) /\ pending \in Nat /\ charged \in Nat
  BY DEF SpendInv, Books, Ledger
<1>2. Total(c) = Spent(c) /\ Spent(c) \in Nat
  BY <1>1, TotalIsSpent
<1>3. phase' = [phase EXCEPT ![c] = "ended"] /\ pending' = pending + Spent(c) /\ charged' = charged
  BY <1>2
<1>4. Books'
  BY <1>1, <1>2, <1>3 DEF SpendInv, Books, Phases
<1>5. SpendCounted'
  <2>1. Over' = Over \union {c} /\ c \notin Over /\ IsFiniteSet(Over')
    <3>1. Over' = Over \union {c} /\ c \notin Over
      BY <1>1, <1>3 DEF Over
    <3>2. Over' \subseteq Calls
      BY DEF Over
    <3> QED
      BY <3>1, <3>2, CallAssumption, FS_Subset
  <2>2. \A d \in Over' : Spent(d) \in Nat
    <3> SUFFICES ASSUME NEW d \in Over' PROVE Spent(d) \in Nat
      OBVIOUS
    <3>1. CASE d = c
      BY <1>2, <3>1
    <3>2. CASE d # c
      <4>1. d \in Calls /\ Ledger(d) /\ stage[d] \in Stages /\ stage[d] # "obsolete"
        BY <2>1, <3>2 DEF Over, SpendInv, Ledger, Books
      <4> QED
        BY <4>1, TotalIsSpent
    <3> QED
      BY <3>1, <3>2
  <2> SUFFICES ASSUME NEW f, f = [d \in Calls |-> Spent(d)]
               PROVE  charged + (pending + Spent(c)) = SumFunctionOnSet(f, Over')
    <3>1. [d \in Calls |-> Spent(d)]' = [d \in Calls |-> Spent(d)]
      BY DEF Spent, Awaited
    <3> QED
      BY <1>3, <3>1 DEF SpendCounted, Over
  <2>3. charged + pending = SumFunctionOnSet(f, Over)
    BY DEF SpendInv, SpendCounted, Over
  <2>4. SumFunctionOnSet(f, Over') = SumFunctionOnSet(f, Over' \ {c}) + f[c]
    <3>1. \A d \in Over' : f[d] \in Nat
      BY <2>2 DEF Over
    <3> QED
      BY <2>1, <3>1, SumGrows
  <2>5. Over' \ {c} = Over /\ f[c] = Spent(c)
    BY <2>1
  <2>6. SumFunctionOnSet(f, Over') = (charged + pending) + Spent(c)
    BY <2>3, <2>4, <2>5
  <2> QED
    BY <1>1, <1>2, <2>6
<1>6. ASSUME NEW d \in Calls PROVE Ledger(d)'
  BY <1>1, <1>3, LedgerKept DEF SpendInv, Ledger
<1> QED
  BY <1>4, <1>5, <1>6 DEF SpendInv

\* The accounts keep an entry for each call, and those of other calls are left alone.
LEMMA AccountsKept ==
    ASSUME Books, NEW c \in Calls, Accounts(c)
    PROVE  /\ \A d \in Calls \ {c} :
                 /\ cost'[d] = cost[d] /\ live'[d] = live[d] /\ final'[d] = final[d]
                 /\ worker'[d] = worker[d] /\ stage'[d] = stage[d] /\ session'[d] = session[d]
                 /\ abandoned'[d] = abandoned[d] /\ lost'[d] = lost[d]
           /\ Account(cost)' /\ Account(live)' /\ Account(final)'
           /\ Account(session)' /\ Account(abandoned)' /\ Account(lost)'
           /\ worker' \in [Calls -> Nat] /\ stage' \in [Calls -> Stages]
<1> USE CallAssumption DEF Books, Account, AccountingWorker, Stages
<1>1. CASE \E w \in Workers[c] : StartWorker(c, w)
  BY <1>1 DEF StartWorker
<1>2. CASE \E w \in Workers[c] : SpendUnseen(c, w)
  BY <1>2 DEF SpendUnseen
<1>3. CASE Replace(c)
  BY <1>3 DEF Replace
<1>4. CASE UseModel(c)
  BY <1>4 DEF UseModel
<1>5. CASE Interrupt(c)
  BY <1>5 DEF Interrupt
<1>6. CASE FinalizeWorkerCost(c)
  BY <1>6 DEF FinalizeWorkerCost, Settle
<1>7. CASE CutOff(c)
  BY <1>7 DEF CutOff, Settle
<1> QED
  BY <1>1, <1>2, <1>3, <1>4, <1>5, <1>6, <1>7 DEF Accounts

\* The next worker starts: the one before it is settled.
LEMMA StartKeepsLedger ==
    ASSUME SpendInv, NEW c \in Calls, NEW w \in Workers[c], StartWorker(c, w)
    PROVE  Ledger(c)'
<1>1. Books /\ Ledger(c) /\ worker[c] \in Nat /\ Workers[c] \subseteq Nat \ {0}
  BY CallAssumption DEF SpendInv, Books
<1>2. /\ worker'[c] = w /\ w = worker[c] + 1 /\ stage'[c] = "working" /\ ~Working(c) /\ Working(c)'
      /\ phase[c] = "running" /\ phase' = phase
      /\ cost' = cost /\ live' = live /\ final' = final /\ lost' = lost /\ abandoned' = abandoned
  BY <1>1 DEF StartWorker, Books, Working, shell
<1>3. session'[c] = 0
  BY <1>1, <1>2 DEF StartWorker, Ledger
<1>4. cost[c][w] = 0 /\ live[c][w] = 0 /\ final[c][w] = Unknown /\ lost[c][w] = 0
  BY <1>1, <1>2 DEF Ledger
<1>5. \A v \in Workers[c] : v < w <=> (v < worker[c] \/ v = worker[c])
  BY <1>1, <1>2
<1>6. Settled(c)' = Settled(c)
  BY <1>1, <1>2, <1>5 DEF Settled
<1>7. \A v \in Workers[c] : v > w => v > worker[c]
  BY <1>1, <1>2
<1> QED
  BY <1>1, <1>2, <1>3, <1>4, <1>6, <1>7 DEF Ledger

\* A session that was given up spends: what it spent and what is lost grow alike.
LEMMA UnseenKeepsLedger ==
    ASSUME SpendInv, NEW c \in Calls, NEW w \in Workers[c], SpendUnseen(c, w)
    PROVE  Ledger(c)'
<1>1. Books /\ Ledger(c) /\ worker[c] \in Nat /\ Workers[c] \subseteq Nat \ {0}
  BY CallAssumption DEF SpendInv, Books
<1>2. /\ worker' = worker /\ stage' = stage /\ phase' = phase /\ live' = live /\ final' = final
      /\ session' = session /\ abandoned' = abandoned /\ Working(c)' = Working(c)
      /\ Settled(c)' = Settled(c) /\ w \in Settled(c)
  BY <1>1 DEF SpendUnseen, Ledger, Working, Settled, shell
<1>3. cost'[c] = [cost[c] EXCEPT ![w] = @ + 1]
  BY <1>1 DEF SpendUnseen, Books, Account
<1>4. lost'[c] = [lost[c] EXCEPT ![w] = @ + 1]
  BY <1>1 DEF SpendUnseen, Books, Account
<1>5. cost[c] \in [Workers[c] -> Nat] /\ lost[c] \in [Workers[c] -> Nat]
  BY <1>1 DEF Ledger
<1>6. /\ cost'[c] \in [Workers[c] -> Nat] /\ lost'[c] \in [Workers[c] -> Nat]
      /\ cost'[c][w] = cost[c][w] + 1 /\ lost'[c][w] = lost[c][w] + 1
      /\ \A v \in Workers[c] : v # w => cost'[c][v] = cost[c][v] /\ lost'[c][v] = lost[c][v]
  BY <1>3, <1>4, <1>5
<1>7. w \in Workers[c] /\ ~ (w > worker[c]) /\ (Working(c) => w # worker[c])
  BY <1>1, <1>2 DEF Settled
<1>8. \A v \in Settled(c) : /\ lost'[c][v] <= cost'[c][v]
                            /\ final[c][v] = cost'[c][v] - lost'[c][v]
  <2> SUFFICES ASSUME NEW v \in Settled(c)
               PROVE  lost'[c][v] <= cost'[c][v] /\ final[c][v] = cost'[c][v] - lost'[c][v]
    OBVIOUS
  <2>1. /\ v \in Workers[c] /\ lost[c][v] <= cost[c][v] /\ final[c][v] = cost[c][v] - lost[c][v]
        /\ lost[c][v] \in Nat /\ cost[c][v] \in Nat
    BY <1>1, <1>5 DEF Ledger, Settled
  <2>2. CASE v = w
    BY <1>6, <2>1, <2>2
  <2>3. CASE v # w
    BY <1>6, <2>1, <2>3
  <2> QED
    BY <2>2, <2>3
<1>9. Working(c) => cost'[c][worker[c]] = cost[c][worker[c]] /\ lost'[c][worker[c]] = lost[c][worker[c]]
  BY <1>1, <1>6, <1>7 DEF Ledger
<1>10. stage[c] = "working" => Working(c)
  BY DEF Working
<1>11. \A v \in Workers[c] : v > worker[c] => cost'[c][v] = 0 /\ lost'[c][v] = 0
  BY <1>1, <1>6, <1>7 DEF Ledger
<1> QED
  BY <1>1, <1>2, <1>6, <1>8, <1>9, <1>10, <1>11 DEF Ledger

\* The worker spends.
LEMMA UseKeepsLedger ==
    ASSUME SpendInv, NEW c \in Calls, UseModel(c)
    PROVE  Ledger(c)'
<1>1. Books /\ Ledger(c) /\ worker[c] \in Nat /\ Workers[c] \subseteq Nat \ {0}
  BY CallAssumption DEF SpendInv, Books
<1>2. /\ worker' = worker /\ stage' = stage /\ phase' = phase /\ final' = final /\ lost' = lost
      /\ abandoned' = abandoned /\ Working(c) /\ Working(c)' /\ Settled(c)' = Settled(c)
      /\ worker[c] \in Workers[c] /\ final[c][worker[c]] = Unknown /\ worker[c] \notin Settled(c)
  BY <1>1 DEF UseModel, Ledger, Working, Settled, shell
<1>3. cost'[c] = [cost[c] EXCEPT ![worker[c]] = @ + 1]
  BY <1>1 DEF UseModel, Books, Account
<1>4. live'[c] = IF stage[c] = "working" THEN [live[c] EXCEPT ![worker[c]] = @ + 1] ELSE live[c]
  BY <1>1, <1>2 DEF UseModel, Books, Account, AccountingWorker
<1>5. session'[c] = session[c] + 1
  BY <1>1 DEF UseModel, Books, Account
<1>6. /\ cost[c] \in [Workers[c] -> Nat] /\ live[c] \in [Workers[c] -> Nat]
      /\ session[c] \in Nat /\ session[c] <= cost[c][worker[c]]
  BY <1>1, <1>2 DEF Ledger
<1>7. /\ cost'[c] \in [Workers[c] -> Nat] /\ live'[c] \in [Workers[c] -> Nat]
      /\ cost'[c][worker[c]] = cost[c][worker[c]] + 1
      /\ \A w \in Workers[c] : w # worker[c] => cost'[c][w] = cost[c][w] /\ live'[c][w] = live[c][w]
      /\ stage[c] = "working" => live'[c][worker[c]] = live[c][worker[c]] + 1
  BY <1>2, <1>3, <1>4, <1>6
<1>8. session'[c] \in Nat /\ session'[c] <= cost'[c][worker[c]]
  BY <1>2, <1>5, <1>6, <1>7
<1>9. \A w \in Workers[c] : w > worker[c] => w # worker[c]
  BY <1>1
<1>10. stage[c] = "working" => live'[c][worker[c]] = cost'[c][worker[c]]
  BY <1>1, <1>7 DEF Ledger
<1>11. \A w \in Settled(c) : /\ lost[c][w] <= cost'[c][w]
                             /\ final[c][w] = cost'[c][w] - lost[c][w]
  BY <1>1, <1>2, <1>7 DEF Ledger, Settled
<1>12. \A w \in Workers[c] : w > worker[c] => cost'[c][w] = 0 /\ live'[c][w] = 0
  BY <1>1, <1>7, <1>9 DEF Ledger
<1> QED
  BY <1>1, <1>2, <1>7, <1>8, <1>10, <1>11, <1>12 DEF Ledger

\* A worker is settled at what it spent, or at what it spent but for its last session.
LEMMA SettleKeepsLedger ==
    ASSUME SpendInv, NEW c \in Calls, NEW amount \in Nat, NEW over \in {"done", "failed", "replaced"},
           Working(c), phase[c] = "running", Settle(c, amount, over),
           UNCHANGED <<phase, worker, cost, live>>,
           lost'[c] \in [Workers[c] -> Nat],
           \A w \in Workers[c] \ {worker[c]} : lost'[c][w] = lost[c][w],
           lost'[c][worker[c]] <= cost[c][worker[c]],
           amount = cost[c][worker[c]] - lost'[c][worker[c]],
           abandoned'[c] \subseteq abandoned[c] \union {worker[c]}
    PROVE  Ledger(c)'
<1>1. Books /\ Ledger(c) /\ worker[c] \in Nat /\ Workers[c] \subseteq Nat \ {0}
  BY CallAssumption DEF SpendInv, Books
<1>2. stage'[c] = over /\ ~Working(c)'
  BY <1>1 DEF Settle, Books, Working
<1>3. final'[c] = [final[c] EXCEPT ![worker[c]] = amount]
  BY <1>1 DEF Settle, Books, Account, AccountingWorker
<1>4. session'[c] = 0
  BY <1>1 DEF Settle, Books, Account
<1>5. worker[c] \in Workers[c] /\ final[c] \in [Workers[c] -> Nat \union {Unknown}]
  BY <1>1 DEF Ledger
<1>6. /\ final'[c] \in [Workers[c] -> Nat \union {Unknown}]
      /\ final'[c][worker[c]] = amount
      /\ \A w \in Workers[c] : w # worker[c] => final'[c][w] = final[c][w]
  BY <1>3, <1>5
<1>7. Settled(c)' = Settled(c) \union {worker[c]} /\ worker[c] \notin Settled(c)
  BY <1>1, <1>2, <1>5 DEF Settled
<1>8. abandoned'[c] \subseteq Settled(c)'
  BY <1>1, <1>7 DEF Ledger
<1>9. \A w \in Settled(c)' : /\ lost'[c][w] <= cost[c][w]
                             /\ final'[c][w] = cost[c][w] - lost'[c][w]
  <2> SUFFICES ASSUME NEW w \in Settled(c)'
               PROVE  lost'[c][w] <= cost[c][w] /\ final'[c][w] = cost[c][w] - lost'[c][w]
    OBVIOUS
  <2>1. CASE w = worker[c]
    BY <1>6, <2>1
  <2>2. CASE w # worker[c]
    <3>1. w \in Settled(c) /\ w \in Workers[c]
      BY <1>7, <2>2 DEF Settled
    <3> QED
      BY <1>1, <1>6, <2>2, <3>1 DEF Ledger
  <2> QED
    BY <2>1, <2>2
<1>10. \A w \in Workers[c] : w > worker[c] => /\ w # worker[c]
                                             /\ final'[c][w] = Unknown /\ lost'[c][w] = 0
  BY <1>1, <1>6 DEF Ledger
<1> QED
  BY <1>1, <1>2, <1>4, <1>6, <1>8, <1>9, <1>10 DEF Ledger

\* A worker starts, becomes obsolete, uses the model, is interrupted, settled or cut off,
\* or spends after that.
LEMMA AccountsSpend ==
    ASSUME SpendInv, NEW c \in Calls, Accounts(c)
    PROVE  SpendInv'
<1>1. Books /\ Ledger(c)
  BY DEF SpendInv
<1>2. phase[c] \in GoingOn /\ UNCHANGED <<phase, pending, charged>>
  BY AccountsFacts DEF shell
<1>3. Books'
  BY <1>1, <1>2, AccountsKept DEF Books
<1>4. SpendCounted'
  <2>1. \A d \in Calls : phase'[d] = "ended" => d # c
    BY <1>2 DEF GoingOn
  <2>2. \A d \in Calls \ {c} : cost'[d] = cost[d] /\ lost'[d] = lost[d]
    BY <1>1, AccountsKept
  <2> QED
    BY <1>1, <1>2, <1>3, <2>1, <2>2, BillKept DEF SpendInv, Books
<1>5. Ledger(c)'
  <2>1. CASE \E w \in Workers[c] : StartWorker(c, w)
    BY <2>1, StartKeepsLedger
  <2>2. CASE \E w \in Workers[c] : SpendUnseen(c, w)
    BY <2>2, UnseenKeepsLedger
  <2>3. CASE Replace(c)
    BY <1>1, <2>3 DEF Books, Ledger, Working, Settled, Replace, shell
  <2>4. CASE UseModel(c)
    BY <2>4, UseKeepsLedger
  <2>5. CASE Interrupt(c)
    <3>1. session'[c] = 0
      BY <1>1, <2>5 DEF Interrupt, Books, Account
    <3>2. /\ UNCHANGED <<phase, worker, stage, cost, live, final, abandoned, lost>>
          /\ Working(c)' = Working(c) /\ Settled(c)' = Settled(c)
      BY <2>5 DEF Interrupt, shell, Working, Settled
    <3>3. Working(c) => cost[c][worker[c]] \in Nat
      BY <1>1 DEF Ledger
    <3> QED
      BY <1>1, <3>1, <3>2, <3>3 DEF Ledger
  <2>6. CASE FinalizeWorkerCost(c)
    <3>1. /\ worker[c] \in Workers[c] /\ cost[c] \in [Workers[c] -> Nat]
          /\ lost[c] \in [Workers[c] -> Nat] /\ lost[c][worker[c]] = 0
      BY <1>1, <2>6 DEF FinalizeWorkerCost, Ledger
    <3>2. cost[c][worker[c]] \in Nat /\ cost[c][worker[c]] = cost[c][worker[c]] - lost[c][worker[c]]
      BY <3>1
    <3>3. PICK over \in {"done", "failed", "replaced"} : Settle(c, cost[c][worker[c]], over)
      BY <2>6 DEF FinalizeWorkerCost
    <3>4. /\ Working(c) /\ phase[c] = "running"
          /\ UNCHANGED <<phase, worker, cost, live, abandoned, lost>>
      BY <2>6 DEF FinalizeWorkerCost, shell
    <3>5. lost[c][worker[c]] <= cost[c][worker[c]]
      BY <3>1, <3>2
    <3> QED
      BY <3>1, <3>2, <3>3, <3>4, <3>5, SettleKeepsLedger
  <2>7. CASE CutOff(c)
    <3>1. /\ worker[c] \in Workers[c] /\ cost[c] \in [Workers[c] -> Nat]
          /\ lost[c] \in [Workers[c] -> Nat] /\ session[c] \in Nat
          /\ session[c] <= cost[c][worker[c]]
      BY <1>1, <2>7 DEF CutOff, Ledger
    <3>2. lost'[c] = [lost[c] EXCEPT ![worker[c]] = session[c]]
      BY <1>1, <2>7 DEF CutOff, Books, Account
    <3>3. abandoned'[c] = abandoned[c] \union {worker[c]}
      BY <1>1, <2>7 DEF CutOff, Books, Account
    <3>4. /\ lost'[c] \in [Workers[c] -> Nat] /\ lost'[c][worker[c]] = session[c]
          /\ \A w \in Workers[c] \ {worker[c]} : lost'[c][w] = lost[c][w]
      BY <3>1, <3>2
    <3>5. PICK amount \in Nat : amount = cost[c][worker[c]] - session[c]
      BY <3>1
    <3>6. PICK over \in {"failed", "replaced"} : Settle(c, amount, over)
      BY <2>7, <3>5 DEF CutOff
    <3>7. /\ Working(c) /\ phase[c] = "running"
          /\ UNCHANGED <<phase, worker, cost, live>>
      BY <2>7 DEF CutOff, shell
    <3> QED
      BY <3>1, <3>3, <3>4, <3>5, <3>6, <3>7, SettleKeepsLedger
  <2> QED
    BY <2>1, <2>2, <2>3, <2>4, <2>5, <2>6, <2>7 DEF Accounts
<1>6. ASSUME NEW d \in Calls PROVE Ledger(d)'
  <2>1. CASE d = c
    BY <1>5, <2>1
  <2>2. CASE d # c
    <3>1. Ledger(d) /\ phase'[d] = phase[d]
      BY <1>2 DEF SpendInv
    <3>2. phase'[d] \in {"closing", "ended"} => stage[d] # "obsolete"
      BY <3>1 DEF Ledger
    <3> QED
      BY <1>1, <2>2, <3>1, <3>2, AccountsKept, LedgerKept
  <2> QED
    BY <2>1, <2>2
<1> QED
  BY <1>3, <1>4, <1>6 DEF SpendInv

\* Every step preserves the invariant.
LEMMA SpendNext == ASSUME SpendInv, [Next]_vars PROVE SpendInv'
<1> USE DEF shell
<1>0. charged \in Nat /\ pending \in Nat /\ charged + pending \in Nat
  BY DEF SpendInv, Books
<1>1. ASSUME NEW c \in Calls, Execute(c) \/ Complete(c) PROVE SpendInv'
  BY <1>1, CallSpends
<1>2. ASSUME NEW c \in Calls, Return(c) PROVE SpendInv'
  BY <1>2, ReturnSpends
<1>3. ASSUME NEW c \in Calls, Accounts(c) PROVE SpendInv'
  BY <1>3, AccountsSpend
<1>4. ASSUME NEW c \in Calls,
             \/ EmitProgress(c) \/ BuildWidget(c) \/ BuildOverlay(c)
             \/ \E o \in Operations[c] : OutageEvent(c, o) \/ Recovered(c, o) \/ OutageOver(c, o)
      PROVE  SpendInv'
  <2>1. UNCHANGED <<phase, costs, charged, pending>>
    BY <1>4 DEF EmitProgress, BuildWidget, BuildOverlay, OutageEvent, Recovered, OutageOver
  <2> QED
    BY <1>0, <2>1, OthersSpend
<1>5. CASE MessageEnd
  BY <1>0, <1>5, OthersSpend DEF MessageEnd
<1>6. CASE Route
  BY <1>0, <1>6, OthersSpend DEF Route
<1>7. CASE UNCHANGED vars
  BY <1>0, <1>7, OthersSpend DEF vars
<1> QED
  BY <1>1, <1>2, <1>3, <1>4, <1>5, <1>6, <1>7 DEF Next, Accounts

\* However many workers a run starts, replaces and settles, however often the network
\* interrupts them, and whenever messages end, every cost of a run that is over is charged
\* to one message or waits for one, save what a session that was given up in its retry
\* spent.
THEOREM EverySpendIsCounted == Spec => []SpendCounted
<1>1. Init => SpendInv
  BY SpendInit
<1>2. SpendInv /\ [Next]_vars => SpendInv'
  BY SpendNext
<1>3. SpendInv => SpendCounted
  BY DEF SpendInv
<1> QED
  BY <1>1, <1>2, <1>3, PTL DEF Spec
=============================================================================
