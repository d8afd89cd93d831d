--------------------------- MODULE CoordinatorProofs ---------------------------
(***************************************************************************)
(* EvidenceBeforeCheckbox, ActiveWorkIsCurrent and AttemptLimit of          *)
(* Coordinator for any plans, proposals, guidance and attempt limit.  The   *)
(* counting argument for the first: every document that the store holds or  *)
(* is about to install checks no more tasks of some text than the evidence  *)
(* pays for, and one fewer of the text whose completion the scheduler has   *)
(* asked for.  For the last, of plans in which no text is doubled: while    *)
(* another attempt may be made, every text has failed less often than the   *)
(* limit.  And every step of a run is one that PlanStoreClients allows the  *)
(* store's clients or leaves the store alone, so that a run's document      *)
(* follows PlanRegister.                                                    *)
(***************************************************************************)
EXTENDS Coordinator, PlanProofs

\* A reference speaks of the task that is at its position in its token.
WellTaken(ref) ==
    /\ ref.position \in DOMAIN ref.token
    /\ ref.token[ref.position] = <<ref.id, ref.fingerprint>>

\* The calls: the scheduler asks for completions and lookups, the processor for
\* revisions.
SchedulerCallInv ==
    LET own == call[Scheduler]
    IN  /\ own # Idle => pc \in {"resolving", "settling", "exhausting"}
        /\ own.phase \in {"idle", "waiting", "writing", "installing", "returned"}
        /\ own.phase \in {"waiting", "writing", "installing"} =>
              /\ DOMAIN own = {"phase", "kind", "ref", "next"}
              /\ own.kind \in {"complete", "resolve"}
              /\ WellTaken(own.ref)

SteeringCallInv ==
    LET own == call[Steering]
    IN  /\ own # Idle => processing
        /\ own.phase \in {"idle", "planning", "invalidating", "waiting", "returned"} \union Held
        /\ own.phase = "planning" => Valid(own.base)
        /\ own.phase = "waiting" => Listed(own.active) /\ Len(own.active) # 0
        /\ own.phase \in {"waiting"} \union Held =>
              /\ DOMAIN own = {"phase", "kind", "expected", "active", "running",
                               "revision", "next"}
              /\ own.kind = "apply"

\* The assignment, from the moment it is selected until it is settled.
AssignmentInv ==
    /\ active \/ pc \in {"working", "releasing", "resolve", "resolving", "recording",
                         "settling", "disposing", "exhausted", "exhausting"} =>
          /\ DOMAIN assignment = {"ref", "obsolete", "attempt", "status", "stale"}
          /\ WellTaken(assignment.ref)
    /\ pc = "working" => active
    /\ pc \in {"exhausted", "exhausting"} => ~active

\* No document checks more tasks of some text than the evidence pays for.
Paid(tasks) == \A work : Cardinality(DoneAlike(tasks, work)) <= Earned(work)
Owed(tasks, work) == Cardinality(DoneAlike(tasks, work)) < Earned(work)

DocumentInv ==
    /\ Valid(plan) /\ Paid(plan)
    /\ Valid(disk) /\ Paid(disk)
    /\ \A c \in Clients :
          call[c].phase \in Held => Valid(call[c].next) /\ Paid(call[c].next)

EvidenceInv ==
    /\ Len(evidence) \in Nat
    /\ evidence = [k \in 1..Len(evidence) |-> evidence[k]]

\* The completion that the scheduler asked for is paid in whatever it will find.
OwedInv ==
    call[Scheduler].phase = "waiting" /\ call[Scheduler].kind = "complete" =>
        LET work == call[Scheduler].ref.fingerprint
        IN  /\ Owed(plan, work)
            /\ call[Steering].phase \in Held => Owed(call[Steering].next, work)

\* Only a revision that the processor has not looked at yet can have removed the
\* task of a worker that runs.
CurrentInv ==
    pc = "working" /\ ~assignment.obsolete
        /\ ~(call[Steering].phase = "returned" /\ call[Steering].outcome = "applied")
        => Resolve(plan, assignment.ref) # 0

IInv == /\ LockInv
        /\ SchedulerCallInv
        /\ SteeringCallInv
        /\ AssignmentInv
        /\ DocumentInv
        /\ EvidenceInv
        /\ OwedInv
        /\ CurrentInv

-----------------------------------------------------------------------------
(* References and documents.                                                *)
\* A reference resolves to a task with its text, or to none.
LEMMA ResolveFacts ==
    ASSUME NEW tasks, NEW ref, WellTaken(ref), Resolve(tasks, ref) # 0
    PROVE  /\ Resolve(tasks, ref) \in DOMAIN tasks
           /\ Fingerprint(tasks[Resolve(tasks, ref)]) = ref.fingerprint
<1> DEFINE same   == {i \in DOMAIN tasks : Fingerprint(tasks[i]) = ref.fingerprint}
           marked == {i \in same : tasks[i].id = ref.id}
<1>1. Cardinality(marked) = 1 => (CHOOSE i \in marked : TRUE) \in same
  BY One
<1>2. Cardinality(same) = 1 => (CHOOSE i \in same : TRUE) \in same
  BY One
<1>3. ref.token = AuthorityToken(tasks) /\ ref.position \in DOMAIN tasks =>
          ref.position \in same
  BY DEF WellTaken, AuthorityToken
<1>4. Resolve(tasks, ref) \in same
  <2> HIDE DEF same, marked
  <2> QED
    BY <1>1, <1>2, <1>3 DEF Resolve, same, marked
<1> QED
  BY <1>4

\* A reference that was just taken resolves.
LEMMA ReferenceResolves ==
    ASSUME NEW tasks, Listed(tasks), NEW i \in DOMAIN tasks
    PROVE  WellTaken(Reference(tasks, i)) /\ Resolve(tasks, Reference(tasks, i)) # 0
<1> DEFINE ref    == Reference(tasks, i)
           same   == {j \in DOMAIN tasks : Fingerprint(tasks[j]) = ref.fingerprint}
           marked == {j \in same : tasks[j].id = ref.id}
<1>1. /\ ref.token = AuthorityToken(tasks) /\ ref.position = i
      /\ WellTaken(ref)
  BY DEF Reference, AuthorityToken, WellTaken
<1>2. Cardinality(marked) = 1 => (CHOOSE j \in marked : TRUE) \in DOMAIN tasks
  BY One
<1>3. Cardinality(same) = 1 => (CHOOSE j \in same : TRUE) \in DOMAIN tasks
  BY One
<1>4. Resolve(tasks, ref) \in DOMAIN tasks
  <2> HIDE DEF same, marked, ref
  <2> QED
    BY <1>1, <1>2, <1>3 DEF Resolve, same, marked
<1> QED
  BY <1>1, <1>4 DEF Listed

\* An entry adds to the evidence and takes nothing from it.
LEMMA EntryAdded ==
    ASSUME EvidenceInv, NEW e, evidence' = Append(evidence, e)
    PROVE  /\ EvidenceInv'
           /\ \A work : Earned(work) \in Nat /\ Earned(work)' \in Nat
           /\ \A work : Earned(work) <= Earned(work)'
           /\ e.done /\ ~e.obsolete => Earned(e.work) < Earned(e.work)'
<1> DEFINE n == Len(evidence)
           pays(log, work) == {k \in DOMAIN log : log[k].work = work
                                                    /\ log[k].done /\ ~log[k].obsolete}
<1>1. n \in Nat /\ DOMAIN evidence = 1..n
  BY DEF EvidenceInv
<1>2. /\ evidence' = [k \in 1..(n + 1) |-> evidence'[k]]
      /\ Len(evidence') = n + 1
      /\ DOMAIN evidence' = 1..(n + 1)
      /\ \A k \in 1..n : evidence'[k] = evidence[k]
      /\ evidence'[n + 1] = e
  <2> DEFINE T == {evidence[k] : k \in 1..n} \union {e}
  <2>1. evidence \in [1..n -> T]
    BY DEF EvidenceInv
  <2> HIDE DEF T
  <2>2. evidence \in Seq(T) /\ e \in T
    BY <1>1, <2>1 DEF T
  <2>3. evidence' \in Seq(T) /\ Len(evidence') = n + 1
    BY <2>2
  <2>4. evidence' \in [1..(n + 1) -> T]
    <3> HIDE DEF n
    <3>1. evidence' \in [1..Len(evidence') -> T]
      BY <2>3, LenProperties
    <3> QED
      BY <2>3, <3>1
  <2>5. /\ \A k \in 1..n : evidence'[k] = evidence[k]
        /\ evidence'[n + 1] = e
    BY <1>1, <2>2
  <2> QED
    BY <2>3, <2>4, <2>5
<1>3. \A work : /\ Earned(work) = Cardinality(pays(evidence, work))
                /\ Earned(work)' = Cardinality(pays(evidence', work))
  BY DEF Earned
<1>4. ASSUME NEW work
      PROVE  /\ pays(evidence, work) \subseteq 1..(n + 1)
             /\ pays(evidence', work) \subseteq 1..(n + 1)
             /\ pays(evidence, work) \subseteq pays(evidence', work)
             /\ n + 1 \notin pays(evidence, work)
  BY <1>1, <1>2
<1>5. e.done /\ ~e.obsolete => n + 1 \in pays(evidence', e.work)
  BY <1>1, <1>2
<1>6. IsFiniteSet(1..(n + 1))
  BY <1>1, FS_Interval
<1> HIDE DEF pays, n
<1>7. ASSUME NEW work
      PROVE  /\ IsFiniteSet(pays(evidence, work)) /\ IsFiniteSet(pays(evidence', work))
             /\ Cardinality(pays(evidence, work)) \in Nat
             /\ Cardinality(pays(evidence', work)) \in Nat
             /\ Cardinality(pays(evidence, work)) <= Cardinality(pays(evidence', work))
  <2>1. IsFiniteSet(pays(evidence, work)) /\ IsFiniteSet(pays(evidence', work))
    BY <1>4, <1>6, FS_Subset
  <2>2. Cardinality(pays(evidence, work)) <= Cardinality(pays(evidence', work))
    BY <1>4, <2>1, FS_Subset
  <2> QED
    BY <2>1, <2>2, FS_CardinalityType
<1>8. ASSUME e.done, ~e.obsolete
      PROVE  Cardinality(pays(evidence, e.work)) < Cardinality(pays(evidence', e.work))
  <2> DEFINE a == Cardinality(pays(evidence, e.work))
             b == Cardinality(pays(evidence', e.work))
  <2>1. /\ IsFiniteSet(pays(evidence', e.work))
        /\ pays(evidence, e.work) \subseteq pays(evidence', e.work)
        /\ pays(evidence, e.work) # pays(evidence', e.work)
    BY <1>4, <1>5, <1>7, <1>8
  <2>2. a # b /\ a <= b
    BY <2>1, FS_Subset
  <2>3. a \in Nat /\ b \in Nat
    BY <1>7
  <2> QED
    BY <2>2, <2>3
<1>9. EvidenceInv'
  BY <1>1, <1>2 DEF EvidenceInv
<1> QED
  BY <1>3, <1>7, <1>8, <1>9

LEMMA EarnedNat ==
    ASSUME EvidenceInv
    PROVE  \A work : Earned(work) \in Nat
<1> SUFFICES ASSUME NEW work PROVE Earned(work) \in Nat
  OBVIOUS
<1> DEFINE pays == {k \in DOMAIN evidence : evidence[k].work = work
                                              /\ evidence[k].done /\ ~evidence[k].obsolete}
<1>1. Len(evidence) \in Nat /\ pays \subseteq 1..Len(evidence)
  BY DEF EvidenceInv
<1>2. IsFiniteSet(1..Len(evidence))
  BY <1>1, FS_Interval
<1> HIDE DEF pays
<1>3. IsFiniteSet(pays)
  BY <1>1, <1>2, FS_Subset
<1>4. Earned(work) = Cardinality(pays)
  BY DEF Earned, pays
<1> QED
  BY <1>3, <1>4, FS_CardinalityType

-----------------------------------------------------------------------------
(* The lock.                                                                *)
LEMMA TwoClients ==
    /\ Scheduler \in Clients /\ Steering \in Clients /\ Scheduler # Steering
    /\ \A c \in Clients : c = Scheduler \/ c = Steering
BY CoordinatorAssumption

\* A call that is not waiting for the lock nor holding it is replaced.
LEMMA CallReplaced ==
    ASSUME LockInv, DocumentInv, EvidenceInv, OwedInv,
           NEW c \in Clients, NEW x, x.phase \notin Held, x.phase # "waiting",
           call' = [call EXCEPT ![c] = x], UNCHANGED <<plan, disk, writeTail, evidence>>
    PROVE  LockInv' /\ DocumentInv' /\ EvidenceInv' /\ OwedInv'
<1>1. LockInv'
  BY DEF LockInv, Holds
<1>2. \A work : Earned(work)' = Earned(work)
  BY DEF Earned
<1>3. DOMAIN call = Clients /\ \A d \in Clients : call'[d] = IF d = c THEN x ELSE call[d]
  BY DEF LockInv
<1>4. DocumentInv'
  BY <1>2, <1>3 DEF DocumentInv, Paid
<1>5. OwedInv'
  BY <1>2, <1>3, TwoClients DEF OwedInv, Owed
<1> QED
  BY <1>1, <1>4, <1>5 DEF EvidenceInv

\* Nothing of the store or the evidence changes.
LEMMA StoreStays ==
    ASSUME LockInv, DocumentInv, EvidenceInv, OwedInv,
           UNCHANGED <<plan, disk, writeTail, call, evidence>>
    PROVE  LockInv' /\ DocumentInv' /\ EvidenceInv' /\ OwedInv'
<1>1. \A work : Earned(work)' = Earned(work)
  BY DEF Earned
<1> QED
  BY <1>1 DEF LockInv, DocumentInv, EvidenceInv, OwedInv, Paid, Owed, Holds

-----------------------------------------------------------------------------
(* The steps of the store.                                                  *)
\* The holder's call ends without having changed the document.
LEMMA StoreSettled ==
    ASSUME IInv, NEW c \in Clients, Holds(c),
           call[c].phase \in {"waiting"} \union Held,
           NEW outcome, outcome # "applied", NEW task, NEW snapshot,
           SettleIn(c, outcome, task, snapshot),
           UNCHANGED <<plan, disk, evidence, processing, pc, active, assignment>>
    PROVE  IInv'
<1>1. DOMAIN call = Clients /\ \A d \in Clients : d # c => call'[d] = call[d]
  BY DEF IInv, LockInv, SettleIn
<1>2. call'[c] = Result(c, outcome, task, snapshot)
  BY <1>1 DEF SettleIn
<1>3. call'[c].phase = "returned" /\ call'[c].outcome = outcome
  BY <1>2 DEF Result
<1>4. call[c] # Idle
  BY DEF Idle, Held
<1>5. LockInv' /\ \A d \in Clients : call'[d].phase \notin Held
  BY LockSettled DEF IInv
<1>6. SchedulerCallInv' /\ SteeringCallInv'
  <2>1. CASE c = Scheduler
    <3>1. SteeringCallInv'
      BY <1>1, <2>1, TwoClients DEF IInv, SteeringCallInv
    <3>2. SchedulerCallInv'
      BY <1>3, <1>4, <2>1 DEF IInv, SchedulerCallInv
    <3> QED
      BY <3>1, <3>2
  <2>2. CASE c = Steering
    <3>1. SchedulerCallInv'
      BY <1>1, <2>2, TwoClients DEF IInv, SchedulerCallInv
    <3>2. SteeringCallInv'
      BY <1>3, <1>4, <2>2 DEF IInv, SteeringCallInv, Held
    <3> QED
      BY <3>1, <3>2
  <2> QED
    BY <2>1, <2>2, TwoClients
<1>7. AssignmentInv' /\ EvidenceInv'
  BY DEF IInv, AssignmentInv, EvidenceInv
<1>8. \A work : Earned(work)' = Earned(work)
  BY DEF Earned
<1>9. DocumentInv'
  BY <1>5, <1>8 DEF IInv, DocumentInv, Paid
<1>10. OwedInv'
  <2> SUFFICES ASSUME call'[Scheduler].phase = "waiting", call'[Scheduler].kind = "complete"
               PROVE  Owed(plan, call[Scheduler].ref.fingerprint)'
    BY <1>5, TwoClients DEF OwedInv
  <2>1. call'[Scheduler] = call[Scheduler]
    BY <1>1, <1>3, TwoClients
  <2>2. Owed(plan, call[Scheduler].ref.fingerprint)
    BY <2>1 DEF IInv, OwedInv
  <2> QED
    BY <1>8, <2>1, <2>2 DEF Owed
<1>11. CurrentInv'
  <2> SUFFICES ASSUME pc = "working" PROVE CurrentInv'
    BY DEF CurrentInv
  <2>1. c = Steering
    BY <1>4, TwoClients DEF IInv, SchedulerCallInv
  <2>2. call[Steering].phase # "returned"
    BY <2>1 DEF Held
  <2> QED
    BY <2>2 DEF IInv, CurrentInv
<1> QED
  BY <1>5, <1>6, <1>7, <1>9, <1>10, <1>11 DEF IInv

\* The holder goes on with a document that the evidence pays for.
LEMMA StoreAdvanced ==
    ASSUME IInv, NEW c \in Clients, Holds(c),
           call[c].phase \in {"waiting"} \union Held,
           NEW phase, phase \in Held, c = Scheduler => phase # "committing",
           NEW next, Valid(next), Paid(next),
           c = Steering /\ call[Scheduler].phase = "waiting"
               /\ call[Scheduler].kind = "complete"
               => Owed(next, call[Scheduler].ref.fingerprint),
           Advance(c, phase, next), disk' \in {disk, next},
           UNCHANGED <<plan, evidence, processing, pc, active, assignment>>
    PROVE  IInv'
<1>1. DOMAIN call = Clients /\ \A d \in Clients : d # c => call'[d] = call[d]
  BY DEF IInv, LockInv, Advance
<1>2. call'[c] = [call[c] EXCEPT !.phase = phase, !.next = next]
  BY <1>1 DEF Advance
<1>3. call[c] # Idle
  BY DEF Idle, Held
<1>4. LockInv'
  BY LockAdvanced DEF IInv
<1>5. \A work : Earned(work)' = Earned(work)
  BY DEF Earned
<1>6. Valid(disk') /\ Paid(disk) /\ Paid(disk')
  BY DEF IInv, DocumentInv
<1>7. /\ SchedulerCallInv' /\ SteeringCallInv'
      /\ call'[c].next = next /\ call'[c].phase = phase
  <2>1. CASE c = Scheduler
    <3>1. SteeringCallInv'
      BY <1>1, <2>1, TwoClients DEF IInv, SteeringCallInv
    <3>2. /\ DOMAIN call[c] = {"phase", "kind", "ref", "next"}
          /\ call[c].kind \in {"complete", "resolve"} /\ WellTaken(call[c].ref)
      BY <2>1 DEF IInv, SchedulerCallInv, Held
    <3>3. /\ DOMAIN call'[c] = {"phase", "kind", "ref", "next"}
          /\ call'[c].kind = call[c].kind /\ call'[c].ref = call[c].ref
          /\ call'[c].next = next /\ call'[c].phase = phase
      BY <1>2, <3>2
    <3>4. phase \in {"writing", "installing"}
      BY <2>1 DEF Held
    <3>5. SchedulerCallInv'
      BY <1>3, <2>1, <3>2, <3>3, <3>4 DEF IInv, SchedulerCallInv
    <3> QED
      BY <3>1, <3>3, <3>5
  <2>2. CASE c = Steering
    <3>1. SchedulerCallInv'
      BY <1>1, <2>2, TwoClients DEF IInv, SchedulerCallInv
    <3>2. /\ DOMAIN call[c] = {"phase", "kind", "expected", "active", "running",
                               "revision", "next"}
          /\ call[c].kind = "apply"
      BY <2>2 DEF IInv, SteeringCallInv
    <3>3. /\ DOMAIN call'[c] = DOMAIN call[c]
          /\ call'[c].kind = call[c].kind
          /\ call'[c].next = next /\ call'[c].phase = phase
      BY <1>2, <3>2
    <3>4. SteeringCallInv'
      BY <1>3, <2>2, <3>2, <3>3 DEF IInv, SteeringCallInv, Held
    <3> QED
      BY <3>1, <3>3, <3>4
  <2> QED
    BY <2>1, <2>2, TwoClients
<1>8. AssignmentInv' /\ EvidenceInv'
  BY DEF IInv, AssignmentInv, EvidenceInv
<1>9. DocumentInv'
  BY <1>1, <1>5, <1>6, <1>7 DEF IInv, DocumentInv, Paid
<1>10. OwedInv'
  <2> SUFFICES ASSUME call'[Scheduler].phase = "waiting", call'[Scheduler].kind = "complete"
               PROVE  /\ Owed(plan, call[Scheduler].ref.fingerprint)'
                      /\ Owed(call[Steering].next, call[Scheduler].ref.fingerprint)'
    BY DEF OwedInv
  <2>1. c = Steering
    BY <1>7, TwoClients DEF Held
  <2>2. call'[Scheduler] = call[Scheduler] /\ call'[Steering].next = next
    BY <1>1, <1>7, <2>1, TwoClients
  <2>3. /\ Owed(plan, call[Scheduler].ref.fingerprint)
        /\ Owed(next, call[Scheduler].ref.fingerprint)
    BY <2>1, <2>2 DEF IInv, OwedInv
  <2> QED
    BY <1>5, <2>2, <2>3 DEF Owed
<1>11. CurrentInv'
  <2> SUFFICES ASSUME pc = "working" PROVE CurrentInv'
    BY DEF CurrentInv
  <2>1. c = Steering
    BY <1>3, TwoClients DEF IInv, SchedulerCallInv
  <2>2. call[Steering].phase # "returned"
    BY <2>1 DEF Held
  <2> QED
    BY <2>2 DEF IInv, CurrentInv
<1> QED
  BY <1>4, <1>7, <1>8, <1>9, <1>10, <1>11 DEF IInv

\* A task is checked for which the scheduler has evidence to spare.
LEMMA CompletionPaid ==
    ASSUME IInv, call[Scheduler].phase = "waiting",
           call[Scheduler].kind = "complete",
           NEW task, task = Resolve(plan, call[Scheduler].ref), task # 0
    PROVE  Valid(Checked(plan, task)) /\ Paid(Checked(plan, task))
<1> DEFINE next == Checked(plan, task)
<1> DEFINE done == call[Scheduler].ref.fingerprint
<1>1. task \in DOMAIN plan /\ Fingerprint(plan[task]) = done
  BY ResolveFacts DEF IInv, SchedulerCallInv
<1>2. /\ Valid(next)
      /\ \A work : work # done => DoneAlike(next, work) = DoneAlike(plan, work)
      /\ DoneAlike(next, done) \subseteq DoneAlike(plan, done) \union {task}
  <2>1. Valid(plan)
    BY DEF IInv, DocumentInv
  <2>2. /\ Valid(next)
        /\ \A work : work # Fingerprint(plan[task]) =>
              DoneAlike(next, work) = DoneAlike(plan, work)
        /\ DoneAlike(next, Fingerprint(plan[task]))
              \subseteq DoneAlike(plan, Fingerprint(plan[task])) \union {task}
    BY <1>1, <2>1, CheckedFacts
  <2> QED
    BY <1>1, <2>2
<1>3. Cardinality(DoneAlike(plan, done)) < Earned(done) /\ Earned(done) \in Nat
  BY EarnedNat DEF IInv, OwedInv, Owed
<1>4. /\ IsFiniteSet(DoneAlike(plan, done)) /\ Cardinality(DoneAlike(plan, done)) \in Nat
  BY ValidListed, DoneAlikeFinite DEF IInv, DocumentInv
<1> HIDE DEF done, next
<1> DEFINE more == DoneAlike(plan, done) \union {task}
<1>5. /\ IsFiniteSet(more)
      /\ Cardinality(more) \in Nat
      /\ Cardinality(more) <= Cardinality(DoneAlike(plan, done)) + 1
  <2>1. /\ IsFiniteSet(more)
        /\ \/ Cardinality(more) = Cardinality(DoneAlike(plan, done))
           \/ Cardinality(more) = Cardinality(DoneAlike(plan, done)) + 1
    BY <1>4, FS_AddElement
  <2> QED
    BY <1>4, <2>1
<1> HIDE DEF more
<1>6. Cardinality(DoneAlike(next, done)) <= Earned(done)
  <2>1. /\ Cardinality(DoneAlike(next, done)) <= Cardinality(more)
    BY <1>2, <1>5, FS_Subset DEF more
  <2>2. Cardinality(DoneAlike(next, done)) \in Nat
    BY <1>2, ValidListed, DoneAlikeFinite
  <2> QED
    BY <1>3, <1>4, <1>5, <2>1, <2>2
<1>7. \A work : Cardinality(DoneAlike(next, work)) <= Earned(work)
  BY <1>2, <1>6 DEF IInv, DocumentInv, Paid
<1> QED
  BY <1>2, <1>7 DEF Paid, next

\* A revision that the evidence pays for, and the asked completion with it.
LEMMA RevisionPaid ==
    ASSUME IInv, call[Steering].phase = "waiting",
           NEW revised, revised = Revised(Steering), revised # <<>>
    PROVE  /\ Valid(revised) /\ Paid(revised)
           /\ call[Scheduler].phase = "waiting" /\ call[Scheduler].kind = "complete"
                 => Owed(revised, call[Scheduler].ref.fingerprint)
<1>1. Valid(plan) /\ Listed(call[Steering].active) /\ Len(call[Steering].active) # 0
  BY DEF IInv, DocumentInv, SteeringCallInv
<1>2. /\ Valid(revised)
      /\ \A work : Cardinality(DoneAlike(revised, work)) <= Cardinality(DoneAlike(plan, work))
  BY <1>1, RevisedFacts
<1>3. \A work : /\ Cardinality(DoneAlike(revised, work)) \in Nat
                /\ Cardinality(DoneAlike(plan, work)) \in Nat
  BY <1>1, <1>2, ValidListed, DoneAlikeFinite
<1>4. \A work : Earned(work) \in Nat
  BY EarnedNat DEF IInv
<1>5. ASSUME NEW work PROVE Cardinality(DoneAlike(revised, work)) <= Earned(work)
  <2>1. Cardinality(DoneAlike(plan, work)) <= Earned(work)
    BY DEF IInv, DocumentInv, Paid
  <2> QED
    BY <1>2, <1>3, <1>4, <2>1
<1>6. ASSUME call[Scheduler].phase = "waiting", call[Scheduler].kind = "complete",
             NEW work, work = call[Scheduler].ref.fingerprint
      PROVE  Cardinality(DoneAlike(revised, work)) < Earned(work)
  <2>1. Cardinality(DoneAlike(plan, work)) < Earned(work)
    BY <1>6 DEF IInv, OwedInv, Owed
  <2> QED
    BY <1>2, <1>3, <1>4, <2>1
<1> QED
  BY <1>2, <1>5, <1>6 DEF Paid, Owed

LEMMA StoreStepKeeps ==
    ASSUME IInv, NEW c \in Clients, StoreStep(c),
           UNCHANGED <<evidence, processing, pc, active, assignment>>
    PROVE  IInv'
<1>1. CASE Complete(c)
  <2>1. Holds(c) /\ call[c].phase = "waiting" /\ call[c].kind = "complete"
    BY <1>1 DEF Complete, At
  <2>2. c = Scheduler
    BY <2>1, TwoClients DEF IInv, SteeringCallInv
  <2> DEFINE task == Resolve(plan, call[c].ref)
             next == [plan EXCEPT ![task] = [@ EXCEPT !.done = TRUE]]
  <2>3. CASE Settle(c, "stale", 0) \/ Settle(c, "unchanged", task)
    BY <1>1, <2>1, <2>3, StoreSettled DEF Settle, Complete
  <2>4. CASE task # 0 /\ Advance(c, "writing", next)
    <3>1. Valid(next) /\ Paid(next)
      BY <2>1, <2>2, <2>4, CompletionPaid DEF Checked
    <3> HIDE DEF next, task
    <3> QED
      BY <1>1, <2>1, <2>2, <2>4, <3>1, StoreAdvanced, TwoClients DEF Held, Complete
  <2> QED
    BY <1>1, <2>3, <2>4 DEF Complete
<1>2. CASE ResolveTask(c)
  BY <1>2, StoreSettled DEF ResolveTask, At, Settle
<1>3. CASE Apply(c)
  <2>1. Holds(c) /\ call[c].phase = "waiting" /\ call[c].kind = "apply"
    BY <1>3 DEF Apply, At
  <2>2. c = Steering
    BY <2>1, TwoClients DEF IInv, SchedulerCallInv
  <2>3. CASE Settle(c, "stale", 0) \/ Settle(c, "failed", 0)
    BY <1>3, <2>1, <2>3, StoreSettled DEF Settle, Apply
  <2>4. CASE Revised(c) # <<>> /\ Advance(c, "committing", Revised(c))
    <3> DEFINE revised == Revised(c)
    <3>1. /\ Valid(revised) /\ Paid(revised)
          /\ call[Scheduler].phase = "waiting" /\ call[Scheduler].kind = "complete"
                 => Owed(revised, call[Scheduler].ref.fingerprint)
      BY <2>1, <2>2, <2>4, RevisionPaid
    <3> HIDE DEF revised
    <3>2. Advance(c, "committing", revised)
      BY <2>4 DEF revised
    <3> QED
      BY <1>3, <2>1, <2>2, <3>1, <3>2, StoreAdvanced, TwoClients DEF Held, Apply
  <2> QED
    BY <1>3, <2>3, <2>4 DEF Apply
<1>4. CASE BeforeCommit(c)
  <2>1. Holds(c) /\ call[c].phase = "committing"
    BY <1>4 DEF BeforeCommit, At
  <2>2. c = Steering
    BY <2>1, TwoClients DEF IInv, SchedulerCallInv
  <2>3. CASE Settle(c, "failed", 0)
    BY <1>4, <2>1, <2>3, StoreSettled DEF Settle, BeforeCommit, Held
  <2>4. CASE Advance(c, "writing", call[c].next)
    <3>1. Valid(call[c].next) /\ Paid(call[c].next)
      BY <2>1 DEF IInv, DocumentInv, Held
    <3>2. call[Scheduler].phase = "waiting" /\ call[Scheduler].kind = "complete"
             => Owed(call[c].next, call[Scheduler].ref.fingerprint)
      BY <2>1, <2>2 DEF IInv, OwedInv, Held
    <3> QED
      BY <1>4, <2>1, <2>2, <2>4, <3>1, <3>2, StoreAdvanced, TwoClients DEF Held, BeforeCommit
  <2> QED
    BY <1>4, <2>3, <2>4 DEF BeforeCommit
<1>5. CASE Rename(c)
  <2>1. /\ Holds(c) /\ call[c].phase = "writing" /\ disk' = call[c].next
        /\ Advance(c, "installing", call[c].next) /\ plan' = plan
    BY <1>5 DEF Rename
  <2>2. Valid(call[c].next) /\ Paid(call[c].next)
    BY <2>1 DEF IInv, DocumentInv, Held
  <2>3. c = Steering /\ call[Scheduler].phase = "waiting" /\ call[Scheduler].kind = "complete"
           => Owed(call[c].next, call[Scheduler].ref.fingerprint)
    BY <2>1 DEF IInv, OwedInv, Held
  <2> QED
    BY <2>1, <2>2, <2>3, StoreAdvanced, TwoClients DEF Held
<1>6. CASE WriteFails(c)
  BY <1>6, StoreSettled DEF WriteFails, Settle, Held
<1>7. CASE Install(c)
  <2> DEFINE new == call[c].next
             task == IF call[c].kind = "complete" THEN Resolve(new, call[c].ref) ELSE 0
  <2>1. /\ Holds(c) /\ call[c].phase = "installing" /\ plan' = new /\ disk' = disk
        /\ SettleIn(c, "applied", task, new)
    BY <1>7 DEF Install
  <2>2. Valid(new) /\ Paid(new)
    BY <2>1 DEF IInv, DocumentInv, Held
  <2> HIDE DEF task
  <2>3. LockInv' /\ \A d \in Clients : call'[d].phase \notin Held
    BY <2>1, LockSettled DEF IInv
  <2>4. DOMAIN call = Clients /\ \A d \in Clients : d # c => call'[d] = call[d]
    BY <2>1 DEF IInv, LockInv, SettleIn
  <2>5. call'[c].phase = "returned" /\ call'[c].outcome = "applied"
    BY <2>1, <2>4 DEF SettleIn, Result
  <2>6. call[c] # Idle
    BY <2>1 DEF Idle
  <2>7. \A work : Earned(work)' = Earned(work)
    BY DEF Earned
  <2>8. AssignmentInv' /\ EvidenceInv'
    BY DEF IInv, AssignmentInv, EvidenceInv
  <2>9. DocumentInv'
    BY <2>1, <2>2, <2>3, <2>7 DEF IInv, DocumentInv, Paid
  <2>10. CASE c = Scheduler
    <3>1. SteeringCallInv'
      BY <2>4, <2>10, TwoClients DEF IInv, SteeringCallInv
    <3>2. SchedulerCallInv'
      BY <2>5, <2>6, <2>10 DEF IInv, SchedulerCallInv
    <3>3. OwedInv'
      BY <2>5, <2>10 DEF OwedInv
    <3>4. pc # "working"
      BY <2>6, <2>10 DEF IInv, SchedulerCallInv
    <3>5. CurrentInv'
      BY <3>4 DEF CurrentInv
    <3> QED
      BY <2>3, <2>8, <2>9, <3>1, <3>2, <3>3, <3>5 DEF IInv
  <2>11. CASE c = Steering
    <3>1. SchedulerCallInv'
      BY <2>4, <2>11, TwoClients DEF IInv, SchedulerCallInv
    <3>2. SteeringCallInv'
      BY <2>5, <2>6, <2>11 DEF IInv, SteeringCallInv, Held
    <3>3. OwedInv'
      <4> SUFFICES ASSUME call'[Scheduler].phase = "waiting",
                          call'[Scheduler].kind = "complete"
                   PROVE  Owed(plan, call[Scheduler].ref.fingerprint)'
        BY <2>3, TwoClients DEF OwedInv
      <4>1. call'[Scheduler] = call[Scheduler]
        BY <2>4, <2>11, TwoClients
      <4>2. Owed(new, call[Scheduler].ref.fingerprint)
        BY <2>1, <2>11, <4>1 DEF IInv, OwedInv, Held
      <4> QED
        BY <2>1, <2>7, <4>1, <4>2 DEF Owed
    <3>4. CurrentInv'
      BY <2>5, <2>11 DEF CurrentInv
    <3> QED
      BY <2>3, <2>8, <2>9, <3>1, <3>2, <3>3, <3>4 DEF IInv
  <2> QED
    BY <2>10, <2>11, TwoClients
<1> QED
  BY <1>1, <1>2, <1>3, <1>4, <1>5, <1>6, <1>7 DEF StoreStep

-----------------------------------------------------------------------------
(* The steps of the scheduler and of the processor.                         *)
Asking == {"resolving", "settling", "exhausting"}
Assigned == {"working", "releasing", "resolve", "resolving", "recording", "settling",
             "disposing", "exhausted", "exhausting"}

\* A step that touches neither the store nor the evidence.
LEMMA StoreUntouched ==
    ASSUME IInv, pc \notin Asking, AssignmentInv', CurrentInv',
           UNCHANGED <<plan, disk, writeTail, call, evidence, processing>>
    PROVE  IInv'
<1>1. LockInv' /\ DocumentInv' /\ EvidenceInv' /\ OwedInv'
  BY StoreStays DEF IInv
<1>2. SchedulerCallInv'
  BY DEF IInv, SchedulerCallInv, Asking
<1>3. SteeringCallInv'
  BY DEF IInv, SteeringCallInv
<1> QED
  BY <1>1, <1>2, <1>3 DEF IInv

\* The scheduler takes the result of its call.
LEMMA SchedulerTakes ==
    ASSUME IInv, AssignmentInv', pc' # "working",
           call' = [call EXCEPT ![Scheduler] = Idle],
           UNCHANGED <<plan, disk, writeTail, evidence, processing>>
    PROVE  IInv'
<1>1. LockInv' /\ DocumentInv' /\ EvidenceInv' /\ OwedInv'
  BY CallReplaced, TwoClients DEF IInv, Idle, Held
<1>2. call'[Scheduler] = Idle /\ call'[Steering] = call[Steering]
  BY TwoClients DEF IInv, LockInv
<1>3. SchedulerCallInv'
  BY <1>2 DEF SchedulerCallInv, Idle
<1>4. SteeringCallInv'
  BY <1>2 DEF IInv, SteeringCallInv
<1>5. CurrentInv'
  BY DEF CurrentInv
<1> QED
  BY <1>1, <1>3, <1>4, <1>5 DEF IInv

\* What the evidence pays for, it still pays for when it has grown.
LEMMA PaidGrows ==
    ASSUME NEW tasks, Valid(tasks), Paid(tasks), EvidenceInv,
           \A work : Earned(work)' \in Nat /\ Earned(work) <= Earned(work)'
    PROVE  /\ \A work : Cardinality(DoneAlike(tasks, work)) <= Earned(work)'
           /\ \A work : Earned(work) < Earned(work)' =>
                           Cardinality(DoneAlike(tasks, work)) < Earned(work)'
<1>1. \A work : Cardinality(DoneAlike(tasks, work)) \in Nat
  BY ValidListed, DoneAlikeFinite
<1>2. \A work : Earned(work) \in Nat
  BY EarnedNat
<1> QED
  BY <1>1, <1>2 DEF Paid

\* More evidence, and no other change of the documents.
LEMMA DocumentStays ==
    ASSUME DocumentInv, EvidenceInv, UNCHANGED <<plan, disk>>,
           \A work : Earned(work)' \in Nat /\ Earned(work) <= Earned(work)',
           \A c \in Clients : call'[c].phase \in Held => call'[c] = call[c]
    PROVE  DocumentInv'
<1>1. \A work : /\ Cardinality(DoneAlike(plan, work)) <= Earned(work)'
                /\ Cardinality(DoneAlike(disk, work)) <= Earned(work)'
  BY PaidGrows DEF DocumentInv
<1>2. Valid(plan)' /\ Paid(plan)' /\ Valid(disk)' /\ Paid(disk)'
  BY <1>1 DEF DocumentInv, Paid
<1>3. ASSUME NEW c \in Clients, call'[c].phase \in Held
      PROVE  (Valid(call[c].next) /\ Paid(call[c].next))'
  <2> DEFINE next == call[c].next
  <2>1. call'[c] = call[c] /\ call[c].phase \in Held
    BY <1>3
  <2>2. Valid(next) /\ Paid(next)
    BY <2>1 DEF DocumentInv
  <2>3. \A work : Cardinality(DoneAlike(next, work)) <= Earned(work)'
    BY <2>2, PaidGrows
  <2> QED
    BY <2>1, <2>2, <2>3 DEF Paid
<1> QED
  BY <1>2, <1>3 DEF DocumentInv

\* The scheduler asks for a completion that new evidence pays for, or for a lookup.
LEMMA SchedulerAsks ==
    ASSUME IInv, NEW kind \in {"complete", "resolve"},
           Enter(Scheduler, [phase |-> "waiting", kind |-> kind, ref |-> assignment.ref,
                             next |-> plan]),
           pc \in Assigned, pc' \in Asking, pc' = "exhausting" => pc = "exhausted",
           EvidenceInv',
           \A work : Earned(work)' \in Nat /\ Earned(work) <= Earned(work)',
           kind = "complete" =>
              Earned(assignment.ref.fingerprint) < Earned(assignment.ref.fingerprint)',
           UNCHANGED <<plan, disk, processing, active, assignment>>
    PROVE  IInv'
<1> DEFINE own == [phase |-> "waiting", kind |-> kind, ref |-> assignment.ref,
                   next |-> plan]
           work == assignment.ref.fingerprint
<1>1. /\ DOMAIN call = Clients
      /\ call'[Scheduler] = own /\ call'[Steering] = call[Steering]
  BY TwoClients DEF IInv, LockInv, Enter
<1>2. WellTaken(assignment.ref) /\ DOMAIN own = {"phase", "kind", "ref", "next"}
  BY DEF IInv, AssignmentInv, Assigned
<1>3. LockInv'
  BY LockEntered, TwoClients DEF IInv, Held
<1>4. SchedulerCallInv'
  BY <1>1, <1>2 DEF SchedulerCallInv, Asking
<1>5. SteeringCallInv'
  BY <1>1 DEF IInv, SteeringCallInv
<1>6. AssignmentInv'
  BY DEF IInv, AssignmentInv, Assigned, Asking
<1>7. \A c \in Clients : call'[c].phase \in Held => call'[c] = call[c]
  BY <1>1, TwoClients DEF Held
<1>8. DocumentInv'
  BY <1>7, DocumentStays DEF IInv
<1>9. OwedInv'
  <2> SUFFICES ASSUME kind = "complete"
               PROVE  /\ Owed(plan, call[Scheduler].ref.fingerprint)'
                      /\ call'[Steering].phase \in Held =>
                            Owed(call[Steering].next, call[Scheduler].ref.fingerprint)'
    BY <1>1 DEF OwedInv
  <2>1. Cardinality(DoneAlike(plan, work)) < Earned(work)'
    BY PaidGrows DEF IInv, DocumentInv
  <2>2. call[Steering].phase \in Held =>
           Cardinality(DoneAlike(call[Steering].next, work)) < Earned(work)'
    BY PaidGrows, TwoClients DEF IInv, DocumentInv
  <2> QED
    BY <1>1, <2>1, <2>2 DEF Owed
<1>10. CurrentInv'
  BY DEF CurrentInv, Asking
<1> QED
  BY <1>3, <1>4, <1>5, <1>6, <1>8, <1>9, <1>10 DEF IInv

\* The processor goes on to something that writes nothing.
LEMMA SteeringMoves ==
    ASSUME IInv,
           call'[Steering].phase \in {"idle", "planning", "invalidating", "returned"},
           call'[Steering] # Idle => processing',
           call'[Steering].phase = "planning" => Valid(call'[Steering].base),
           call' = [call EXCEPT ![Steering] = call'[Steering]], AssignmentInv',
           UNCHANGED <<plan, disk, writeTail, evidence, pc>>, CurrentInv'
    PROVE  IInv'
<1>1. LockInv' /\ DocumentInv' /\ EvidenceInv' /\ OwedInv'
  <2> DEFINE x == call'[Steering]
  <2>1. x.phase \notin Held /\ x.phase # "waiting" /\ call' = [call EXCEPT ![Steering] = x]
    BY DEF Held
  <2> HIDE DEF x
  <2> QED
    BY <2>1, CallReplaced, TwoClients DEF IInv
<1>2. call'[Scheduler] = call[Scheduler]
  BY TwoClients DEF IInv, LockInv
<1>3. SchedulerCallInv'
  BY <1>2 DEF IInv, SchedulerCallInv
<1>4. SteeringCallInv'
  BY DEF SteeringCallInv, Held
<1> QED
  BY <1>1, <1>3, <1>4 DEF IInv

\* A running worker stays on a current task when the processor leaves a call that
\* did not install anything.
LEMMA CurrentStays ==
    ASSUME IInv, ~(call[Steering].phase = "returned" /\ call[Steering].outcome = "applied"),
           UNCHANGED <<plan, pc, assignment>>
    PROVE  CurrentInv'
BY DEF IInv, CurrentInv

\* The pump hands a message to the processor only when it has none.
LEMMA HandOverKeeps ==
    ASSUME IInv, HandOver, processing => processing',
           UNCHANGED <<evidence, active, assignment>>,
           \/ UNCHANGED pc
           \/ pc \notin Asking /\ pc' \notin Assigned
    PROVE  IInv'
<1>1. AssignmentInv'
  BY DEF IInv, AssignmentInv, Assigned
<1>2. CASE processing' /\ ~processing
  <2> DEFINE x == Planning(ActiveReference)
  <2>1. /\ call' = [call EXCEPT ![Steering] = x]
        /\ UNCHANGED <<plan, disk, writeTail>>
    BY <1>2 DEF HandOver, BeginRevision
  <2>2. x.phase = "planning" /\ x.base = plan
    BY DEF Planning
  <2>3. call[Steering] = Idle
    BY <1>2 DEF IInv, SteeringCallInv
  <2>4. CurrentInv'
    BY <2>1, <2>3 DEF IInv, CurrentInv, Idle, Assigned
  <2> HIDE DEF x
  <2>5. LockInv' /\ DocumentInv' /\ EvidenceInv' /\ OwedInv'
    BY <2>1, <2>2, CallReplaced, TwoClients DEF IInv, Held
  <2>6. call'[Steering] = x /\ call'[Scheduler] = call[Scheduler]
    BY <2>1, TwoClients DEF IInv, LockInv
  <2>7. SchedulerCallInv'
    BY <2>6 DEF IInv, SchedulerCallInv, Asking
  <2>8. SteeringCallInv'
    <3>1. Valid(plan)
      BY DEF IInv, DocumentInv
    <3> QED
      BY <1>2, <2>2, <2>6, <3>1 DEF SteeringCallInv, Held
  <2> QED
    BY <1>1, <2>4, <2>5, <2>7, <2>8 DEF IInv
<1>3. CASE ~(processing' /\ ~processing)
  <2>1. UNCHANGED <<plan, disk, writeTail, call>>
    BY <1>3 DEF HandOver, storeVars
  <2>2. LockInv' /\ DocumentInv' /\ EvidenceInv' /\ OwedInv'
    BY <2>1, StoreStays DEF IInv
  <2>3. SchedulerCallInv'
    BY <2>1 DEF IInv, SchedulerCallInv, Asking
  <2>4. SteeringCallInv'
    BY <1>3, <2>1 DEF IInv, SteeringCallInv
  <2>5. CurrentInv'
    BY <2>1 DEF IInv, CurrentInv, Assigned
  <2> QED
    BY <1>1, <2>2, <2>3, <2>4, <2>5 DEF IInv
<1> QED
  BY <1>2, <1>3

\* Where the loop goes after an iteration, it has no assignment.
LEMMA RecordFacts ==
    ASSUME NEW obsolete, Record(obsolete), AssignmentInv, pc \in Assigned
    PROVE  /\ AssignmentInv' /\ processing' = processing
           /\ pc' \in {"exhausted", "final", "select"}
<1>1. processing' = processing /\ active' = FALSE
  BY DEF Record
<1>2. \/ pc' = "exhausted" /\ assignment' = assignment
      \/ pc' \in {"final", "select"}
  BY DEF Record, AwaitIdle, LoopTop
<1> QED
  BY <1>1, <1>2 DEF AssignmentInv, Assigned

LEMMA ScheduleKeeps ==
    ASSUME IInv, Schedule
    PROVE  IInv'
<1> USE DEF queueVars, storeVars, runVars
<1>1. CASE Start
  <2>1. pc = "planned" /\ pc' \in {"final", "select"}
    BY <1>1 DEF Start, LoopTop, AwaitIdle
  <2>2. processing => processing'
    BY <1>1 DEF Start, Queue!StartPump
  <2>3. HandOver /\ UNCHANGED <<evidence, active, assignment>>
    BY <1>1 DEF Start
  <2>4. pc \notin Asking /\ pc' \notin Assigned
    BY <2>1 DEF Asking, Assigned
  <2> QED
    BY <2>2, <2>3, <2>4, HandOverKeeps
<1>2. CASE Select
  <2>1. pc = "select" /\ UNCHANGED <<plan, disk, writeTail, call, evidence, processing>>
    BY <1>2 DEF Select, Resumes
  <2>2. CASE pc' = "final" /\ UNCHANGED <<active, assignment>>
    <3>1. AssignmentInv' /\ CurrentInv'
      BY <2>1, <2>2 DEF IInv, AssignmentInv, CurrentInv
    <3> QED
      BY <2>1, <3>1, StoreUntouched DEF Asking
  <2>3. ASSUME pc' = "working", active' = TRUE,
               NEW next \in DOMAIN plan, NEW attempt,
               assignment' = [ref |-> Reference(plan, next), obsolete |-> FALSE,
                              attempt |-> attempt, status |-> "none", stale |-> FALSE]
        PROVE  IInv'
    <3>1. Listed(plan)
      BY ValidListed DEF IInv, DocumentInv
    <3> DEFINE ref == Reference(plan, next)
    <3>2. WellTaken(ref) /\ Resolve(plan, ref) # 0
      BY <3>1, ReferenceResolves
    <3> HIDE DEF ref
    <3>3. /\ DOMAIN assignment' = {"ref", "obsolete", "attempt", "status", "stale"}
          /\ assignment'.ref = ref
      BY <2>3 DEF ref
    <3>4. AssignmentInv'
      BY <2>3, <3>2, <3>3 DEF AssignmentInv
    <3>5. CurrentInv'
      BY <2>1, <3>2, <3>3 DEF CurrentInv
    <3> QED
      BY <2>1, <3>4, <3>5, StoreUntouched DEF Asking
  <2> DEFINE undone == {i \in DOMAIN plan : ~plan[i].done}
             first == CHOOSE i \in undone : \A j \in undone : i <= j
  <2>4. undone # {} => first \in DOMAIN plan
    <3> SUFFICES ASSUME undone # {} PROVE \E i \in undone : \A j \in undone : i <= j
      OBVIOUS
    <3>1. undone \subseteq Nat
      BY ValidListed DEF IInv, DocumentInv, Listed
    <3> HIDE DEF undone
    <3> QED
      BY <3>1, LeastElement
  <2> HIDE DEF first
  <2>5. CASE undone = {}
    BY <1>2, <2>2, <2>5 DEF Select
  <2>6. CASE undone # {}
    <3>1. /\ pc' = "working" /\ active' = TRUE
          /\ assignment' = [ref |-> Reference(plan, first), obsolete |-> FALSE,
                            attempt |-> Cardinality(AttemptsFor(plan, first)) + 1,
                            status |-> "none", stale |-> FALSE]
      BY <1>2, <2>6 DEF Select, first
    <3>2. first \in DOMAIN plan
      BY <2>4, <2>6
    <3> QED
      BY <2>3, <3>1, <3>2
  <2> QED
    BY <2>5, <2>6
<1>3. ASSUME NEW status \in Outcomes, WorkerReports(status) PROVE IInv'
  <2>1. /\ pc = "working" /\ pc' = "releasing" /\ active' = active
        /\ assignment' = [assignment EXCEPT !.status = status]
        /\ UNCHANGED <<plan, disk, writeTail, call, evidence, processing>>
    BY <1>3 DEF WorkerReports
  <2>2. AssignmentInv' /\ CurrentInv'
    BY <2>1 DEF IInv, AssignmentInv, CurrentInv
  <2> QED
    BY <2>1, <2>2, StoreUntouched DEF Asking
<1>4. CASE WorkerReturns
  <2>1. /\ pc = "releasing" /\ pc' = "resolve" /\ UNCHANGED <<active, assignment>>
        /\ UNCHANGED <<plan, disk, writeTail, call, evidence, processing>>
    BY <1>4 DEF WorkerReturns, AwaitIdle
  <2>2. AssignmentInv' /\ CurrentInv'
    BY <2>1 DEF IInv, AssignmentInv, CurrentInv
  <2> QED
    BY <2>1, <2>2, StoreUntouched DEF Asking
<1>5. CASE WorkerThrows
  <2>1. /\ pc = "working" /\ pc' \in {"failing", "resolve"} /\ active' = active
        /\ \/ assignment' = assignment
           \/ assignment' = [assignment EXCEPT !.status = "failed"]
        /\ UNCHANGED <<plan, disk, writeTail, call, evidence, processing>>
    BY <1>5 DEF WorkerThrows, AwaitIdle
  <2>2. AssignmentInv' /\ CurrentInv'
    BY <2>1 DEF IInv, AssignmentInv, CurrentInv
  <2> QED
    BY <2>1, <2>2, StoreUntouched DEF Asking
<1>6. ASSUME RequestResolve(Scheduler, assignment.ref), pc \in Assigned, pc' \in Asking,
             pc' = "exhausting" => pc = "exhausted",
             UNCHANGED <<evidence, processing, active, assignment>>
      PROVE  IInv'
  <2>1. Enter(Scheduler, [phase |-> "waiting", kind |-> "resolve",
                          ref |-> assignment.ref, next |-> plan])
        /\ UNCHANGED <<plan, disk>>
    BY <1>6 DEF RequestResolve
  <2>2. /\ EvidenceInv'
        /\ \A work : Earned(work)' \in Nat /\ Earned(work) <= Earned(work)'
    <3>1. \A work : Earned(work) \in Nat
      BY EarnedNat DEF IInv
    <3>2. \A work : Earned(work)' = Earned(work)
      BY <1>6 DEF Earned
    <3> QED
      BY <1>6, <3>1, <3>2 DEF IInv, EvidenceInv
  <2> QED
    BY <1>6, <2>1, <2>2, SchedulerAsks
<1>7. CASE Resolving
  BY <1>6, <1>7 DEF Resolving, Resumes, Assigned, Asking
<1>8. CASE Resolved
  <2>1. /\ pc = "resolving" /\ pc' = "recording" /\ active' = active
        /\ \E stale : assignment' = [assignment EXCEPT !.stale = stale]
        /\ call' = [call EXCEPT ![Scheduler] = Idle]
        /\ UNCHANGED <<plan, disk, writeTail, evidence, processing>>
    BY <1>8 DEF Resolved
  <2>2. AssignmentInv'
    BY <2>1 DEF IInv, AssignmentInv
  <2> QED
    BY <2>1, <2>2, SchedulerTakes
<1>9. CASE Evidence
  <2> SUFFICES ASSUME NEW e,
                      e = Entry(assignment.ref.fingerprint, assignment.status = "done",
                                assignment.stale)
               PROVE  IInv'
    OBVIOUS
  <2>1. /\ pc = "recording" /\ evidence' = Append(evidence, e) /\ RequestSettlement
        /\ UNCHANGED <<plan, disk>>
    BY <1>9 DEF Evidence, RequestSettlement
  <2>2. /\ e.work = assignment.ref.fingerprint /\ e.done = (assignment.status = "done")
        /\ e.obsolete = assignment.stale
    BY DEF Entry
  <2>3. /\ EvidenceInv'
        /\ \A work : Earned(work)' \in Nat /\ Earned(work) <= Earned(work)'
        /\ e.done /\ ~e.obsolete => Earned(e.work) < Earned(e.work)'
    BY <2>1, EntryAdded DEF IInv
  <2>4. CASE assignment.stale
    <3>1. Record(TRUE) /\ UNCHANGED <<call, writeTail>>
      BY <2>1, <2>4 DEF RequestSettlement
    <3>2. AssignmentInv' /\ processing' = processing
          /\ pc' \in {"exhausted", "final", "select"}
      BY <2>1, <3>1, RecordFacts DEF IInv, Assigned
    <3>3. DocumentInv'
      BY <2>1, <2>3, <3>1, DocumentStays DEF IInv
    <3>4. LockInv' /\ SteeringCallInv'
      BY <3>1, <3>2 DEF IInv, LockInv, Holds, SteeringCallInv
    <3>5. call[Scheduler] = Idle
      BY <2>1 DEF IInv, SchedulerCallInv
    <3>6. SchedulerCallInv' /\ OwedInv' /\ CurrentInv'
      BY <3>1, <3>2, <3>5 DEF SchedulerCallInv, OwedInv, CurrentInv, Idle
    <3> QED
      BY <2>3, <3>2, <3>3, <3>4, <3>6 DEF IInv
  <2>5. CASE ~assignment.stale
    <3> DEFINE kind == IF assignment.status = "done" THEN "complete" ELSE "resolve"
    <3>1. /\ Enter(Scheduler, [phase |-> "waiting", ref |-> assignment.ref,
                               next |-> plan, kind |-> kind])
          /\ pc' = "settling" /\ UNCHANGED <<processing, active, assignment>>
      BY <2>1, <2>5 DEF RequestSettlement
    <3>2. kind \in {"complete", "resolve"}
          /\ (kind = "complete" =>
                Earned(assignment.ref.fingerprint) < Earned(assignment.ref.fingerprint)')
      <4>1. assignment'.ref.fingerprint = e.work
        BY <2>2, <3>1
      <4> QED
        BY <2>2, <2>3, <2>5, <4>1
    <3> HIDE DEF kind
    <3> QED
      BY <2>1, <2>3, <3>1, <3>2, SchedulerAsks DEF Assigned, Asking
  <2> QED
    BY <2>4, <2>5
<1>10. CASE EvidenceFails
  <2>1. /\ pc = "recording" /\ pc' = "failing" /\ UNCHANGED <<active, assignment>>
        /\ UNCHANGED <<plan, disk, writeTail, call, evidence, processing>>
    BY <1>10 DEF EvidenceFails
  <2>2. AssignmentInv' /\ CurrentInv'
    BY <2>1 DEF IInv, AssignmentInv, CurrentInv
  <2> QED
    BY <2>1, <2>2, StoreUntouched DEF Asking
<1>11. CASE Settlement
  <2>1. /\ pc = "settling" /\ call' = [call EXCEPT ![Scheduler] = Idle]
        /\ \/ Record(FALSE)
           \/ /\ pc' \in {"disposing", "failing"}
              /\ UNCHANGED <<processing, active, assignment>>
        /\ UNCHANGED <<plan, disk, writeTail, evidence>>
    BY <1>11 DEF Settlement
  <2>2. AssignmentInv' /\ processing' = processing /\ pc' # "working"
    <3>1. CASE Record(FALSE)
      BY <2>1, <3>1, RecordFacts DEF IInv, Assigned
    <3>2. CASE pc' \in {"disposing", "failing"} /\ UNCHANGED <<processing, active, assignment>>
      BY <2>1, <3>2 DEF IInv, AssignmentInv
    <3> QED
      BY <2>1, <3>1, <3>2
  <2> QED
    BY <2>1, <2>2, SchedulerTakes
<1>12. CASE Dispose
  <2>1. /\ pc = "disposing"
        /\ \/ Record(TRUE)
           \/ pc' = "failing" /\ UNCHANGED <<processing, active, assignment>>
        /\ UNCHANGED <<plan, disk, writeTail, call, evidence>>
    BY <1>12 DEF Dispose
  <2>2. AssignmentInv' /\ processing' = processing /\ pc' # "working"
    <3>1. CASE Record(TRUE)
      BY <2>1, <3>1, RecordFacts DEF IInv, Assigned
    <3>2. CASE pc' = "failing" /\ UNCHANGED <<processing, active, assignment>>
      BY <2>1, <3>2 DEF IInv, AssignmentInv
    <3> QED
      BY <2>1, <3>1, <3>2
  <2> QED
    BY <2>1, <2>2, StoreUntouched DEF Asking, CurrentInv
<1>13. CASE Exhausting
  BY <1>6, <1>13 DEF Exhausting, Resumes, Assigned, Asking
<1>14. CASE Exhausted
  <2>1. /\ call' = [call EXCEPT ![Scheduler] = Idle] /\ active' = active
        /\ pc = "exhausting" /\ pc' \in {"replaced", "select", "final"}
        /\ UNCHANGED <<plan, disk, writeTail, evidence, processing>>
    BY <1>14 DEF Exhausted, LoopTop, AwaitIdle
  <2>2. AssignmentInv'
    BY <2>1 DEF IInv, AssignmentInv
  <2> QED
    BY <2>1, <2>2, SchedulerTakes
<1>15. CASE Replaced
  <2>1. /\ pc = "replaced" /\ pc' \in {"select", "final", "failing"}
        /\ UNCHANGED <<active, assignment>>
        /\ UNCHANGED <<plan, disk, writeTail, call, evidence, processing>>
    BY <1>15 DEF Replaced, LoopTop, AwaitIdle
  <2>2. AssignmentInv' /\ CurrentInv'
    BY <2>1 DEF IInv, AssignmentInv, CurrentInv
  <2> QED
    BY <2>1, <2>2, StoreUntouched DEF Asking
<1>16. CASE FinalRead \/ Catch \/ Finish
  <2>1. /\ pc \in {"final", "failing", "finishing"}
        /\ pc' \in {"failing", "finishing", "ended"}
        /\ UNCHANGED <<active, assignment>>
        /\ UNCHANGED <<plan, disk, writeTail, call, evidence, processing>>
    BY <1>16 DEF FinalRead, Catch, Finish, Queue!RemoveProcessor
  <2>2. AssignmentInv' /\ CurrentInv'
    BY <2>1 DEF IInv, AssignmentInv, CurrentInv
  <2> QED
    BY <2>1, <2>2, StoreUntouched DEF Asking
<1> QED
  BY <1>1, <1>2, <1>3, <1>4, <1>5, <1>7, <1>8, <1>9, <1>10, <1>11, <1>12, <1>13, <1>14,
     <1>15, <1>16 DEF Schedule

LEMMA SteerKeeps ==
    ASSUME IInv, Steer
    PROVE  IInv'
<1> USE DEF queueVars, storeVars, runVars
<1>1. ASSUME NextMessage, UNCHANGED <<plan, disk, writeTail, evidence, pc>>,
             AssignmentInv', CurrentInv'
      PROVE  IInv'
  <2>1. Valid(plan)
    BY DEF IInv, DocumentInv
  <2>2. CASE processing'
    <3> DEFINE x == Planning(ActiveReference)
    <3>1. x.phase = "planning" /\ x.base = plan
      BY DEF Planning
    <3>2. call' = [call EXCEPT ![Steering] = x]
      BY <1>1, <2>2 DEF NextMessage
    <3>3. call'[Steering] = x
      BY <3>2, TwoClients DEF IInv, LockInv
    <3> HIDE DEF x
    <3> QED
      BY <1>1, <2>1, <2>2, <3>1, <3>2, <3>3, SteeringMoves
  <2>3. CASE ~processing'
    <3>1. call' = [call EXCEPT ![Steering] = Idle] /\ Idle.phase = "idle"
      BY <1>1, <2>3 DEF NextMessage, Idle
    <3>2. call'[Steering] = Idle
      BY <3>1, TwoClients DEF IInv, LockInv
    <3> QED
      BY <1>1, <3>1, <3>2, SteeringMoves
  <2> QED
    BY <2>2, <2>3
<1>2. CASE PlannerAnswers
  <2>1. /\ call[Steering].phase = "planning"
        /\ UNCHANGED <<plan, disk, evidence, processing, pc, active, assignment>>
    BY <1>2 DEF PlannerAnswers, RequestApply, RevisionFails
  <2>2. AssignmentInv'
    BY <2>1 DEF IInv, AssignmentInv
  <2>3. CurrentInv'
    BY <2>1, CurrentStays
  <2>4. processing
    BY <2>1 DEF IInv, SteeringCallInv, Idle
  <2>5. CASE RevisionFails(Steering)
    <3> DEFINE x == Result(Steering, "failed", 0, plan)
    <3>1. x.phase = "returned"
      BY DEF Result
    <3>2. call' = [call EXCEPT ![Steering] = x] /\ writeTail' = writeTail
      BY <2>5 DEF RevisionFails
    <3>3. call'[Steering] = x
      BY <3>2, TwoClients DEF IInv, LockInv
    <3> HIDE DEF x
    <3> QED
      BY <2>1, <2>2, <2>3, <2>4, <3>1, <3>2, <3>3, SteeringMoves
  <2>6. ASSUME NEW answer, RequestApply(Steering, answer, ActiveReference)
        PROVE  IInv'
    <3> DEFINE shown == call[Steering].base
               number == call[Steering].revision
               worker == call[Steering].activeTask
               made == Reconcile(shown, answer, worker, Pending(shown), {}, number)
               x == [phase |-> "waiting", kind |-> "apply",
                     expected |-> AuthorityToken(shown),
                     active |-> made.active, running |-> ActiveReference,
                     revision |-> number, next |-> plan]
    <3>1. made # NoRevision /\ Enter(Steering, x) /\ Valid(answer)
      BY <2>6 DEF RequestApply
    <3>2. Valid(shown)
      BY <2>1 DEF IInv, SteeringCallInv
    <3> HIDE DEF shown, number, worker
    <3>3. Listed(made.active) /\ DOMAIN made.active = DOMAIN answer
      BY <3>1, <3>2, ValidListed, ActiveListed
    <3>4. Len(made.active) # 0
      BY <3>1, <3>3, ValidListed DEF Listed
    <3> HIDE DEF made
    <3>5. /\ x.phase = "waiting" /\ x.kind = "apply" /\ x.active = made.active
          /\ DOMAIN x = {"phase", "kind", "expected", "active", "running", "revision",
                         "next"}
      OBVIOUS
    <3> HIDE DEF x
    <3>6. /\ call'[Steering] = x /\ call'[Scheduler] = call[Scheduler]
          /\ DOMAIN call = Clients
      BY <3>1, TwoClients DEF IInv, LockInv, Enter
    <3>7. LockInv'
      BY <3>1, <3>5, LockEntered, TwoClients DEF IInv, Held
    <3>8. SchedulerCallInv'
      BY <2>1, <3>6 DEF IInv, SchedulerCallInv
    <3>9. SteeringCallInv'
      BY <2>1, <2>4, <3>3, <3>4, <3>5, <3>6 DEF SteeringCallInv, Held
    <3>10. \A work : Earned(work)' = Earned(work)
      BY <2>1 DEF Earned
    <3>11. EvidenceInv' /\ OwedInv'
      BY <2>1, <3>5, <3>6, <3>10 DEF IInv, EvidenceInv, OwedInv, Owed, Held
    <3>12. \A c \in Clients : call'[c].phase \in Held => call'[c] = call[c]
      BY <3>5, <3>6, TwoClients DEF Held
    <3>13. \A work : Earned(work)' \in Nat /\ Earned(work) <= Earned(work)'
      BY <3>10, EarnedNat DEF IInv
    <3>14. DocumentInv'
      BY <2>1, <3>12, <3>13, DocumentStays DEF IInv
    <3> QED
      BY <2>2, <2>3, <3>7, <3>8, <3>9, <3>11, <3>14 DEF IInv
  <2> QED
    BY <1>2, <2>5, <2>6 DEF PlannerAnswers
<1>3. CASE RevisionInstalled
  <2>1. /\ call[Steering].phase = "returned"
        /\ UNCHANGED <<plan, disk, writeTail, evidence, pc, active>>
    BY <1>3 DEF RevisionInstalled, Returned
  <2>2. CASE /\ assignment' = [assignment EXCEPT !.obsolete = TRUE]
             /\ call' = [call EXCEPT ![Steering] = [phase |-> "invalidating"]]
             /\ active /\ processing' = processing
    <3>1. AssignmentInv' /\ CurrentInv'
      BY <2>1, <2>2 DEF IInv, AssignmentInv, CurrentInv
    <3>2. processing
      BY <2>1 DEF IInv, SteeringCallInv, Idle
    <3> DEFINE x == [phase |-> "invalidating"]
    <3>3. x.phase = "invalidating" /\ call' = [call EXCEPT ![Steering] = x]
      BY <2>2
    <3>4. call'[Steering] = x
      BY <3>3, TwoClients DEF IInv, LockInv
    <3> HIDE DEF x
    <3> QED
      BY <2>1, <2>2, <3>1, <3>2, <3>3, <3>4, SteeringMoves
  <2>3. CASE /\ ~(active /\ Resolve(plan, assignment.ref) = 0)
             /\ NextMessage /\ assignment' = assignment
    <3>1. AssignmentInv'
      BY <2>1, <2>3 DEF IInv, AssignmentInv
    <3>2. CurrentInv'
      BY <2>1, <2>3 DEF IInv, AssignmentInv, CurrentInv
    <3> QED
      BY <1>1, <2>1, <2>3, <3>1, <3>2
  <2> QED
    BY <1>3, <2>2, <2>3 DEF RevisionInstalled
<1>4. CASE Invalidated \/ RevisionRejected
  <2>1. /\ ~(call[Steering].phase = "returned" /\ call[Steering].outcome = "applied")
        /\ NextMessage
        /\ UNCHANGED <<plan, disk, writeTail, evidence, pc, active, assignment>>
    BY <1>4 DEF Invalidated, RevisionRejected
  <2>2. AssignmentInv' /\ CurrentInv'
    BY <2>1, CurrentStays DEF IInv, AssignmentInv
  <2> QED
    BY <1>1, <2>1, <2>2
<1> QED
  BY <1>2, <1>3, <1>4 DEF Steer

-----------------------------------------------------------------------------
LEMMA InitIInv ==
    ASSUME Init
    PROVE  IInv
<1>1. Valid(plan) /\ Listed(plan)
  BY ValidListed, StoreAssumption DEF Init
<1>2. DOMAIN call = Clients /\ \A c \in Clients : call[c] = Idle
  BY DEF Init
<1>3. Idle.phase = "idle"
  BY DEF Idle
<1>4. /\ pc = "planned" /\ active = FALSE /\ disk = plan /\ writeTail = <<>>
  BY DEF Init
<1>5. LockInv /\ SchedulerCallInv /\ SteeringCallInv
  BY <1>2, <1>3, <1>4, TwoClients DEF LockInv, SchedulerCallInv, SteeringCallInv, Held
<1>6. AssignmentInv /\ CurrentInv /\ OwedInv
  BY <1>2, <1>3, <1>4, TwoClients DEF AssignmentInv, CurrentInv, OwedInv
<1>7. /\ evidence = [i \in 1..Len(plan) |-> evidence[i]]
      /\ \A i \in 1..Len(plan) : /\ evidence[i].work = Fingerprint(plan[i])
                                 /\ evidence[i].done = plan[i].done
                                 /\ ~evidence[i].obsolete
  <2>1. evidence = [i \in 1..Len(plan) |-> Entry(Fingerprint(plan[i]), plan[i].done, FALSE)]
    BY <1>1 DEF Init, Listed
  <2> QED
    BY <2>1 DEF Entry
<1>8. Len(evidence) = Len(plan) /\ Len(plan) \in Nat
  BY <1>1, <1>7, ListLength DEF Listed
<1>9. EvidenceInv
  BY <1>7, <1>8 DEF EvidenceInv
<1>10. ASSUME NEW work PROVE Cardinality(DoneAlike(plan, work)) <= Earned(work)
  <2>1. DoneAlike(plan, work) = {k \in DOMAIN evidence : evidence[k].work = work
                                     /\ evidence[k].done /\ ~evidence[k].obsolete}
    <3>1. DOMAIN evidence = 1..Len(plan) /\ DOMAIN plan = 1..Len(plan)
      BY <1>1, <1>7 DEF Listed
    <3> QED
      BY <1>7, <3>1 DEF DoneAlike
  <2>2. Cardinality(DoneAlike(plan, work)) = Earned(work)
    BY <2>1 DEF Earned
  <2> QED
    BY <1>9, <2>2, EarnedNat
<1>11. DocumentInv
  BY <1>1, <1>2, <1>3, <1>4, <1>10 DEF DocumentInv, Paid, Held
<1> QED
  BY <1>5, <1>6, <1>9, <1>11 DEF IInv

LEMMA NextIInv ==
    ASSUME IInv, [Next]_vars
    PROVE  IInv'
<1> USE DEF queueVars, storeVars, runVars
<1>1. CASE Schedule
  BY <1>1, ScheduleKeeps
<1>2. CASE Steer
  BY <1>2, SteerKeeps
<1>3. CASE Store
  <2>1. PICK c \in Clients : StoreStep(c)
    BY <1>3 DEF Store
  <2>2. UNCHANGED <<evidence, processing, pc, active, assignment>>
    BY <1>3 DEF Store
  <2> QED
    BY <2>1, <2>2, StoreStepKeeps
<1>4. CASE TypeGuidance
  <2>1. HandOver /\ UNCHANGED <<evidence, active, assignment, pc>>
    BY <1>4 DEF TypeGuidance
  <2>2. processing => processing'
    BY <1>4 DEF TypeGuidance, Queue!Enqueue, Queue!StartPump
  <2> QED
    BY <2>1, <2>2, HandOverKeeps
<1>5. CASE Abort \/ CloseQueue \/ UNCHANGED vars
  <2>1. UNCHANGED <<plan, disk, writeTail, call, evidence, processing, pc, active,
                    assignment>>
    BY <1>5 DEF Abort, CloseQueue, Queue!Close, vars
  <2>2. LockInv' /\ DocumentInv' /\ EvidenceInv' /\ OwedInv'
    BY <2>1, StoreStays DEF IInv
  <2>3. SchedulerCallInv' /\ SteeringCallInv' /\ AssignmentInv' /\ CurrentInv'
    BY <2>1 DEF IInv, SchedulerCallInv, SteeringCallInv, AssignmentInv, CurrentInv
  <2> QED
    BY <2>2, <2>3 DEF IInv
<1> QED
  BY <1>1, <1>2, <1>3, <1>4, <1>5 DEF Next

LEMMA Inductive == Spec => []IInv
<1>1. Init => IInv
  BY InitIInv
<1>2. IInv /\ [Next]_vars => IInv'
  BY NextIInv
<1> QED
  BY <1>1, <1>2, PTL DEF Spec

\* A checked task rests on evidence of its own: completeTask writes only after the
\* append of TASK_RESULT.md, for the text that was assigned, and reconcilePlanRevision
\* carries a checkbox to one task of the new plan only.
THEOREM CheckboxIsPaid == Spec => []EvidenceBeforeCheckbox
<1>1. IInv => EvidenceBeforeCheckbox
  BY DEF IInv, DocumentInv, Paid, DoneAlike, EvidenceBeforeCheckbox
<1> QED
  BY <1>1, Inductive, PTL

\* A worker that nobody stopped works on a task of the plan whenever no revision is
\* under way: the processor invalidates the assignment before it accepts the message.
THEOREM RunningWorkIsCurrent == Spec => []ActiveWorkIsCurrent
<1>1. IInv => ActiveWorkIsCurrent
  <2> SUFFICES ASSUME IInv, ~processing PROVE ActiveWorkIsCurrent
    BY DEF ActiveWorkIsCurrent
  <2>1. call[Steering].phase = "idle"
    BY DEF IInv, SteeringCallInv, Idle
  <2> QED
    BY <2>1 DEF IInv, CurrentInv, ActiveWorkIsCurrent
<1> QED
  BY <1>1, Inductive, PTL

-----------------------------------------------------------------------------
(* The attempts.                                                            *)
\* No two tasks have one text.
DistinctTexts(tasks) ==
    \A i, j \in DOMAIN tasks : Fingerprint(tasks[i]) = Fingerprint(tasks[j]) => i = j

\* The attempts in the log that count against a text.
Failed(log, work) ==
    {k \in DOMAIN log : log[k].work = work /\ log[k].status # "done" /\ ~log[k].obsolete}

\* The last attempt is the one that was just made, and failed.
JustFailed(log, work) ==
    /\ Len(log) \in DOMAIN log
    /\ Len(log) \in Failed(log, work)
    /\ DOMAIN log[Len(log)] = {"work", "status", "obsolete", "flagged"}

Unsettled == {"working", "releasing", "resolve", "resolving", "recording", "settling",
              "disposing"}

\* While another attempt may be made or is being made, every text has one left.
Trying == \/ pc \in {"planned", "select", "replaced"} \union Unsettled
          \/ active /\ pc = "failing"

\* An attempt has a number beyond the failures of its text.
NumberInv ==
    pc \in Unsettled =>
        /\ assignment.attempt \in Nat
        /\ Failures(assignment.ref.fingerprint) < assignment.attempt

ExhaustedInv ==
    pc \in {"exhausted", "exhausting"} =>
        LET own == assignment.ref.fingerprint
        IN  /\ JustFailed(attempts, own)
            /\ \A work : work # own => Failures(work) < MaxAttempts

\* The plan in which the exhausted task is looked for has it at most once.
LookupInv ==
    pc = "exhausting" =>
        LET own == call[Scheduler]
        IN  /\ own.phase \in {"waiting", "returned"}
            /\ own.phase = "waiting" => own.kind = "resolve" /\ own.ref = assignment.ref
            /\ own.phase = "returned" /\ own.task # 0 =>
                  /\ DistinctTexts(own.snapshot)
                  /\ own.task \in DOMAIN own.snapshot
                  /\ Fingerprint(own.snapshot[own.task]) = assignment.ref.fingerprint

LogInv == /\ Len(attempts) \in Nat
          /\ attempts = [k \in 1..Len(attempts) |-> attempts[k]]

LimitInv ==
    /\ LogInv
    /\ pc \in {"planned", "select", "final", "replaced"} => ~active
    /\ \A work : Failures(work) <= MaxAttempts
    /\ Trying => \A work : Failures(work) < MaxAttempts
    /\ NumberInv
    /\ ExhaustedInv
    /\ LookupInv

\* An attempt is added to the log: it counts once, against its own text.
LEMMA AttemptAdded ==
    ASSUME LogInv, NEW a, attempts' = Append(attempts, a)
    PROVE  /\ LogInv' /\ Len(attempts') \in DOMAIN attempts'
           /\ attempts'[Len(attempts')] = a
           /\ \A work : Failures(work) \in Nat /\ Failures(work)' \in Nat
           /\ \A work : Failures(work)' <= Failures(work) + 1
           /\ \A work : a.work # work \/ a.status = "done" \/ a.obsolete
                            => Failures(work)' <= Failures(work)
<1> DEFINE n == Len(attempts)
<1>1. n \in Nat /\ DOMAIN attempts = 1..n
  BY DEF LogInv
<1>2. /\ attempts' = [k \in 1..(n + 1) |-> attempts'[k]]
      /\ Len(attempts') = n + 1
      /\ DOMAIN attempts' = 1..(n + 1)
      /\ \A k \in 1..n : attempts'[k] = attempts[k]
      /\ attempts'[n + 1] = a
  <2> DEFINE T == {attempts[k] : k \in 1..n} \union {a}
  <2>1. attempts \in [1..n -> T]
    BY DEF LogInv
  <2> HIDE DEF T
  <2>2. attempts \in Seq(T) /\ a \in T
    BY <1>1, <2>1 DEF T
  <2>3. attempts' \in Seq(T) /\ Len(attempts') = n + 1
    BY <2>2
  <2>4. attempts' \in [1..(n + 1) -> T]
    <3> HIDE DEF n
    <3>1. attempts' \in [1..Len(attempts') -> T]
      BY <2>3, LenProperties
    <3> QED
      BY <2>3, <3>1
  <2>5. /\ \A k \in 1..n : attempts'[k] = attempts[k]
        /\ attempts'[n + 1] = a
    BY <1>1, <2>2
  <2> QED
    BY <2>3, <2>4, <2>5
<1>3. IsFiniteSet(1..(n + 1))
  BY <1>1, FS_Interval
<1>4. ASSUME NEW work
      PROVE  /\ Failures(work) \in Nat /\ Failures(work)' \in Nat
             /\ Failures(work)' <= Failures(work) + 1
             /\ a.work # work \/ a.status = "done" \/ a.obsolete
                    => Failures(work)' <= Failures(work)
  <2> DEFINE before == Failed(attempts, work)
             after  == Failed(attempts', work)
  <2>1. Failures(work) = Cardinality(before) /\ Failures(work)' = Cardinality(after)
    BY DEF Failures, Failed
  <2>2. /\ before \subseteq 1..(n + 1) /\ after \subseteq before \union {n + 1}
        /\ n + 1 \notin before
        /\ a.work # work \/ a.status = "done" \/ a.obsolete => after \subseteq before
    BY <1>1, <1>2 DEF Failed
  <2> HIDE DEF before, after
  <2>3. IsFiniteSet(before)
    BY <1>3, <2>2, FS_Subset
  <2>4. IsFiniteSet(before \union {n + 1})
        /\ Cardinality(before \union {n + 1}) = Cardinality(before) + 1
    BY <2>2, <2>3, FS_AddElement
  <2>5. IsFiniteSet(after) /\ Cardinality(after) <= Cardinality(before \union {n + 1})
    BY <2>2, <2>4, FS_Subset
  <2>6. after \subseteq before => Cardinality(after) <= Cardinality(before)
    BY <2>3, FS_Subset
  <2>7. Cardinality(before) \in Nat /\ Cardinality(after) \in Nat
    BY <2>3, <2>5, FS_CardinalityType
  <2> QED
    BY <2>1, <2>2, <2>4, <2>5, <2>6, <2>7
<1>5. LogInv'
  BY <1>1, <1>2 DEF LogInv
<1>6. Len(attempts') \in DOMAIN attempts' /\ attempts'[Len(attempts')] = a
  BY <1>1, <1>2
<1> QED
  BY <1>4, <1>5, <1>6

\* The attempt that was just made is withdrawn.
LEMMA AttemptWithdrawn ==
    ASSUME LogInv, NEW own, JustFailed(attempts, own),
           attempts' = [attempts EXCEPT ![Len(attempts)] = [@ EXCEPT !.obsolete = TRUE]]
    PROVE  /\ LogInv'
           /\ \A work : Failures(work) \in Nat /\ Failures(work)' \in Nat
           /\ \A work : Failures(work)' <= Failures(work)
           /\ Failures(own)' < Failures(own)
<1> DEFINE n == Len(attempts)
<1>1. n \in Nat /\ DOMAIN attempts = 1..n /\ n \in 1..n
  BY DEF LogInv, JustFailed
<1>2. DOMAIN attempts' = 1..n /\ \A k \in 1..n : k # n => attempts'[k] = attempts[k]
  BY <1>1
<1>3. attempts'[n].obsolete
  <2>1. attempts'[n] = [attempts[n] EXCEPT !.obsolete = TRUE]
    BY <1>1
  <2>2. "obsolete" \in DOMAIN attempts[n]
    BY DEF JustFailed
  <2> HIDE DEF n
  <2> QED
    BY <2>1, <2>2
<1>4. attempts' = [k \in 1..n |-> attempts'[k]]
  BY <1>1
<1>5. IsFiniteSet(1..n)
  <2>1. n \in Int
    BY <1>1
  <2> HIDE DEF n
  <2> QED
    BY <2>1, FS_Interval
<1>6. ASSUME NEW work
      PROVE  /\ Failures(work) \in Nat /\ Failures(work)' \in Nat
             /\ Failures(work)' <= Failures(work)
             /\ work = own => Failures(work)' < Failures(work)
  <2> DEFINE before == Failed(attempts, work)
             after  == Failed(attempts', work)
  <2>1. Failures(work) = Cardinality(before) /\ Failures(work)' = Cardinality(after)
    BY DEF Failures, Failed
  <2>2. /\ before \subseteq 1..n /\ after \subseteq before /\ n \notin after
        /\ work = own => n \in before
    <3> HIDE DEF n
    <3>1. \A k \in after : k \in 1..n /\ k # n
      BY <1>2, <1>3 DEF Failed
    <3>2. \A k \in after : k \in before
      BY <1>1, <1>2, <3>1 DEF Failed
    <3>3. work = own => n \in before
      BY DEF JustFailed, n
    <3>4. before \subseteq 1..n
      BY <1>1 DEF Failed
    <3> QED
      BY <3>1, <3>2, <3>3, <3>4
  <2> HIDE DEF before, after, n
  <2>3. IsFiniteSet(before)
    BY <1>5, <2>2, FS_Subset
  <2>4. IsFiniteSet(after) /\ Cardinality(after) <= Cardinality(before)
        /\ (Cardinality(after) = Cardinality(before) => after = before)
    BY <2>2, <2>3, FS_Subset
  <2>5. Cardinality(before) \in Nat /\ Cardinality(after) \in Nat
    BY <2>3, <2>4, FS_CardinalityType
  <2>6. work = own => Cardinality(after) # Cardinality(before)
    BY <2>2, <2>4
  <2> QED
    BY <2>1, <2>4, <2>5, <2>6
<1>7. Len(attempts') = n
  BY <1>1, <1>4, ListLength
<1>8. LogInv'
  BY <1>1, <1>4, <1>7 DEF LogInv
<1> QED
  BY <1>6, <1>8

\* Where no text is doubled, every failure of a task's text is an attempt at the task.
LEMMA FailuresAreAttempts ==
    ASSUME LogInv, NEW tasks, DistinctTexts(tasks), NEW i \in DOMAIN tasks
    PROVE  /\ Cardinality(AttemptsFor(tasks, i)) \in Nat
           /\ Failures(Fingerprint(tasks[i])) \in Nat
           /\ Failures(Fingerprint(tasks[i])) <= Cardinality(AttemptsFor(tasks, i))
<1> DEFINE work == Fingerprint(tasks[i])
           own  == AttemptsFor(tasks, i)
<1>1. {j \in DOMAIN tasks : Fingerprint(tasks[j]) = work} = {i}
  BY DEF DistinctTexts
<1>2. Failed(attempts, work) \subseteq own /\ own \subseteq DOMAIN attempts
  <2> HIDE DEF work
  <2> QED
    BY <1>1 DEF Failed, AttemptsFor
<1>3. Len(attempts) \in Nat /\ DOMAIN attempts = 1..Len(attempts)
  BY DEF LogInv
<1>4. IsFiniteSet(1..Len(attempts))
  BY <1>3, FS_Interval
<1> HIDE DEF own
<1>5. IsFiniteSet(own)
  BY <1>2, <1>3, <1>4, FS_Subset
<1>6. IsFiniteSet(Failed(attempts, work))
      /\ Cardinality(Failed(attempts, work)) <= Cardinality(own)
  BY <1>2, <1>5, FS_Subset
<1>7. Failures(work) = Cardinality(Failed(attempts, work))
  BY DEF Failures, Failed
<1> QED
  BY <1>5, <1>6, <1>7, FS_CardinalityType DEF own

\* A step that makes no attempt.
LEMMA LimitStays ==
    ASSUME LimitInv, attempts' = attempts, Trying' => Trying,
           pc' \in {"planned", "select", "final", "replaced"} => ~active',
           NumberInv', ExhaustedInv', LookupInv'
    PROVE  LimitInv'
<1>1. \A work : Failures(work)' = Failures(work)
  BY DEF Failures
<1> QED
  BY <1>1 DEF LimitInv, LogInv

\* A step of a worker's iteration that leaves its number and its text alone.
LEMMA UnsettledStays ==
    ASSUME LimitInv, attempts' = attempts, pc \in Unsettled,
           pc' \in Unsettled \/ pc' = "failing",
           assignment'.attempt = assignment.attempt, assignment'.ref = assignment.ref
    PROVE  LimitInv'
<1>1. \A work : Failures(work)' = Failures(work)
  BY DEF Failures
<1>2. NumberInv'
  BY <1>1 DEF LimitInv, NumberInv
<1>3. ExhaustedInv' /\ LookupInv'
  BY DEF ExhaustedInv, LookupInv, Unsettled
<1>4. Trying
  BY DEF Trying
<1>5. pc' \notin {"planned", "select", "final", "replaced"}
  BY DEF Unsettled
<1> QED
  BY <1>2, <1>3, <1>4, <1>5, LimitStays

\* The end of an iteration: the text has an attempt left, or this was its last.
LEMMA RecordCounts ==
    ASSUME LimitInv, NEW obsolete, Record(obsolete), pc \in Unsettled
    PROVE  LimitInv'
<1> SUFFICES ASSUME NEW own, own = assignment.ref.fingerprint PROVE LimitInv'
  OBVIOUS
<1> DEFINE a == [work |-> own, status |-> assignment.status, obsolete |-> obsolete,
                 flagged |-> assignment.obsolete]
<1>1. attempts' = Append(attempts, a) /\ active' = FALSE
  BY DEF Record
<1>2. /\ a.work = own /\ a.status = assignment.status /\ a.obsolete = obsolete
      /\ DOMAIN a = {"work", "status", "obsolete", "flagged"}
  OBVIOUS
<1> HIDE DEF a
<1>3. /\ LogInv' /\ Len(attempts') \in DOMAIN attempts'
      /\ attempts'[Len(attempts')] = a
      /\ \A work : Failures(work) \in Nat /\ Failures(work)' \in Nat
      /\ \A work : Failures(work)' <= Failures(work) + 1
      /\ \A work : a.work # work \/ a.status = "done" \/ a.obsolete
                       => Failures(work)' <= Failures(work)
  BY <1>1, AttemptAdded DEF LimitInv
<1>4. /\ \A work : Failures(work) < MaxAttempts
      /\ assignment.attempt \in Nat /\ Failures(own) < assignment.attempt
      /\ MaxAttempts \in Nat
  BY CoordinatorAssumption DEF LimitInv, Trying, NumberInv
<1>5. \A work : Failures(work)' <= MaxAttempts
  BY <1>3, <1>4
<1>6. \A work : work # own => Failures(work)' < MaxAttempts
  BY <1>2, <1>3, <1>4
<1>7. CASE pc' = "exhausted" /\ assignment' = assignment
           /\ ~obsolete /\ assignment.status # "done"
  <2>1. JustFailed(attempts', own)
    BY <1>2, <1>3, <1>7 DEF JustFailed, Failed
  <2>2. ExhaustedInv'
    BY <1>6, <1>7, <2>1 DEF ExhaustedInv, JustFailed
  <2>3. ~Trying' /\ NumberInv' /\ LookupInv'
    BY <1>1, <1>7 DEF Trying, NumberInv, LookupInv, Unsettled
  <2> QED
    BY <1>3, <1>5, <1>7, <2>2, <2>3 DEF LimitInv
<1>8. CASE pc' \in {"final", "select"}
           /\ (obsolete \/ assignment.status = "done" \/ ~(assignment.attempt >= MaxAttempts))
  <2>1. Failures(own)' < MaxAttempts
    BY <1>2, <1>3, <1>4, <1>8
  <2>2. \A work : Failures(work)' < MaxAttempts
    BY <1>6, <2>1
  <2>3. NumberInv' /\ ExhaustedInv' /\ LookupInv'
    BY <1>8 DEF NumberInv, ExhaustedInv, LookupInv, Unsettled
  <2> QED
    BY <1>1, <1>3, <1>5, <1>8, <2>2, <2>3 DEF LimitInv
<1> QED
  BY <1>7, <1>8 DEF Record, AwaitIdle, LoopTop

\* The catch block counts an assignment that was not settled.
LEMMA CatchCounts ==
    ASSUME LimitInv, Catch
    PROVE  LimitInv'
<1>1. pc = "failing" /\ pc' = "finishing"
  BY DEF Catch
<1>2. NumberInv' /\ ExhaustedInv' /\ LookupInv' /\ ~Trying'
  BY <1>1 DEF NumberInv, ExhaustedInv, LookupInv, Trying, Unsettled
<1>3. CASE ~active
  BY <1>1, <1>2, <1>3, LimitStays DEF Catch
<1>4. CASE active
  <2> DEFINE a == [work |-> assignment.ref.fingerprint, status |-> "failed",
                   obsolete |-> FALSE, flagged |-> assignment.obsolete]
  <2>1. attempts' = Append(attempts, a)
    BY <1>4 DEF Catch
  <2> HIDE DEF a
  <2>2. /\ LogInv'
        /\ \A work : Failures(work) \in Nat /\ Failures(work)' \in Nat
        /\ \A work : Failures(work)' <= Failures(work) + 1
    BY <2>1, AttemptAdded DEF LimitInv
  <2>3. /\ \A work : Failures(work) < MaxAttempts
        /\ MaxAttempts \in Nat
    BY <1>1, <1>4, CoordinatorAssumption DEF LimitInv, Trying
  <2>4. \A work : Failures(work)' <= MaxAttempts
    BY <2>2, <2>3
  <2> QED
    BY <1>1, <1>2, <2>2, <2>4 DEF LimitInv
<1> QED
  BY <1>3, <1>4

\* The exhausted task is gone and its attempt withdrawn, or has an attempt left after
\* all, or ends the run.
LEMMA ExhaustedCounts ==
    ASSUME LimitInv, AssignmentInv, Exhausted
    PROVE  LimitInv'
<1> SUFFICES ASSUME NEW own, own = assignment.ref.fingerprint PROVE LimitInv'
  OBVIOUS
<1> DEFINE task  == call[Scheduler].task
           shown == call[Scheduler].snapshot
           count == Cardinality(AttemptsFor(shown, task))
<1>1. /\ pc = "exhausting" /\ call[Scheduler].phase = "returned"
      /\ ~active /\ ~active'
  BY DEF Exhausted, Returned, AssignmentInv
<1>2. /\ JustFailed(attempts, own)
      /\ \A work : work # own => Failures(work) < MaxAttempts
      /\ LogInv /\ MaxAttempts \in Nat
      /\ \A work : Failures(work) <= MaxAttempts
  BY <1>1, CoordinatorAssumption DEF LimitInv, ExhaustedInv
<1>3. CASE /\ attempts' = [attempts EXCEPT ![Len(attempts)] = [@ EXCEPT !.obsolete = TRUE]]
           /\ pc' = "replaced"
  <2>1. /\ LogInv'
        /\ \A work : Failures(work) \in Nat /\ Failures(work)' \in Nat
        /\ \A work : Failures(work)' <= Failures(work)
        /\ Failures(own)' < Failures(own)
    BY <1>2, <1>3, AttemptWithdrawn
  <2>2. \A work : Failures(work)' < MaxAttempts
    BY <1>2, <2>1
  <2>3. \A work : Failures(work)' <= MaxAttempts
    BY <1>2, <2>1, <2>2
  <2>4. NumberInv' /\ ExhaustedInv' /\ LookupInv'
    BY <1>3 DEF NumberInv, ExhaustedInv, LookupInv, Unsettled
  <2> QED
    BY <1>1, <2>1, <2>2, <2>3, <2>4 DEF LimitInv
<1>4. CASE task # 0 /\ count < MaxAttempts /\ pc' \in {"final", "select"}
           /\ attempts' = attempts
  <2>1. DistinctTexts(shown) /\ task \in DOMAIN shown /\ Fingerprint(shown[task]) = own
    BY <1>1, <1>4 DEF LimitInv, LookupInv
  <2>2. count \in Nat /\ Failures(own) \in Nat /\ Failures(own) <= count
    BY <1>2, <2>1, FailuresAreAttempts
  <2>3. Failures(own) < MaxAttempts
    BY <1>2, <1>4, <2>2
  <2>4. \A work : Failures(work)' = Failures(work)
    BY <1>4 DEF Failures
  <2>5. \A work : Failures(work)' < MaxAttempts
    BY <1>2, <2>3, <2>4
  <2>6. NumberInv' /\ ExhaustedInv' /\ LookupInv'
    BY <1>4 DEF NumberInv, ExhaustedInv, LookupInv, Unsettled
  <2> QED
    BY <1>1, <1>2, <1>4, <2>4, <2>5, <2>6 DEF LimitInv, LogInv
<1>5. CASE pc' = "final" /\ attempts' = attempts
  <2>1. NumberInv' /\ ExhaustedInv' /\ LookupInv' /\ ~Trying'
    BY <1>1, <1>5 DEF NumberInv, ExhaustedInv, LookupInv, Trying, Unsettled
  <2> QED
    BY <1>1, <1>5, <2>1, LimitStays
<1> QED
  BY <1>3, <1>4, <1>5 DEF Exhausted, LoopTop, AwaitIdle

LEMMA ScheduleCounts ==
    ASSUME IInv, LimitInv, DistinctTexts(plan), Schedule
    PROVE  LimitInv'
<1> USE DEF queueVars, storeVars, runVars
<1>1. CASE Start
  <2>1. /\ pc = "planned" /\ pc' \in {"final", "select"}
        /\ attempts' = attempts /\ active' = active
    BY <1>1 DEF Start, LoopTop, AwaitIdle
  <2>2. NumberInv' /\ ExhaustedInv' /\ LookupInv' /\ Trying /\ ~active
    BY <2>1 DEF NumberInv, ExhaustedInv, LookupInv, Trying, Unsettled, LimitInv
  <2> QED
    BY <2>1, <2>2, LimitStays
<1>2. CASE Select
  <2>1. pc = "select" /\ attempts' = attempts /\ Trying /\ ~active
    BY <1>2 DEF Select, Resumes, Trying, LimitInv
  <2>2. CASE pc' = "final" /\ UNCHANGED <<active, assignment>>
    <3>1. NumberInv' /\ ExhaustedInv' /\ LookupInv'
      BY <2>2 DEF NumberInv, ExhaustedInv, LookupInv, Unsettled
    <3> QED
      BY <2>1, <2>2, <3>1, LimitStays
  <2>3. ASSUME NEW next \in DOMAIN plan, pc' = "working", NEW number,
               number = Cardinality(AttemptsFor(plan, next)) + 1,
               assignment' = [ref |-> Reference(plan, next), obsolete |-> FALSE,
                              attempt |-> number, status |-> "none", stale |-> FALSE]
        PROVE  LimitInv'
    <3>1. /\ number \in Nat
          /\ Failures(Fingerprint(plan[next])) \in Nat
          /\ Failures(Fingerprint(plan[next])) < number
      BY <2>3, FailuresAreAttempts DEF LimitInv
    <3>2. /\ assignment'.attempt = number
          /\ assignment'.ref.fingerprint = Fingerprint(plan[next])
      BY <2>3 DEF Reference
    <3>3. \A work : Failures(work)' = Failures(work)
      BY <2>1 DEF Failures
    <3>4. NumberInv'
      BY <3>1, <3>2, <3>3 DEF NumberInv
    <3>5. ExhaustedInv' /\ LookupInv'
      BY <2>3 DEF ExhaustedInv, LookupInv
    <3> QED
      BY <2>1, <2>3, <3>4, <3>5, LimitStays
  <2> DEFINE undone == {i \in DOMAIN plan : ~plan[i].done}
             first == CHOOSE i \in undone : \A j \in undone : i <= j
  <2>4. undone # {} => first \in DOMAIN plan
    <3> SUFFICES ASSUME undone # {} PROVE \E i \in undone : \A j \in undone : i <= j
      OBVIOUS
    <3>1. undone \subseteq Nat
      BY ValidListed DEF IInv, DocumentInv, Listed
    <3> HIDE DEF undone
    <3> QED
      BY <3>1, LeastElement
  <2> HIDE DEF first
  <2>5. CASE undone = {}
    BY <1>2, <2>2, <2>5 DEF Select
  <2>6. CASE undone # {}
    <3>1. /\ pc' = "working"
          /\ assignment' = [ref |-> Reference(plan, first), obsolete |-> FALSE,
                            attempt |-> Cardinality(AttemptsFor(plan, first)) + 1,
                            status |-> "none", stale |-> FALSE]
      BY <1>2, <2>6 DEF Select, first
    <3> QED
      BY <2>3, <2>4, <2>6, <3>1
  <2> QED
    BY <2>5, <2>6
<1>3. ASSUME NEW status \in Outcomes, WorkerReports(status) PROVE LimitInv'
  <2>1. /\ pc = "working" /\ pc' = "releasing" /\ attempts' = attempts
        /\ assignment' = [assignment EXCEPT !.status = status]
    BY <1>3 DEF WorkerReports
  <2>2. DOMAIN assignment = {"ref", "obsolete", "attempt", "status", "stale"}
    BY <2>1 DEF IInv, AssignmentInv
  <2> QED
    BY <2>1, <2>2, UnsettledStays DEF Unsettled
<1>4. CASE WorkerReturns
  BY <1>4, UnsettledStays DEF WorkerReturns, AwaitIdle, Unsettled
<1>5. CASE WorkerThrows
  <2>1. /\ pc = "working" /\ pc' \in {"failing", "resolve"} /\ attempts' = attempts
        /\ \/ assignment' = assignment
           \/ assignment' = [assignment EXCEPT !.status = "failed"]
    BY <1>5 DEF WorkerThrows, AwaitIdle
  <2>2. DOMAIN assignment = {"ref", "obsolete", "attempt", "status", "stale"}
    BY <2>1 DEF IInv, AssignmentInv
  <2> QED
    BY <2>1, <2>2, UnsettledStays DEF Unsettled
<1>6. CASE Resolving
  BY <1>6, UnsettledStays DEF Resolving, Resumes, Unsettled
<1>7. CASE Resolved
  <2>1. /\ pc = "resolving" /\ pc' = "recording" /\ attempts' = attempts
        /\ \E stale : assignment' = [assignment EXCEPT !.stale = stale]
    BY <1>7 DEF Resolved
  <2>2. DOMAIN assignment = {"ref", "obsolete", "attempt", "status", "stale"}
    BY <2>1 DEF IInv, AssignmentInv
  <2> QED
    BY <2>1, <2>2, UnsettledStays DEF Unsettled
<1>8. CASE Evidence \/ Settlement \/ Dispose
  <2>1. /\ pc \in Unsettled
        /\ \/ Record(TRUE) \/ Record(FALSE)
           \/ /\ pc' \in {"settling", "disposing", "failing"}
              /\ UNCHANGED <<attempts, assignment>>
    BY <1>8 DEF Evidence, RequestSettlement, Settlement, Dispose, Unsettled
  <2> QED
    BY <2>1, RecordCounts, UnsettledStays DEF Unsettled
<1>9. CASE EvidenceFails
  BY <1>9, UnsettledStays DEF EvidenceFails, Unsettled
<1>10. CASE Exhausting
  <2>1. /\ pc = "exhausted" /\ pc' = "exhausting"
        /\ UNCHANGED <<attempts, assignment, active>>
        /\ Enter(Scheduler, [phase |-> "waiting", kind |-> "resolve",
                             ref |-> assignment.ref, next |-> plan])
    BY <1>10 DEF Exhausting, Resumes, RequestResolve
  <2>2. /\ call'[Scheduler].phase = "waiting" /\ call'[Scheduler].kind = "resolve"
        /\ call'[Scheduler].ref = assignment.ref
    BY <2>1, TwoClients DEF IInv, LockInv, Enter
  <2>3. LookupInv'
    BY <2>1, <2>2 DEF LookupInv
  <2>4. \A work : Failures(work)' = Failures(work)
    BY <2>1 DEF Failures
  <2>5. ExhaustedInv' /\ NumberInv' /\ ~Trying'
    BY <2>1, <2>4 DEF IInv, AssignmentInv, LimitInv, ExhaustedInv, JustFailed, Failed,
                      NumberInv, Trying, Unsettled
  <2> QED
    BY <2>1, <2>3, <2>5, LimitStays
<1>11. CASE Exhausted
  BY <1>11, ExhaustedCounts DEF IInv
<1>12. CASE Replaced
  <2>1. /\ pc = "replaced" /\ pc' \in {"select", "final", "failing"}
        /\ UNCHANGED <<active, assignment, attempts>>
    BY <1>12 DEF Replaced, LoopTop, AwaitIdle
  <2>2. NumberInv' /\ ExhaustedInv' /\ LookupInv' /\ Trying /\ ~active
    BY <2>1 DEF NumberInv, ExhaustedInv, LookupInv, Trying, Unsettled, LimitInv
  <2> QED
    BY <2>1, <2>2, LimitStays
<1>13. CASE FinalRead \/ Finish
  <2>1. /\ pc \in {"final", "finishing"} /\ pc' \in {"failing", "finishing", "ended"}
        /\ pc' = "failing" => pc = "final"
        /\ UNCHANGED <<active, assignment, attempts>>
    BY <1>13 DEF FinalRead, Finish
  <2>2. NumberInv' /\ ExhaustedInv' /\ LookupInv' /\ ~Trying'
    BY <2>1 DEF NumberInv, ExhaustedInv, LookupInv, Trying, Unsettled, LimitInv
  <2> QED
    BY <2>1, <2>2, LimitStays
<1>14. CASE Catch
  BY <1>14, CatchCounts
<1> QED
  BY <1>1, <1>2, <1>3, <1>4, <1>5, <1>6, <1>7, <1>8, <1>9, <1>10, <1>11, <1>12, <1>13,
     <1>14 DEF Schedule

\* What is not the scheduler's touches neither its log nor its lookup.
LEMMA OthersCount ==
    ASSUME LimitInv, UNCHANGED <<attempts, pc, active>>,
           call'[Scheduler] = call[Scheduler],
           pc \in Unsettled \union {"exhausted", "exhausting"} =>
               assignment'.attempt = assignment.attempt /\ assignment'.ref = assignment.ref
    PROVE  LimitInv'
<1>1. \A work : Failures(work)' = Failures(work)
  BY DEF Failures
<1>2. NumberInv'
  BY <1>1 DEF LimitInv, NumberInv
<1>3. ExhaustedInv'
  BY <1>1 DEF LimitInv, ExhaustedInv, JustFailed, Failed
<1>4. LookupInv'
  BY DEF LimitInv, LookupInv
<1>5. Trying' = Trying
  BY DEF Trying
<1> QED
  BY <1>2, <1>3, <1>4, <1>5, LimitStays DEF LimitInv

LEMMA SteerCounts ==
    ASSUME IInv, LimitInv, Steer
    PROVE  LimitInv'
<1> USE DEF queueVars, storeVars, runVars
<1>1. DOMAIN call = Clients /\ Scheduler \in Clients /\ Scheduler # Steering
  BY TwoClients DEF IInv, LockInv
<1>2. call'[Scheduler] = call[Scheduler]
  <2>1. \E x : call' = [call EXCEPT ![Steering] = x]
    BY DEF Steer, PlannerAnswers, RequestApply, Enter, RevisionFails, RevisionInstalled,
           Invalidated, RevisionRejected, NextMessage
  <2> QED
    BY <1>1, <2>1
<1>3. UNCHANGED <<attempts, pc, active>>
  BY DEF Steer, PlannerAnswers, RevisionInstalled, Invalidated, RevisionRejected
<1>4. CASE assignment' = assignment
  BY <1>2, <1>3, <1>4, OthersCount
<1>5. CASE active /\ assignment' = [assignment EXCEPT !.obsolete = TRUE]
  <2>1. DOMAIN assignment = {"ref", "obsolete", "attempt", "status", "stale"}
    BY <1>5 DEF IInv, AssignmentInv
  <2> QED
    BY <1>2, <1>3, <1>5, <2>1, OthersCount
<1> QED
  BY <1>4, <1>5 DEF Steer, PlannerAnswers, RevisionInstalled, Invalidated,
                    RevisionRejected

LEMMA StoreCounts ==
    ASSUME IInv, LimitInv, DistinctTexts(plan), NEW c \in Clients, StoreStep(c),
           UNCHANGED <<attempts, pc, active, assignment>>
    PROVE  LimitInv'
<1>1. DOMAIN call = Clients /\ Scheduler \in Clients /\ Scheduler # Steering
  BY TwoClients DEF IInv, LockInv
<1>2. \E x : call' = [call EXCEPT ![c] = x]
  BY DEF StoreStep, Complete, ResolveTask, Apply, BeforeCommit, Rename, WriteFails,
         Install, Settle, SettleIn, Advance
<1>3. CASE c # Scheduler
  <2>1. call'[Scheduler] = call[Scheduler]
    BY <1>1, <1>2, <1>3
  <2> QED
    BY <2>1, OthersCount
<1>4. CASE c = Scheduler
  <2>1. \A work : Failures(work)' = Failures(work)
    BY DEF Failures
  <2>2. NumberInv'
    BY <2>1 DEF LimitInv, NumberInv
  <2>3. ExhaustedInv'
    BY <2>1 DEF LimitInv, ExhaustedInv, JustFailed, Failed
  <2>4. Trying' = Trying
    BY DEF Trying
  <2>5. LookupInv'
    <3> SUFFICES ASSUME pc = "exhausting" PROVE LookupInv'
      BY DEF LookupInv
    <3>1. /\ call[Scheduler].phase \in {"waiting", "returned"}
          /\ call[Scheduler].phase = "waiting" =>
                call[Scheduler].kind = "resolve" /\ call[Scheduler].ref = assignment.ref
      BY DEF LimitInv, LookupInv
    <3>2. call[Scheduler].phase = "waiting" /\ ResolveTask(Scheduler)
      BY <1>4, <3>1 DEF StoreStep, Complete, ResolveTask, Apply, BeforeCommit, Rename,
                        WriteFails, Install, At
    <3> DEFINE task == Resolve(plan, assignment.ref)
               x == Result(Scheduler, IF task = 0 THEN "stale" ELSE "unchanged", task, plan)
    <3>3. call' = [call EXCEPT ![Scheduler] = x]
      BY <3>1, <3>2 DEF ResolveTask, Settle, SettleIn
    <3>4. x.phase = "returned" /\ x.task = task /\ x.snapshot = plan
      BY DEF Result
    <3> HIDE DEF x
    <3>5. call'[Scheduler] = x
      BY <1>1, <3>3
    <3>6. task # 0 => /\ task \in DOMAIN plan
                      /\ Fingerprint(plan[task]) = assignment.ref.fingerprint
      BY ResolveFacts DEF IInv, AssignmentInv
    <3> HIDE DEF task
    <3>7. /\ call'[Scheduler].phase = "returned" /\ call'[Scheduler].task = task
          /\ call'[Scheduler].snapshot = plan /\ assignment' = assignment
      BY <3>4, <3>5
    <3> QED
      BY <3>6, <3>7 DEF LookupInv
  <2> QED
    BY <2>2, <2>3, <2>4, <2>5, LimitStays DEF LimitInv
<1> QED
  BY <1>3, <1>4

LEMMA NextCounts ==
    ASSUME IInv, LimitInv, DistinctTexts(plan), [Next]_vars
    PROVE  LimitInv'
<1> USE DEF queueVars, storeVars, runVars
<1>1. CASE Schedule
  BY <1>1, ScheduleCounts
<1>2. CASE Steer
  BY <1>2, SteerCounts
<1>3. CASE Store
  BY <1>3, StoreCounts DEF Store
<1>4. CASE TypeGuidance \/ Abort \/ CloseQueue \/ UNCHANGED vars
  <2>1. UNCHANGED <<attempts, pc, active, assignment>>
    BY <1>4 DEF TypeGuidance, Abort, CloseQueue, vars
  <2>2. call' = call \/ \E x : call' = [call EXCEPT ![Steering] = x]
    BY <1>4 DEF TypeGuidance, Abort, CloseQueue, vars, HandOver, BeginRevision
  <2>3. call'[Scheduler] = call[Scheduler]
    BY <2>2, TwoClients DEF IInv, LockInv
  <2> QED
    BY <2>1, <2>3, OthersCount
<1> QED
  BY <1>1, <1>2, <1>3, <1>4 DEF Next

LEMMA InitCounts ==
    ASSUME Init
    PROVE  LimitInv
<1>1. attempts = <<>> /\ pc = "planned" /\ active = FALSE
  BY DEF Init
<1>2. LogInv
  BY <1>1 DEF LogInv
<1>3. \A work : Failures(work) = 0
  <2>1. \A work : Failures(work) = Cardinality({})
    BY <1>1 DEF Failures
  <2> QED
    BY <2>1, FS_EmptySet
<1>4. NumberInv /\ ExhaustedInv /\ LookupInv
  BY <1>1 DEF NumberInv, ExhaustedInv, LookupInv, Unsettled
<1> QED
  BY <1>1, <1>2, <1>3, <1>4, CoordinatorAssumption DEF LimitInv

\* No task fails more often than the limit says, whatever revisions do to it and its
\* attempts, as long as no plan of the run has one text twice: attemptsForTask counts
\* no attempt for a text that two tasks share, and both would be retried for ever.
THEOREM RetriesAreBounded == Spec /\ []DistinctTexts(plan) => []AttemptLimit
<1>1. Init => LimitInv
  BY InitCounts
<1>2. IInv /\ LimitInv /\ DistinctTexts(plan) /\ [Next]_vars => LimitInv'
  BY NextCounts
<1>3. LimitInv /\ DistinctTexts(plan) => AttemptLimit
  <2> SUFFICES ASSUME LimitInv, DistinctTexts(plan), NEW i \in DOMAIN plan
               PROVE  Failures(Fingerprint(plan[i])) <= MaxAttempts *
                        Cardinality({j \in DOMAIN plan :
                                        Fingerprint(plan[j]) = Fingerprint(plan[i])})
    BY DEF AttemptLimit
  <2>1. {j \in DOMAIN plan : Fingerprint(plan[j]) = Fingerprint(plan[i])} = {i}
    BY DEF DistinctTexts
  <2>2. Cardinality({i}) = 1
    BY FS_Singleton
  <2>3. Failures(Fingerprint(plan[i])) <= MaxAttempts /\ MaxAttempts \in Nat
    BY CoordinatorAssumption DEF LimitInv
  <2>4. MaxAttempts * 1 = MaxAttempts
    BY <2>3
  <2> QED
    BY <2>1, <2>2, <2>3, <2>4
<1> QED
  BY <1>1, <1>2, <1>3, Inductive, PTL DEF Spec

-----------------------------------------------------------------------------
(* The run as a client of the store.                                        *)
\* A message that is taken begins a revision; the processor was idle until then.
LEMMA HandOverStores ==
    ASSUME StoreInv, SteeringCallInv, HandOver
    PROVE  StoreInv' /\ disk' = disk
<1>1. CASE UNCHANGED storeVars
  BY <1>1, StoreAsItWas DEF storeVars
<1>2. CASE processing' /\ ~processing /\ BeginRevision(Steering, ActiveReference)
  <2>1. Steering \in Clients /\ call[Steering].phase \notin Held
    BY <1>2, TwoClients DEF SteeringCallInv, Idle, Held
  <2> QED
    BY <1>2, <2>1, RevisionBegins DEF BeginRevision
<1> QED
  BY <1>1, <1>2 DEF HandOver

\* A promise that was settled is taken, and the processor begins the next revision or
\* leaves.
LEMMA NextMessageStores ==
    ASSUME StoreInv, call[Steering].phase \notin Held, NextMessage,
           UNCHANGED <<plan, disk, writeTail>>
    PROVE  StoreInv' /\ disk' = disk
<1>1. Steering \in Clients /\ DOMAIN call = Clients
  BY TwoClients DEF StoreInv, LockInv
<1>2. CASE processing'
  <2>1. /\ revisions' = revisions + 1
        /\ call' = [call EXCEPT ![Steering] = Planning(ActiveReference)]
    BY <1>2 DEF NextMessage
  <2> QED
    BY <1>1, <2>1, RevisionBegins
<1>3. CASE ~processing'
  <2>1. /\ DOMAIN call' = DOMAIN call /\ call'[Steering].phase = "idle"
        /\ \A d \in Clients \ {Steering} : call'[d] = call[d]
        /\ UNCHANGED revisions
    BY <1>1, <1>3 DEF NextMessage, Idle
  <2> QED
    BY <1>1, <2>1, PlainCall
<1> QED
  BY <1>2, <1>3

\* The scheduler takes the result of its call.
LEMMA ResultTaken ==
    ASSUME StoreInv, Returned(Scheduler), call' = [call EXCEPT ![Scheduler] = Idle],
           UNCHANGED <<plan, disk, writeTail, revisions>>
    PROVE  StoreInv' /\ disk' = disk
<1>1. Scheduler \in Clients /\ DOMAIN call = Clients
  BY TwoClients DEF StoreInv, LockInv
<1>2. /\ DOMAIN call' = DOMAIN call /\ call'[Scheduler].phase = "idle"
      /\ \A d \in Clients \ {Scheduler} : call'[d] = call[d]
      /\ call[Scheduler].phase \notin Held
  BY <1>1 DEF Returned, Idle, Held
<1> QED
  BY <1>1, <1>2, PlainCall

LEMMA ScheduleStores ==
    ASSUME StoreInv, IInv, Schedule
    PROVE  StoreInv' /\ disk' = disk
<1>1. CASE Start
  BY <1>1, HandOverStores DEF Start, IInv
<1>2. CASE \/ Select \/ (\E status \in Outcomes : WorkerReports(status))
           \/ WorkerReturns \/ WorkerThrows \/ EvidenceFails \/ Dispose
           \/ Replaced \/ FinalRead \/ Catch \/ Finish
  <2>1. UNCHANGED storeVars
    BY <1>2 DEF Select, WorkerReports, WorkerReturns, WorkerThrows, EvidenceFails,
                Dispose, Replaced, FinalRead, Catch, Finish
  <2> QED
    BY <2>1, StoreAsItWas DEF storeVars
<1>3. CASE Resolving \/ Exhausting
  <2>1. RequestResolve(Scheduler, assignment.ref)
    BY <1>3 DEF Resolving, Exhausting
  <2> QED
    BY <2>1, TwoClients, TaskCallQueues DEF RequestResolve
<1>4. CASE Evidence
  <2>1. pc = "recording" /\ UNCHANGED <<plan, disk, revisions>> /\ RequestSettlement
    BY <1>4 DEF Evidence, RequestSettlement
  <2>2. CASE UNCHANGED <<call, writeTail>>
    BY <2>1, <2>2, StoreAsItWas DEF storeVars
  <2>3. ASSUME NEW kind \in {"complete", "resolve"},
               Enter(Scheduler, [phase |-> "waiting", ref |-> assignment.ref, next |-> plan,
                                 kind |-> kind])
        PROVE  StoreInv' /\ disk' = disk
    <3>1. call[Scheduler] = Idle
      BY <2>1 DEF IInv, SchedulerCallInv
    <3>2. [phase |-> "waiting", ref |-> assignment.ref, next |-> plan, kind |-> kind]
             = [phase |-> "waiting", kind |-> kind, ref |-> assignment.ref, next |-> plan]
      OBVIOUS
    <3>3. Enter(Scheduler, [phase |-> "waiting", kind |-> kind, ref |-> assignment.ref,
                            next |-> plan])
      BY <2>3, <3>2
    <3> QED
      BY <2>1, <3>1, <3>3, TwoClients, TaskCallQueues
  <2> QED
    BY <2>1, <2>2, <2>3 DEF RequestSettlement
<1>5. CASE Resolved \/ Settlement \/ Exhausted
  BY <1>5, ResultTaken DEF Resolved, Settlement, Exhausted
<1> QED
  BY <1>1, <1>2, <1>3, <1>4, <1>5 DEF Schedule

LEMMA SteerStores ==
    ASSUME Authored, StoreInv, Steer
    PROVE  StoreInv' /\ disk' = disk
<1>1. Steering \in Clients /\ DOMAIN call = Clients
  BY TwoClients DEF StoreInv, LockInv
<1>2. ASSUME NEW answer \in Proposals(call[Steering].base),
             RequestApply(Steering, answer, ActiveReference)
      PROVE  StoreInv' /\ disk' = disk
  <2>1. Valid(call[Steering].base)
    BY <1>1, <1>2 DEF StoreInv, CallSound, RequestApply
  <2> QED
    BY <1>1, <1>2, <2>1, RevisionQueues DEF Authored, RequestApply
<1>3. CASE RevisionFails(Steering)
  <2>1. /\ call[Steering].phase \notin Held /\ DOMAIN call' = DOMAIN call
        /\ \A d \in Clients \ {Steering} : call'[d] = call[d]
        /\ call'[Steering].phase = "returned"
        /\ UNCHANGED <<plan, disk, writeTail, revisions>>
    BY <1>1, <1>3 DEF RevisionFails, Held, Result
  <2> QED
    BY <1>1, <2>1, PlainCall
<1>4. CASE \/ Invalidated \/ RevisionRejected
           \/ RevisionInstalled /\ NextMessage
  <2>1. /\ call[Steering].phase \notin Held /\ NextMessage
        /\ UNCHANGED <<plan, disk, writeTail>>
    BY <1>4 DEF Invalidated, RevisionRejected, RevisionInstalled, Returned, Held
  <2> QED
    BY <2>1, NextMessageStores
<1>5. CASE /\ RevisionInstalled
           /\ call' = [call EXCEPT ![Steering] = [phase |-> "invalidating"]]
           /\ UNCHANGED revisions
  <2>1. /\ \A d \in Clients \ {Steering} : call'[d] = call[d]
        /\ call'[Steering].phase = "invalidating" /\ DOMAIN call' = Clients
        /\ call[Steering].phase \notin Held
        /\ UNCHANGED <<plan, disk, writeTail, revisions>>
    BY <1>1, <1>5 DEF RevisionInstalled, Returned, Held
  <2>2. LockInv'
    BY <2>1 DEF StoreInv, LockInv, Holds, Held
  <2>3. CallSound(call'[Steering], ToCome)
    BY <2>1 DEF CallSound, Held
  <2> QED
    BY <1>1, <2>1, <2>2, <2>3, OneCall DEF Revising, Held
<1> QED
  BY <1>2, <1>3, <1>4, <1>5 DEF Steer, PlannerAnswers, RevisionInstalled

\* The scheduler and the processor use the store as its clients may: whatever workers
\* report, whenever guidance arrives and whatever the planner makes of it, TODO.md only
\* ever changes as PlanRegister says.
THEOREM RunFollowsRegister ==
    ASSUME Authored
    PROVE  Spec => ImplementsRegister
<1>1. Authored
  OBVIOUS
<1>2. Init => StoreInv /\ Register!Init
  <2> SUFFICES ASSUME Init PROVE StoreInv /\ Register!Init
    OBVIOUS
  <2>1. /\ plan \in InitialPlans /\ disk = plan /\ writeTail = <<>>
        /\ call = [c \in Clients |-> Idle] /\ revisions = 0
    BY DEF Init
  <2> QED
    BY <1>1, <2>1, StoreStarts
<1>3. StoreInv /\ IInv /\ [Next]_vars => StoreInv' /\ [Register!Next]_disk
  <2> SUFFICES ASSUME StoreInv, IInv, [Next]_vars
               PROVE  StoreInv' /\ (disk' = disk \/ Follows(disk, disk'))
    BY DEF Register!Next, Follows
  <2>1. CASE Schedule
    BY <2>1, ScheduleStores
  <2>2. CASE Steer
    BY <1>1, <2>2, SteerStores
  <2>3. CASE Store
    BY <2>3, StoreMoves DEF Store
  <2>4. CASE TypeGuidance
    BY <2>4, HandOverStores DEF TypeGuidance, IInv
  <2>5. CASE Abort \/ CloseQueue \/ UNCHANGED vars
    <3>1. UNCHANGED storeVars
      BY <2>5 DEF Abort, CloseQueue, vars
    <3> QED
      BY <3>1, StoreAsItWas DEF storeVars
  <2> QED
    BY <2>1, <2>2, <2>3, <2>4, <2>5 DEF Next
<1> QED
  BY <1>2, <1>3, Inductive, PTL DEF Spec, ImplementsRegister, Register!Spec
=============================================================================
