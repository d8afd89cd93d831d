------------------------------ MODULE PlanProofs ------------------------------
(***************************************************************************)
(* Revisions and the store of them, for all plans, proposals, clients and   *)
(* interleavings.  First the facts about PlanReconcile: the matching is one *)
(* to one, identities are unique, and what a reconciled task says comes     *)
(* from the task it continues.  Then PlanRevision: complete tasks have      *)
(* earned it, completed work is kept, the running task is kept or reported  *)
(* stale, and what is applied is what was generated.  Last                  *)
(* PlanStoreClients: the document on disk follows PlanRegister.             *)
(***************************************************************************)
EXTENDS PlanRevision, PlanStoreClients, FiniteSetTheorems, SequenceTheorems,
        WellFoundedInduction, TLAPS

\* A plan is a list, whatever its tasks hold.
Listed(tasks) == Len(tasks) \in Nat /\ DOMAIN tasks = 1..Len(tasks)

-----------------------------------------------------------------------------
(* Numbers.                                                                 *)
LEMMA LeastElement ==
    ASSUME NEW S, S \subseteq Nat, S # {}
    PROVE  \E i \in S : \A j \in S : i <= j
<1> DEFINE Less == OpToRel(<, Nat)
<1>1. IsWellFoundedOn(Less, Nat)
  BY NatLessThanWellFounded
<1>2. \A j \in Nat, i \in Nat : j < i => <<j, i>> \in Less
  BY Zenon DEF OpToRel
<1> HIDE DEF Less
<1>3. PICK i \in S : \A j \in S : ~ (<<j, i>> \in Less)
  BY <1>1, WFMin
<1>4. \A j \in S : ~ (j < i)
  BY <1>2, <1>3
<1> QED
  BY <1>3, <1>4

LEMMA GreatestElement ==
    ASSUME NEW n \in Nat, NEW S, S \subseteq 1..n, S # {}
    PROVE  \E i \in S : \A j \in S : j <= i
<1> DEFINE Gaps == {g \in Nat : n - g \in S}
<1>1. Gaps \subseteq Nat /\ Gaps # {}
  <2>1. PICK i \in S : TRUE
    OBVIOUS
  <2>2. n - i \in Nat /\ n - (n - i) = i
    BY <2>1
  <2> QED
    BY <2>2
<1>2. PICK g \in Gaps : \A h \in Gaps : g <= h
  BY <1>1, LeastElement
<1>3. PICK i \in S : g = n - i
  <2>1. g \in Nat /\ n - g \in S
    BY <1>2
  <2>2. g = n - (n - g)
    BY <2>1
  <2> QED
    BY <2>1, <2>2
<1>4. ASSUME NEW j \in S
      PROVE  j <= i
  <2>1. n - i <= n - j
    <3>1. j \in 1..n /\ n - j \in Nat /\ n - (n - j) = j
      OBVIOUS
    <3>2. n - j \in Gaps
      BY <3>1
    <3> QED
      BY <1>2, <1>3, <3>2
  <2> QED
    BY <2>1
<1> QED
  BY <1>4

-----------------------------------------------------------------------------
(* Matching.                                                                *)
\* Later tasks with the same text have a later occurrence.
LEMMA OccurrenceGrows ==
    ASSUME NEW tasks, Listed(tasks), NEW i \in Unmarked(tasks), NEW j \in Unmarked(tasks),
           Fingerprint(tasks[i]) = Fingerprint(tasks[j]), i < j
    PROVE  Occurrence(tasks, i) < Occurrence(tasks, j)
<1> DEFINE upTo(k) == {l \in Alike(tasks, i) : l <= k}
<1>1. i \in 1..Len(tasks) /\ j \in 1..Len(tasks)
  BY DEF Listed, Unmarked
<1>2. Occurrence(tasks, i) = Cardinality(upTo(i)) /\ Occurrence(tasks, j) = Cardinality(upTo(j))
  BY DEF Occurrence, Alike
<1>3. Alike(tasks, i) \subseteq 1..Len(tasks)
  <2>1. Alike(tasks, i) \subseteq Unmarked(tasks) /\ Unmarked(tasks) \subseteq 1..Len(tasks)
    BY DEF Alike, Unmarked, Listed
  <2> QED
    BY <2>1
<1>4. IsFiniteSet(upTo(j))
  <2>1. IsFiniteSet(1..Len(tasks))
    BY FS_Interval DEF Listed
  <2> QED
    BY <1>3, <2>1, FS_Subset
<1>5. upTo(i) \subseteq upTo(j)
  BY <1>1, <1>3
<1>6. j \in upTo(j) /\ j \notin upTo(i)
  BY <1>1 DEF Alike
<1> HIDE DEF upTo
<1>7. /\ Cardinality(upTo(i)) <= Cardinality(upTo(j))
      /\ Cardinality(upTo(i)) # Cardinality(upTo(j))
  BY <1>4, <1>5, <1>6, FS_Subset
<1>8. Cardinality(upTo(i)) \in Nat /\ Cardinality(upTo(j)) \in Nat
  BY <1>4, <1>5, FS_Subset, FS_CardinalityType
<1> QED
  BY <1>2, <1>7, <1>8

\* Text and occurrence name one unmarked task.
LEMMA OccurrenceNames ==
    ASSUME NEW tasks, Listed(tasks), NEW i \in Unmarked(tasks), NEW j \in Unmarked(tasks),
           Fingerprint(tasks[i]) = Fingerprint(tasks[j]),
           Occurrence(tasks, i) = Occurrence(tasks, j)
    PROVE  i = j
<1>1. i \in Int /\ j \in Int
  BY DEF Listed, Unmarked
<1>2. Occurrence(tasks, i) \in Nat
  <2>1. /\ {k \in Alike(tasks, i) : k <= i} \subseteq 1..Len(tasks)
        /\ IsFiniteSet(1..Len(tasks))
    BY FS_Interval DEF Alike, Unmarked, Listed
  <2> QED
    BY <2>1, FS_Subset, FS_CardinalityType DEF Occurrence
<1>3. ~(i < j) /\ ~(j < i)
  BY <1>2, OccurrenceGrows
<1> QED
  BY <1>1, <1>3

\* The tasks with some text are counted without a gap.
LEMMA OccurrenceOnto ==
    ASSUME NEW tasks, Listed(tasks), NEW p \in Unmarked(tasks),
           NEW k \in Nat \ {0}, k <= Occurrence(tasks, p)
    PROVE  \E q \in Alike(tasks, p) : q <= p /\ Occurrence(tasks, q) = k
<1> DEFINE Late == {q \in Alike(tasks, p) : q <= p /\ k <= Occurrence(tasks, q)}
<1>1. /\ Alike(tasks, p) \subseteq 1..Len(tasks) /\ Len(tasks) \in Nat
      /\ Alike(tasks, p) \subseteq Unmarked(tasks)
      /\ p \in Alike(tasks, p)
      /\ \A q \in Alike(tasks, p) : Alike(tasks, q) = Alike(tasks, p)
  BY DEF Alike, Unmarked, Listed
<1>2. Late \subseteq Nat /\ Late # {}
  BY <1>1
<1>3. PICK q \in Late : \A r \in Late : q <= r
  BY <1>2, LeastElement
<1>4. q \in Alike(tasks, p) /\ q <= p /\ k <= Occurrence(tasks, q) /\ q \in 1..Len(tasks)
  BY <1>1, <1>3
<1> SUFFICES ASSUME Occurrence(tasks, q) # k
             PROVE  FALSE
  BY <1>4
<1> DEFINE upTo(i) == {l \in Alike(tasks, p) : l <= i}
           before == {l \in Alike(tasks, p) : l < q}
<1>5. \A i \in Alike(tasks, p) : Occurrence(tasks, i) = Cardinality(upTo(i))
  <2> SUFFICES ASSUME NEW i \in Alike(tasks, p)
               PROVE  Occurrence(tasks, i) = Cardinality(upTo(i))
    OBVIOUS
  <2>1. upTo(i) = {j \in Alike(tasks, i) : j <= i}
    BY <1>1
  <2> QED
    BY <2>1 DEF Occurrence
<1>6. IsFiniteSet(Alike(tasks, p))
  <2>1. IsFiniteSet(1..Len(tasks))
    BY <1>1, FS_Interval
  <2> QED
    BY <1>1, <2>1, FS_Subset
<1>7. upTo(q) = before \union {q} /\ q \notin before /\ before \subseteq 1..Len(tasks)
  BY <1>1, <1>4
<1>8. IsFiniteSet(before)
  BY <1>6, FS_Subset
<1>9. Cardinality(upTo(q)) = Cardinality(before) + 1 /\ Cardinality(before) \in Nat
  BY <1>7, <1>8, FS_AddElement, FS_CardinalityType
<1>10. Cardinality(before) >= k
  BY <1>4, <1>5, <1>9
<1>11. before # {}
  BY <1>10, FS_EmptySet
<1>12. PICK l \in before : \A j \in before : j <= l
  BY <1>1, <1>7, <1>11, GreatestElement
<1>13. upTo(l) = before
  BY <1>1, <1>4, <1>12
<1>14. Occurrence(tasks, l) = Cardinality(before)
  BY <1>5, <1>12, <1>13
<1>15. l \in Late /\ l < q
  <2> HIDE DEF upTo
  <2> QED
    BY <1>1, <1>4, <1>10, <1>12, <1>14
<1>16. l \in Nat /\ q \in Nat
  BY <1>1, <1>4, <1>12
<1> QED
  BY <1>3, <1>15, <1>16

\* Each task of the previous plan continues in at most one task of the new one, and each
\* task of the new plan continues at most one: progress is not transferred twice.
LEMMA MatchesOneToOne ==
    ASSUME NEW prev, NEW rev, Listed(prev), Listed(rev), UniqueIds(prev), UniqueIds(rev),
           NEW m \in Matches(prev, rev), NEW n \in Matches(prev, rev)
    PROVE  m[1] = n[1] <=> m[2] = n[2]
<1> DEFINE Stable == StableMatches(prev, rev)
           Exact == ExactMatches(prev, rev)
           Titled == TitleMatches(prev, rev)
<1>1. ASSUME NEW a \in Stable, NEW b \in Stable PROVE a[1] = b[1] <=> a[2] = b[2]
  BY <1>1 DEF StableMatches, UniqueIds
<1>2. ASSUME NEW a \in Exact, NEW b \in Exact PROVE a[1] = b[1] <=> a[2] = b[2]
  <2>1. /\ a[1] \in Unmarked(prev) /\ a[2] \in Unmarked(rev)
        /\ b[1] \in Unmarked(prev) /\ b[2] \in Unmarked(rev)
        /\ Fingerprint(prev[a[1]]) = Fingerprint(rev[a[2]])
        /\ Fingerprint(prev[b[1]]) = Fingerprint(rev[b[2]])
        /\ Occurrence(prev, a[1]) = Occurrence(rev, a[2])
        /\ Occurrence(prev, b[1]) = Occurrence(rev, b[2])
    BY <1>2 DEF ExactMatches
  <2> QED
    BY <2>1, OccurrenceNames
<1>3. ASSUME NEW a \in Titled, NEW b \in Titled PROVE a[1] = b[1] <=> a[2] = b[2]
  BY <1>3 DEF TitleMatches
<1>4. ASSUME NEW a \in Stable, NEW b \in Exact \union Titled
      PROVE  a[1] # b[1] /\ a[2] # b[2]
  BY <1>4 DEF StableMatches, ExactMatches, TitleMatches, Unmarked
<1>5. ASSUME NEW a \in Exact, NEW b \in Titled PROVE a[1] # b[1] /\ a[2] # b[2]
  BY <1>5 DEF TitleMatches
<1> QED
  BY <1>1, <1>2, <1>3, <1>4, <1>5 DEF Matches

-----------------------------------------------------------------------------
(* The reconciled plan.                                                     *)
\* A finite set of numbers can be listed in order: the smallest counterexample has a
\* greatest element, and without it a list to which that can be appended.
LEMMA InOrderFacts ==
    ASSUME NEW S, S \subseteq Nat, IsFiniteSet(S)
    PROVE  InOrder(S) \in [1..Cardinality(S) -> S]
<1> DEFINE HasMax(U) == \E x \in U : \A y \in U : x >= y
           Lists(U) == {s \in [1..Cardinality(U) -> U] :
                            \A i, j \in DOMAIN s : i < j => s[i] < s[j]}
           Good(U) == (U = {} \/ HasMax(U)) /\ Lists(U) # {}
           Bad == {U \in FiniteSubsetsOf(Nat) : ~Good(U)}
<1>1. Bad = {}
  <2> SUFFICES ASSUME Bad # {} PROVE FALSE
    OBVIOUS
  <2>1. IsWellFoundedOn(StrictSubsetOrdering(Nat), FiniteSubsetsOf(Nat))
    BY FS_StrictSubsetOrderingWellFounded
  <2>2. Bad \subseteq FiniteSubsetsOf(Nat)
    OBVIOUS
  <2> HIDE DEF Bad
  <2>3. PICK U \in Bad : \A V \in Bad : ~ (<<V, U>> \in StrictSubsetOrdering(Nat))
    BY <2>1, <2>2, WFMin
  <2> USE DEF Bad
  <2>4. U \subseteq Nat /\ IsFiniteSet(U) /\ ~Good(U)
    BY DEF FiniteSubsetsOf
  <2>5. ASSUME NEW x \in U PROVE Good(U \ {x})
    <3>1. U \ {x} \in FiniteSubsetsOf(Nat)
      BY <2>4, FS_Subset DEF FiniteSubsetsOf
    <3>2. <<U \ {x}, U>> \in StrictSubsetOrdering(Nat)
      BY <2>4, <2>5 DEF StrictSubsetOrdering
    <3> HIDE DEF Good
    <3> QED
      BY <2>3, <3>1, <3>2
  <2>6. U # {}
    <3> SUFFICES ASSUME U = {} PROVE FALSE
      OBVIOUS
    <3>1. Cardinality(U) = 0
      BY FS_EmptySet
    <3>2. [i \in 1..0 |-> 0] \in Lists(U)
      BY <3>1
    <3> QED
      BY <2>4, <3>2
  <2>7. HasMax(U)
    <3>1. PICK x \in U : TRUE
      BY <2>6
    <3>2. U \ {x} = {} \/ HasMax(U \ {x})
      BY <2>5
    <3> QED
      BY <2>4, <3>2
  <2>8. PICK m \in U : \A y \in U : m >= y
    BY <2>7
  <2> DEFINE n == Cardinality(U \ {m})
  <2>9. n \in Nat /\ Cardinality(U) = n + 1
    <3>1. /\ IsFiniteSet(U \ {m})
          /\ Cardinality(U \ {m}) = Cardinality(U) - 1
      BY <2>4, FS_RemoveElement
    <3> QED
      BY <2>4, <3>1, FS_CardinalityType
  <2>10. PICK s \in [1..n -> U \ {m}] : \A i, j \in 1..n : i < j => s[i] < s[j]
    <3>1. PICK s \in Lists(U \ {m}) : TRUE
      BY <2>5
    <3> QED
      BY <3>1
  <2> HIDE DEF n
  <2> DEFINE t == [i \in 1..(n + 1) |-> IF i = n + 1 THEN m ELSE s[i]]
  <2>11. \A y \in U \ {m} : y < m
    BY <2>4, <2>8
  <2>12. t \in Lists(U)
    <3>1. t \in [1..Cardinality(U) -> U]
      BY <2>9, <2>10
    <3>2. \A i, j \in DOMAIN t : i < j => t[i] < t[j]
      BY <2>9, <2>10, <2>11
    <3> QED
      BY <3>1, <3>2
  <2> QED
    BY <2>4, <2>7, <2>12
<1>2. Lists(S) # {}
  BY <1>1 DEF FiniteSubsetsOf
<1> QED
  BY <1>2 DEF InOrder

\* The length of a list.
LEMMA ListLength ==
    ASSUME NEW n \in Nat, NEW f, f = [i \in 1..n |-> f[i]]
    PROVE  Len(f) = n
<1> DEFINE T == {f[i] : i \in 1..n}
<1>1. f \in [1..n -> T]
  OBVIOUS
<1> HIDE DEF T
<1> QED
  BY <1>1

\* A list after a list.
LEMMA ConcatFacts ==
    ASSUME NEW m \in Nat, NEW n \in Nat, NEW f, NEW g,
           f = [i \in 1..m |-> f[i]], g = [i \in 1..n |-> g[i]]
    PROVE  /\ Len(f \o g) = m + n
           /\ DOMAIN (f \o g) = 1..(m + n)
           /\ \A i \in 1..m : (f \o g)[i] = f[i]
           /\ \A i \in 1..n : (f \o g)[m + i] = g[i]
<1> DEFINE T == {f[i] : i \in 1..m} \union {g[i] : i \in 1..n}
<1>1. f \in [1..m -> T] /\ g \in [1..n -> T]
  OBVIOUS
<1> HIDE DEF T
<1>2. f \in Seq(T) /\ g \in Seq(T)
  BY <1>1
<1>3. Len(f) = m /\ Len(g) = n
  BY <1>1, <1>2
<1> QED
  BY <1>2, <1>3

\* A task of the new plan, and the state of the previous task that it continues.
ActiveOf(prev, rev, r, worker, states, invalid, revision) ==
    LET p == PreviousOf(Matches(prev, rev), r)
    IN  IF p = 0 THEN Inserted(rev, r)
        ELSE MatchedItem(prev, rev, p, r, PreviousState(prev, p, worker, states),
                         invalid, revision)

\* A reconciliation that does not throw: the tasks of the new plan in order, then the
\* invalid ones it dropped.
LEMMA ReconcileFacts ==
    ASSUME NEW prev, NEW rev, NEW worker, NEW states, NEW invalid, NEW revision,
           Listed(prev), Listed(rev),
           Reconcile(prev, rev, worker, states, invalid, revision) # NoRevision
    PROVE  LET out == Reconcile(prev, rev, worker, states, invalid, revision)
           IN  /\ UniqueIds(prev) /\ UniqueIds(rev)
               /\ worker \in {0} \union DOMAIN prev
               /\ invalid \subseteq DOMAIN prev
               /\ Listed(out.active)
               /\ DOMAIN rev \subseteq DOMAIN out.active
               /\ invalid = {} => DOMAIN out.active = DOMAIN rev
               /\ \A r \in DOMAIN rev :
                     out.active[r] = ActiveOf(prev, rev, r, worker, states,
                                              invalid, revision)
               /\ \A i \in DOMAIN out.active \ DOMAIN rev :
                     \E p \in invalid :
                        /\ \A m \in Matches(prev, rev) : m[1] # p
                        /\ out.active[i] =
                              ReaddedItem(prev, p, PreviousState(prev, p, worker, states),
                                          revision)
<1> DEFINE state == [p \in DOMAIN prev |-> PreviousState(prev, p, worker, states)]
           matches == Matches(prev, rev)
           dropped == InOrder(invalid \ {m[1] : m \in matches})
           active(r) == ActiveOf(prev, rev, r, worker, states, invalid, revision)
           readded(i) == ReaddedItem(prev, dropped[i], state[dropped[i]], revision)
           first == [r \in DOMAIN rev |-> active(r)]
           rest == [i \in DOMAIN dropped |-> readded(i)]
           out == Reconcile(prev, rev, worker, states, invalid, revision)
<1>1. /\ UniqueIds(prev) /\ UniqueIds(rev)
      /\ worker \in {0} \union DOMAIN prev
      /\ invalid \subseteq DOMAIN prev
  BY DEF Reconcile
<1>2. \A r : PreviousOf(matches, r) # 0 => PreviousOf(matches, r) \in DOMAIN prev
  BY DEF PreviousOf, Matches, StableMatches, ExactMatches, TitleMatches, Unmarked
<1>3. out.active = first \o rest
  BY <1>1, <1>2 DEF Reconcile, ActiveOf
<1> DEFINE S == invalid \ {m[1] : m \in matches}
<1>4. /\ S \subseteq Nat /\ IsFiniteSet(S) /\ Cardinality(S) \in Nat
      /\ dropped \in [1..Cardinality(S) -> S]
  <2>1. S \subseteq 1..Len(prev)
    BY <1>1 DEF Listed
  <2>2. IsFiniteSet(1..Len(prev))
    BY FS_Interval DEF Listed
  <2>3. S \subseteq Nat /\ IsFiniteSet(S)
    BY <2>1, <2>2, FS_Subset
  <2> QED
    BY <2>3, FS_CardinalityType, InOrderFacts
<1> HIDE DEF S
<1>5. DOMAIN dropped = 1..Cardinality(S)
  BY <1>4
<1> HIDE DEF dropped
<1>6. /\ first = [r \in 1..Len(rev) |-> active(r)]
      /\ rest = [i \in 1..Cardinality(S) |-> readded(i)]
  BY <1>5 DEF Listed
<1> HIDE DEF first, rest, out, active, readded
<1>7. /\ \A r \in 1..Len(rev) : first[r] = active(r)
      /\ \A i \in 1..Cardinality(S) : rest[i] = readded(i)
      /\ first = [r \in 1..Len(rev) |-> first[r]]
      /\ rest = [i \in 1..Cardinality(S) |-> rest[i]]
  BY <1>6
<1>8. /\ Len(first \o rest) = Len(rev) + Cardinality(S)
      /\ DOMAIN (first \o rest) = 1..(Len(rev) + Cardinality(S))
      /\ \A r \in 1..Len(rev) : (first \o rest)[r] = first[r]
      /\ \A i \in 1..Cardinality(S) : (first \o rest)[Len(rev) + i] = rest[i]
  BY <1>4, <1>7, ConcatFacts DEF Listed
<1>9. out.active = first \o rest
  BY <1>3
<1>10. Listed(out.active) /\ DOMAIN rev \subseteq DOMAIN out.active
  BY <1>4, <1>8, <1>9 DEF Listed
<1>11. invalid = {} => DOMAIN out.active = DOMAIN rev
  <2> SUFFICES ASSUME invalid = {} PROVE DOMAIN out.active = DOMAIN rev
    OBVIOUS
  <2>1. S = {}
    BY DEF S
  <2>2. Cardinality(S) = 0
    BY <2>1, FS_EmptySet
  <2>3. DOMAIN rev = 1..Len(rev) /\ Len(rev) + Cardinality(S) = Len(rev)
    BY <2>2 DEF Listed
  <2>4. DOMAIN out.active = 1..(Len(rev) + Cardinality(S))
    BY <1>8, <1>9
  <2> QED
    BY <2>3, <2>4
<1>12. \A r \in DOMAIN rev : out.active[r] = active(r)
  BY <1>7, <1>8, <1>9 DEF Listed
<1>13. \A i \in DOMAIN out.active \ DOMAIN rev : \E p \in S :
          out.active[i] = ReaddedItem(prev, p, state[p], revision)
  <2> SUFFICES ASSUME NEW i \in DOMAIN out.active \ DOMAIN rev
               PROVE  \E p \in S : out.active[i] = ReaddedItem(prev, p, state[p], revision)
    OBVIOUS
  <2> DEFINE k == i - Len(rev)
  <2>1. k \in 1..Cardinality(S) /\ i = Len(rev) + k
    BY <1>4, <1>8, <1>9 DEF Listed
  <2>2. out.active[i] = readded(k) /\ dropped[k] \in S
    BY <1>4, <1>7, <1>8, <1>9, <2>1
  <2> QED
    BY <2>2 DEF readded
<1>14. \A p \in S : /\ p \in DOMAIN prev /\ p \in invalid
                    /\ state[p] = PreviousState(prev, p, worker, states)
                    /\ \A m \in matches : m[1] # p
  BY <1>1 DEF S
<1> QED
  BY <1>1, <1>10, <1>11, <1>12, <1>13, <1>14 DEF active, out

\* The task that a task of the new plan continues: no other one continues it.
LEMMA PreviousFacts ==
    ASSUME NEW prev, NEW rev, Listed(prev), Listed(rev), UniqueIds(prev), UniqueIds(rev),
           NEW r \in DOMAIN rev, PreviousOf(Matches(prev, rev), r) # 0
    PROVE  LET p == PreviousOf(Matches(prev, rev), r)
           IN  /\ p \in DOMAIN prev
               /\ <<p, r>> \in Matches(prev, rev)
               /\ \A s \in DOMAIN rev : PreviousOf(Matches(prev, rev), s) = p => s = r
<1> DEFINE matches == Matches(prev, rev)
<1>1. \A m \in matches : m = <<m[1], m[2]>> /\ m[1] \in DOMAIN prev /\ m[2] \in DOMAIN rev
  <2>1. matches \subseteq (DOMAIN prev) \X (DOMAIN rev)
    <3>1. StableMatches(prev, rev) \subseteq (DOMAIN prev) \X (DOMAIN rev)
      BY DEF StableMatches
    <3>2. ExactMatches(prev, rev) \subseteq (DOMAIN prev) \X (DOMAIN rev)
      BY DEF ExactMatches, Unmarked
    <3>3. TitleMatches(prev, rev) \subseteq (DOMAIN prev) \X (DOMAIN rev)
      BY DEF TitleMatches, Unmarked
    <3> QED
      BY <3>1, <3>2, <3>3 DEF Matches
  <2> QED
    BY <2>1
<1>2. \A s : PreviousOf(matches, s) # 0 =>
          \E m \in matches : m[2] = s /\ m[1] = PreviousOf(matches, s)
  BY DEF PreviousOf
<1>3. \A m, n \in matches : m[1] = n[1] <=> m[2] = n[2]
  BY MatchesOneToOne
<1> HIDE DEF matches
<1> QED
  BY <1>1, <1>2, <1>3 DEF matches

\* The tasks of a plan with some text that are checked.
DoneAlike(tasks, work) ==
    {j \in DOMAIN tasks : tasks[j].done /\ Fingerprint(tasks[j]) = work}

LEMMA DoneAlikeFinite ==
    ASSUME NEW tasks, Listed(tasks), NEW work
    PROVE  IsFiniteSet(DoneAlike(tasks, work)) /\ Cardinality(DoneAlike(tasks, work)) \in Nat
<1>1. DoneAlike(tasks, work) \subseteq 1..Len(tasks) /\ IsFiniteSet(1..Len(tasks))
  BY FS_Interval DEF Listed, DoneAlike
<1> QED
  BY <1>1, FS_Subset, FS_CardinalityType

\* What a reconciliation with nothing invalid makes of the previous plan.
LEMMA CompletionSource ==
    ASSUME NEW prev, NEW rev, NEW worker, NEW revision, Listed(prev), Listed(rev),
           Reconcile(prev, rev, worker, Pending(prev), {}, revision) # NoRevision
    PROVE  LET out  == Reconcile(prev, rev, worker, Pending(prev), {}, revision)
               next == Render(out.active)
           IN  /\ Listed(next)
               /\ DOMAIN next = DOMAIN rev
               /\ \A j \in DOMAIN next :
                     next[j].done =>
                        LET p == PreviousOf(Matches(prev, rev), j)
                        IN  /\ p # 0 /\ p \in DOMAIN prev /\ prev[p].done
                            /\ Fingerprint(prev[p]) = Fingerprint(next[j])
                            /\ next[j].id = Identity(prev, p, "legacy")
<1> DEFINE out == Reconcile(prev, rev, worker, Pending(prev), {}, revision)
           next == Render(out.active)
<1>1. /\ UniqueIds(prev) /\ UniqueIds(rev) /\ Listed(out.active)
      /\ DOMAIN out.active = DOMAIN rev
      /\ \A r \in DOMAIN rev :
            out.active[r] = ActiveOf(prev, rev, r, worker, Pending(prev), {}, revision)
  <2> DEFINE states == Pending(prev)
  <2> HIDE DEF states
  <2>1. Reconcile(prev, rev, worker, states, {}, revision) # NoRevision
    BY DEF states
  <2> DEFINE made == Reconcile(prev, rev, worker, states, {}, revision)
  <2>2. /\ UniqueIds(prev) /\ UniqueIds(rev) /\ Listed(made.active)
        /\ DOMAIN made.active = DOMAIN rev
        /\ \A r \in DOMAIN rev :
              made.active[r] = ActiveOf(prev, rev, r, worker, states, {}, revision)
    BY <2>1, ReconcileFacts
  <2> QED
    BY <2>2 DEF states
<1> HIDE DEF out
<1>2. next = [i \in 1..Len(rev) |-> next[i]] /\ Len(rev) \in Nat
  BY <1>1 DEF Render, Listed
<1>3. Listed(next) /\ DOMAIN next = DOMAIN rev
  <2>1. DOMAIN next = 1..Len(rev)
    BY <1>2
  <2>2. Len(next) = Len(rev)
    BY <1>2, ConcatFacts
  <2> QED
    BY <2>1, <2>2, <1>2 DEF Listed
<1>4. ASSUME NEW j \in DOMAIN rev, next[j].done
      PROVE  LET p == PreviousOf(Matches(prev, rev), j)
             IN  /\ p # 0 /\ p \in DOMAIN prev /\ prev[p].done
                 /\ Fingerprint(prev[p]) = Fingerprint(next[j])
                 /\ next[j].id = Identity(prev, p, "legacy")
  <2> DEFINE p == PreviousOf(Matches(prev, rev), j)
  <2>1. /\ out.active[j].state = "completed"
        /\ next[j].title = out.active[j].title /\ next[j].body = out.active[j].body
        /\ next[j].id = out.active[j].identity
    BY <1>1, <1>4 DEF Render
  <2>2. p # 0
    <3>1. out.active[j] = ActiveOf(prev, rev, j, worker, Pending(prev), {}, revision)
      BY <1>1, <1>4
    <3>2. Inserted(rev, j).state = "pending"
      BY DEF Inserted, Item
    <3> QED
      BY <2>1, <3>1, <3>2 DEF ActiveOf
  <2>3. p \in DOMAIN prev
    BY <1>1, <2>2, PreviousFacts
  <2> HIDE DEF p
  <2>4. out.active[j] = MatchedItem(prev, rev, p, j,
                                   PreviousState(prev, p, worker, Pending(prev)), {}, revision)
    BY <1>1, <2>2 DEF ActiveOf, p
  <2>5. /\ PreviousState(prev, p, worker, Pending(prev)) = "completed"
        /\ Fingerprint(prev[p]) = Fingerprint(rev[j])
        /\ out.active[j].title = rev[j].title /\ out.active[j].body = rev[j].body
        /\ out.active[j].identity = Identity(prev, p, "legacy")
    BY <2>1, <2>4 DEF MatchedItem, Item
  <2>6. prev[p].done
    BY <2>3, <2>5 DEF PreviousState, Pending
  <2> QED
    BY <2>1, <2>2, <2>3, <2>5, <2>6 DEF Fingerprint, p
<1> QED
  BY <1>3, <1>4 DEF out

\* A revision invents no completion and doubles none.
LEMMA CompletionCarried ==
    ASSUME NEW prev, NEW rev, NEW worker, NEW revision, Listed(prev), Listed(rev),
           Reconcile(prev, rev, worker, Pending(prev), {}, revision) # NoRevision,
           NEW work
    PROVE  LET next == Render(Reconcile(prev, rev, worker, Pending(prev), {}, revision).active)
           IN  Cardinality(DoneAlike(next, work)) <= Cardinality(DoneAlike(prev, work))
<1> DEFINE next == Render(Reconcile(prev, rev, worker, Pending(prev), {}, revision).active)
           from == [j \in DoneAlike(next, work) |-> PreviousOf(Matches(prev, rev), j)]
<1>1. UniqueIds(prev) /\ UniqueIds(rev)
  BY DEF Reconcile
<1>2. /\ Listed(next) /\ DOMAIN next = DOMAIN rev
      /\ \A j \in DOMAIN next :
            next[j].done =>
               LET p == PreviousOf(Matches(prev, rev), j)
               IN  /\ p # 0 /\ p \in DOMAIN prev /\ prev[p].done
                   /\ Fingerprint(prev[p]) = Fingerprint(next[j])
  BY CompletionSource
<1> HIDE DEF next
<1>3. from \in [DoneAlike(next, work) -> DoneAlike(prev, work)]
  BY <1>2 DEF DoneAlike
<1>4. \A i, j \in DoneAlike(next, work) : from[i] = from[j] => i = j
  BY <1>1, <1>2, PreviousFacts DEF DoneAlike
<1>5. from \in Injection(DoneAlike(next, work), DoneAlike(prev, work))
  BY <1>3, <1>4 DEF Injection, IsInjective
<1> QED
  BY <1>5, DoneAlikeFinite, FS_Injection DEF next

-----------------------------------------------------------------------------
(* One reconciliation.                                                      *)
\* What CompletionEarned says of one reconciliation.
EarnedIn(prev, active) ==
    LET complete == {i \in DOMAIN active : active[i].state = "completed"}
    IN  \A i \in complete :
            LET item == active[i]
                p    == item.previous
            IN  /\ p \in DOMAIN prev
                /\ prev[p].done
                /\ Fingerprint(prev[p]) = Fingerprint(item)
                /\ Identity(prev, p, "legacy") = item.identity
                /\ \A j \in complete : active[j].previous = p => j = i

\* A complete task comes from the matching: what was inserted or scheduled again is
\* pending, and a match keeps the state of a task only with its text.
LEMMA ReconcileEarns ==
    ASSUME NEW prev, NEW rev, NEW w, NEW invalid, NEW revision,
           Listed(prev), Listed(rev),
           Reconcile(prev, rev, w, Pending(prev), invalid, revision) # NoRevision
    PROVE  EarnedIn(prev, Reconcile(prev, rev, w, Pending(prev), invalid, revision).active)
<1> DEFINE states == Pending(prev)
<1>1. \A p \in DOMAIN prev : states[p] = "pending"
  BY DEF Pending
<1>2. Reconcile(prev, rev, w, states, invalid, revision) # NoRevision
  OBVIOUS
<1> HIDE DEF states
<1> DEFINE active == Reconcile(prev, rev, w, states, invalid, revision).active
           from(r) == PreviousOf(Matches(prev, rev), r)
<1>3. /\ UniqueIds(prev) /\ UniqueIds(rev)
      /\ invalid \subseteq DOMAIN prev
      /\ \A r \in DOMAIN rev :
            active[r] = ActiveOf(prev, rev, r, w, states, invalid, revision)
      /\ \A i \in DOMAIN active \ DOMAIN rev : \E p \in invalid :
            active[i] = ReaddedItem(prev, p, PreviousState(prev, p, w, states), revision)
  BY <1>2, ReconcileFacts
<1> HIDE DEF active
<1>4. ASSUME NEW i \in DOMAIN active, active[i].state = "completed"
      PROVE  /\ i \in DOMAIN rev /\ from(i) # 0
             /\ from(i) \in DOMAIN prev
             /\ active[i].previous = from(i)
             /\ prev[from(i)].done
             /\ Fingerprint(prev[from(i)]) = Fingerprint(active[i])
             /\ Identity(prev, from(i), "legacy") = active[i].identity
  <2>1. i \in DOMAIN rev
    BY <1>3, <1>4 DEF ReaddedItem, Item
  <2>2. from(i) # 0
    <3>1. active[i] = ActiveOf(prev, rev, i, w, states, invalid, revision)
      BY <1>3, <2>1
    <3>2. Inserted(rev, i).state = "pending"
      BY DEF Inserted, Item
    <3> QED
      BY <1>4, <3>1, <3>2 DEF ActiveOf
  <2>3. from(i) \in DOMAIN prev
    BY <1>3, <2>1, <2>2, PreviousFacts
  <2> DEFINE p == from(i)
             s == PreviousState(prev, p, w, states)
  <2>4. active[i] = MatchedItem(prev, rev, p, i, s, invalid, revision)
    BY <1>3, <2>1, <2>2 DEF ActiveOf
  <2> HIDE DEF p
  <2>5. s = "completed" => prev[p].done
    BY <1>1, <2>3 DEF PreviousState, p
  <2> HIDE DEF s
  <2>6. /\ s = "completed"
        /\ Fingerprint(prev[p]) = Fingerprint(rev[i])
        /\ active[i] = Item(Identity(prev, p, "legacy"), rev[i], s, "unchanged", p, i)
    BY <1>4, <2>4 DEF MatchedItem, Item
  <2>7. /\ active[i].previous = p
        /\ active[i].identity = Identity(prev, p, "legacy")
        /\ Fingerprint(active[i]) = Fingerprint(rev[i])
    BY <2>6 DEF Item, Fingerprint
  <2> QED
    BY <2>1, <2>2, <2>3, <2>5, <2>6, <2>7 DEF p
<1>5. \A i, j \in DOMAIN rev : from(i) # 0 /\ from(j) = from(i) => j = i
  BY <1>3, PreviousFacts
<1> HIDE DEF from
<1>6. EarnedIn(prev, active)
  BY <1>4, <1>5 DEF EarnedIn
<1> QED
  BY <1>6 DEF active, states

\* What RunningKeptOrStale says of one task and one reconciliation.
KeptIn(prev, active, p) ==
    \E i \in DOMAIN active :
        /\ active[i].state = "running"
        /\ active[i].previous = p
        /\ Fingerprint(active[i]) = Fingerprint(prev[p])

\* The matches that make the work of a previous task stale.
Superseding(prev, rev, p, invalid) ==
    {m \in Matches(prev, rev) :
        m[1] = p /\ (Fingerprint(prev[p]) # Fingerprint(rev[m[2]]) \/ p \in invalid)}

\* The running task is reported stale if the proposal changed, invalidated or dropped it.
LEMMA StaleFacts ==
    ASSUME NEW prev, NEW rev, NEW states, NEW invalid, NEW revision, NEW p \in DOMAIN prev,
           ~prev[p].done,
           Reconcile(prev, rev, p, states, invalid, revision) # NoRevision
    PROVE  p \in Reconcile(prev, rev, p, states, invalid, revision).staleRunning
              <=> \/ Superseding(prev, rev, p, invalid) # {}
                  \/ \A m \in Matches(prev, rev) : m[1] # p
<1> DEFINE matches == Matches(prev, rev)
           state == [q \in DOMAIN prev |-> PreviousState(prev, q, p, states)]
           retired == Retired(prev, rev, matches, state, invalid)
           matched == {m[1] : m \in matches}
           superseded == {m[1] : m \in {m \in matches :
               /\ \/ Fingerprint(prev[m[1]]) # Fingerprint(rev[m[2]])
                  \/ m[1] \in invalid
               /\ state[m[1]] \in {"completed", "running"}}}
<1>1. Reconcile(prev, rev, p, states, invalid, revision).staleRunning
         = {t.previous : t \in {t \in retired : t.state = "running"}}
  BY DEF Reconcile
<1>2. state[p] = "running"
  BY DEF PreviousState
<1> HIDE DEF state, matches
<1>3. retired = {[identity |-> Identity(prev, q, "legacy"), previous |-> q,
                  state |-> state[q], preserveOutputs |-> state[q] = "completed"] :
                     q \in superseded \union (DOMAIN prev \ matched)}
  BY DEF Retired
<1>4. p \in {t.previous : t \in {t \in retired : t.state = "running"}}
         <=> p \in superseded \union (DOMAIN prev \ matched)
  <2> HIDE DEF retired, superseded, matched
  <2> DEFINE rec(q) == [identity |-> Identity(prev, q, "legacy"), previous |-> q,
                        state |-> state[q], preserveOutputs |-> state[q] = "completed"]
  <2>1. \A q : rec(q).previous = q /\ rec(q).state = state[q]
    OBVIOUS
  <2>2. retired = {rec(q) : q \in superseded \union (DOMAIN prev \ matched)}
    BY <1>3
  <2> HIDE DEF rec
  <2> QED
    BY <1>2, <2>1, <2>2
<1>5. p \in superseded <=> Superseding(prev, rev, p, invalid) # {}
  BY <1>2 DEF Superseding, matches
<1>6. p \in DOMAIN prev \ matched <=> \A m \in Matches(prev, rev) : m[1] # p
  BY DEF matches
<1> QED
  BY <1>1, <1>4, <1>5, <1>6

\* A match of a task is the one that the task of the new plan is made from.
LEMMA MatchIsUsed ==
    ASSUME NEW prev, NEW rev, Listed(prev), Listed(rev), UniqueIds(prev), UniqueIds(rev),
           NEW m \in Matches(prev, rev)
    PROVE  /\ m[1] \in DOMAIN prev /\ m[2] \in DOMAIN rev
           /\ m[1] # 0 /\ PreviousOf(Matches(prev, rev), m[2]) = m[1]
<1> DEFINE matches == Matches(prev, rev)
<1>1. m[1] \in DOMAIN prev /\ m[2] \in DOMAIN rev
  BY DEF Matches, StableMatches, ExactMatches, TitleMatches, Unmarked
<1>2. m[1] # 0
  BY <1>1 DEF Listed
<1>3. \A n \in matches : n[2] = m[2] => n[1] = m[1]
  BY MatchesOneToOne
<1> HIDE DEF matches
<1>4. m \in matches
  BY DEF matches
<1>5. PreviousOf(matches, m[2]) = m[1]
  BY <1>3, <1>4 DEF PreviousOf
<1> QED
  BY <1>1, <1>2, <1>5 DEF matches

\* Never both and never neither: the task is kept exactly where one match continues it
\* with its text, and stale in every other case.
LEMMA ReconcileKeepsOrReports ==
    ASSUME NEW prev, NEW rev, NEW invalid, NEW revision, NEW p \in DOMAIN prev,
           Listed(prev), Listed(rev), ~prev[p].done,
           Reconcile(prev, rev, p, Pending(prev), invalid, revision) # NoRevision
    PROVE  LET out == Reconcile(prev, rev, p, Pending(prev), invalid, revision)
           IN  KeptIn(prev, out.active, p) # (p \in out.staleRunning)
<1> DEFINE states == Pending(prev)
<1>1. \A q \in DOMAIN prev : states[q] = "pending"
  BY DEF Pending
<1>2. Reconcile(prev, rev, p, states, invalid, revision) # NoRevision
  OBVIOUS
<1> HIDE DEF states
<1> DEFINE out == Reconcile(prev, rev, p, states, invalid, revision)
           active == out.active
           matches == Matches(prev, rev)
           from(r) == PreviousOf(matches, r)
<1>3. /\ UniqueIds(prev) /\ UniqueIds(rev)
      /\ invalid \subseteq DOMAIN prev
      /\ DOMAIN rev \subseteq DOMAIN active
      /\ \A r \in DOMAIN rev :
            active[r] = ActiveOf(prev, rev, r, p, states, invalid, revision)
      /\ \A i \in DOMAIN active \ DOMAIN rev : \E q \in invalid :
            active[i] = ReaddedItem(prev, q, PreviousState(prev, q, p, states), revision)
  BY <1>2, ReconcileFacts
<1>4. p \in out.staleRunning <=> \/ Superseding(prev, rev, p, invalid) # {}
                                 \/ \A m \in matches : m[1] # p
  BY <1>2, StaleFacts
<1>5. PreviousState(prev, p, p, states) = "running"
  BY DEF PreviousState
<1> HIDE DEF out, active
<1>6. ASSUME NEW i \in DOMAIN active, active[i].state = "running", active[i].previous = p
      PROVE  /\ i \in DOMAIN rev /\ <<p, i>> \in matches
             /\ Fingerprint(prev[p]) = Fingerprint(rev[i]) /\ p \notin invalid
  <2>1. i \in DOMAIN rev
    BY <1>3, <1>6 DEF ReaddedItem, Item
  <2>2. from(i) # 0
    <3>1. active[i] = ActiveOf(prev, rev, i, p, states, invalid, revision)
      BY <1>3, <2>1
    <3>2. Inserted(rev, i).state = "pending"
      BY DEF Inserted, Item
    <3> QED
      BY <1>6, <3>1, <3>2 DEF ActiveOf
  <2>3. <<from(i), i>> \in matches
    BY <1>3, <2>1, <2>2, PreviousFacts
  <2>4. active[i] = MatchedItem(prev, rev, from(i), i, PreviousState(prev, from(i), p, states),
                                invalid, revision)
    BY <1>3, <2>1, <2>2 DEF ActiveOf
  <2> HIDE DEF from
  <2>5. from(i) = p /\ Fingerprint(prev[p]) = Fingerprint(rev[i]) /\ p \notin invalid
    BY <1>6, <2>4 DEF MatchedItem, Item
  <2> QED
    BY <2>1, <2>3, <2>5
<1>7. ASSUME NEW m \in matches, m[1] = p,
             Fingerprint(prev[p]) = Fingerprint(rev[m[2]]), p \notin invalid
      PROVE  KeptIn(prev, active, p)
  <2>1. m[2] \in DOMAIN rev /\ from(m[2]) = p /\ p # 0
    BY <1>3, <1>7, MatchIsUsed
  <2>2. active[m[2]] = MatchedItem(prev, rev, p, m[2], "running", invalid, revision)
    BY <1>3, <1>5, <2>1 DEF ActiveOf
  <2>3. active[m[2]] = Item(Identity(prev, p, "legacy"), rev[m[2]], "running", "unchanged",
                            p, m[2])
    BY <1>7, <2>2 DEF MatchedItem
  <2>4. /\ active[m[2]].state = "running" /\ active[m[2]].previous = p
        /\ Fingerprint(active[m[2]]) = Fingerprint(rev[m[2]])
    BY <2>3 DEF Item, Fingerprint
  <2> QED
    BY <1>3, <1>7, <2>1, <2>4 DEF KeptIn
<1>8. KeptIn(prev, active, p) => p \notin out.staleRunning
  <2> SUFFICES ASSUME NEW i \in DOMAIN active, active[i].state = "running",
                      active[i].previous = p
               PROVE  p \notin out.staleRunning
    BY DEF KeptIn
  <2>1. /\ <<p, i>> \in matches
        /\ Fingerprint(prev[p]) = Fingerprint(rev[i]) /\ p \notin invalid
    BY <1>6
  <2>2. \A m \in matches : m[1] = p => m[2] = i
    BY <1>3, <2>1, MatchesOneToOne
  <2>3. Superseding(prev, rev, p, invalid) = {}
    BY <2>1, <2>2 DEF Superseding
  <2>4. ~ \A m \in matches : m[1] # p
    BY <2>1
  <2> QED
    BY <1>4, <2>3, <2>4
<1>9. p \notin out.staleRunning => KeptIn(prev, active, p)
  BY <1>4, <1>7 DEF Superseding
<1>10. KeptIn(prev, active, p) # (p \in out.staleRunning)
  BY <1>8, <1>9
<1> QED
  BY <1>10 DEF active, out, states

-----------------------------------------------------------------------------
(* Identities.                                                              *)
LEMMA OccurrenceBounds ==
    ASSUME NEW tasks, Listed(tasks), NEW i \in Unmarked(tasks)
    PROVE  Occurrence(tasks, i) \in 1..i
<1> DEFINE upTo == {k \in Alike(tasks, i) : k <= i}
<1>1. i \in 1..Len(tasks) /\ i \in Nat
  BY DEF Unmarked, Listed
<1>2. upTo \subseteq 1..i /\ i \in upTo
  BY <1>1 DEF Alike, Unmarked, Listed
<1> HIDE DEF upTo
<1>3. IsFiniteSet(1..i) /\ Cardinality(1..i) = i
  BY <1>1, FS_Interval
<1>4. IsFiniteSet(upTo) /\ Cardinality(upTo) <= i
  BY <1>2, <1>3, FS_Subset
<1>5. Cardinality(upTo) \in Nat /\ Cardinality(upTo) # 0
  BY <1>2, <1>4, FS_CardinalityType, FS_EmptySet
<1> QED
  BY <1>1, <1>4, <1>5 DEF Occurrence, upTo

\* What FreshIdentities says of one reconciliation.
Fresh(prev, rev, revision) ==
    /\ \A p \in Unmarked(prev) :
          Identity(prev, p, "legacy") \notin Markers(prev) \union Markers(rev)
    /\ \A r \in Unmarked(rev) : Identity(rev, r, "inserted") \notin Markers(prev)
    /\ \A p, q \in DOMAIN prev :
          FollowUpIdentity(Identity(prev, p, "legacy"), prev[q], revision) \notin Markers(prev)
    /\ \A p \in DOMAIN prev, r \in DOMAIN rev :
          FollowUpIdentity(Identity(prev, p, "legacy"), rev[r], revision) \notin Markers(prev)

LEMMA FreshFirst ==
    ASSUME NEW prev, NEW rev, NEW revision, Listed(prev), Listed(rev),
           FreshIdentities(prev, rev, revision)
    PROVE  Fresh(prev, rev, revision)
<1>1. ASSUME NEW r \in Unmarked(rev)
      PROVE  Identity(rev, r, "inserted") \notin Markers(prev)
  <2>1. Occurrence(rev, r) \in 1..Len(rev)
    <3>1. r \in 1..Len(rev) /\ Len(rev) \in Nat
      BY DEF Unmarked, Listed
    <3> QED
      BY <3>1, OccurrenceBounds
  <2>2. Identity(rev, r, "inserted") = <<"inserted", Fingerprint(rev[r]), Occurrence(rev, r)>>
    BY DEF Identity, Unmarked
  <2> QED
    BY <2>1, <2>2 DEF FreshIdentities
<1> QED
  BY <1>1 DEF Fresh, FreshIdentities

\* The tasks of a plan have identities of their own.
LEMMA IdentitiesDiffer ==
    ASSUME NEW prev, NEW rev, NEW revision, Listed(prev), UniqueIds(prev),
           Fresh(prev, rev, revision),
           NEW p \in DOMAIN prev, NEW q \in DOMAIN prev,
           Identity(prev, p, "legacy") = Identity(prev, q, "legacy")
    PROVE  p = q
<1>1. CASE prev[p].id # NoId /\ prev[q].id # NoId
  BY <1>1 DEF Identity, UniqueIds
<1>2. CASE prev[p].id = NoId /\ prev[q].id # NoId
  BY <1>2 DEF Identity, Fresh, Markers, Unmarked
<1>3. CASE prev[p].id # NoId /\ prev[q].id = NoId
  BY <1>3 DEF Identity, Fresh, Markers, Unmarked
<1>4. CASE prev[p].id = NoId /\ prev[q].id = NoId
  <2>1. p \in Unmarked(prev) /\ q \in Unmarked(prev)
    BY <1>4 DEF Unmarked
  <2>2. Fingerprint(prev[p]) = Fingerprint(prev[q]) /\ Occurrence(prev, p) = Occurrence(prev, q)
    BY <1>4 DEF Identity
  <2> QED
    BY <2>1, <2>2, OccurrenceNames
<1> QED
  BY <1>1, <1>2, <1>3, <1>4

\* An identity of the previous plan is the one of a follow-up or of a new task only if
\* the new task has it for a marker.
LEMMA DerivedDiffer ==
    ASSUME NEW prev, NEW rev, NEW revision, Fresh(prev, rev, revision),
           NEW p \in DOMAIN prev
    PROVE  /\ \A q \in DOMAIN prev, o \in DOMAIN prev :
                 FollowUpIdentity(Identity(prev, q, "legacy"), prev[o], revision)
                    # Identity(prev, p, "legacy")
           /\ \A q \in DOMAIN prev, r \in DOMAIN rev :
                 FollowUpIdentity(Identity(prev, q, "legacy"), rev[r], revision)
                    # Identity(prev, p, "legacy")
           /\ \A r \in DOMAIN rev :
                 Identity(rev, r, "inserted") = Identity(prev, p, "legacy") =>
                    prev[p].id = rev[r].id /\ rev[r].id # NoId
<1> DEFINE me == Identity(prev, p, "legacy")
<1>1. CASE prev[p].id # NoId
  <2>1. me = prev[p].id /\ me \in Markers(prev)
    BY <1>1 DEF Identity, Markers
  <2> HIDE DEF me
  <2>2. ASSUME NEW r \in DOMAIN rev, Identity(rev, r, "inserted") = me
        PROVE  prev[p].id = rev[r].id /\ rev[r].id # NoId
    <3>1. rev[r].id # NoId
      BY <2>1, <2>2 DEF Fresh, Unmarked
    <3> QED
      BY <2>1, <2>2, <3>1 DEF Identity
  <2> QED
    BY <2>1, <2>2 DEF Fresh, me
<1>2. CASE prev[p].id = NoId
  <2>1. me = <<"legacy", Fingerprint(prev[p]), Occurrence(prev, p)>>
    BY <1>2 DEF Identity
  <2>2. me \notin Markers(rev)
    BY <1>2 DEF Fresh, Unmarked
  <2> HIDE DEF me
  <2>3. ASSUME NEW r \in DOMAIN rev
        PROVE  Identity(rev, r, "inserted") # me
    <3>1. CASE rev[r].id # NoId
      BY <2>2, <3>1 DEF Identity, Markers
    <3>2. CASE rev[r].id = NoId
      BY <2>1, <3>2 DEF Identity
    <3> QED
      BY <3>1, <3>2
  <2>4. \A identity, task : FollowUpIdentity(identity, task, revision) # me
    BY <2>1 DEF FollowUpIdentity
  <2> QED
    BY <2>3, <2>4 DEF me
<1> QED
  BY <1>1, <1>2

\* What HistoryKept says of one task and one reconciliation.
HistoryIn(prev, out, p) ==
    LET me    == Identity(prev, p, "legacy")
        named == {i \in DOMAIN out.active : out.active[i].identity = me}
    IN  \/ /\ Cardinality(named) = 1
           /\ \A i \in named : out.active[i].state = "completed"
           /\ \A t \in out.retired : t.previous # p
        \/ /\ named = {}
           /\ \E t \in out.retired : t.previous = p /\ t.preserveOutputs

\* The audit records are about what the proposal changed, invalidated or dropped.
LEMMA RetiredFacts ==
    ASSUME NEW prev, NEW rev, NEW w, NEW states, NEW invalid, NEW revision, NEW p \in DOMAIN prev,
           prev[p].done,
           Reconcile(prev, rev, w, states, invalid, revision) # NoRevision
    PROVE  LET retired == Reconcile(prev, rev, w, states, invalid, revision).retired
               gone == \/ Superseding(prev, rev, p, invalid) # {}
                       \/ \A m \in Matches(prev, rev) : m[1] # p
           IN  /\ ~gone => \A t \in retired : t.previous # p
               /\ gone => \E t \in retired : t.previous = p /\ t.preserveOutputs
<1> DEFINE matches == Matches(prev, rev)
           state == [q \in DOMAIN prev |-> PreviousState(prev, q, w, states)]
           retired == Retired(prev, rev, matches, state, invalid)
           matched == {m[1] : m \in matches}
           superseded == {m[1] : m \in {m \in matches :
               /\ \/ Fingerprint(prev[m[1]]) # Fingerprint(rev[m[2]])
                  \/ m[1] \in invalid
               /\ state[m[1]] \in {"completed", "running"}}}
           rec(q) == [identity |-> Identity(prev, q, "legacy"), previous |-> q,
                      state |-> state[q], preserveOutputs |-> state[q] = "completed"]
<1>1. Reconcile(prev, rev, w, states, invalid, revision).retired = retired
  BY DEF Reconcile
<1>2. state[p] = "completed"
  BY DEF PreviousState
<1> HIDE DEF state, matches
<1>3. retired = {rec(q) : q \in superseded \union (DOMAIN prev \ matched)}
  BY DEF Retired
<1>4. /\ \A q : rec(q).previous = q
      /\ rec(p).preserveOutputs
  BY <1>2
<1>5. p \in superseded <=> Superseding(prev, rev, p, invalid) # {}
  BY <1>2 DEF Superseding, matches
<1>6. p \in DOMAIN prev \ matched <=> \A m \in Matches(prev, rev) : m[1] # p
  BY DEF matches
<1> HIDE DEF retired, superseded, matched, rec
<1>7. p \in superseded \union (DOMAIN prev \ matched) =>
         \E t \in retired : t.previous = p /\ t.preserveOutputs
  BY <1>3, <1>4
<1>8. p \notin superseded \union (DOMAIN prev \ matched) =>
         \A t \in retired : t.previous # p
  BY <1>3, <1>4
<1> QED
  BY <1>1, <1>5, <1>6, <1>7, <1>8

\* Completed work is complete under its identity, or history while its identity is free.
LEMMA ReconcileKeepsHistory ==
    ASSUME NEW prev, NEW rev, NEW w, NEW invalid, NEW revision, NEW p \in DOMAIN prev,
           Listed(prev), Listed(rev), prev[p].done, Fresh(prev, rev, revision),
           Reconcile(prev, rev, w, Pending(prev), invalid, revision) # NoRevision
    PROVE  HistoryIn(prev, Reconcile(prev, rev, w, Pending(prev), invalid, revision), p)
<1> DEFINE states == Pending(prev)
<1>1. Reconcile(prev, rev, w, states, invalid, revision) # NoRevision
  OBVIOUS
<1> HIDE DEF states
<1> DEFINE out == Reconcile(prev, rev, w, states, invalid, revision)
           active == out.active
           matches == Matches(prev, rev)
           from(r) == PreviousOf(matches, r)
           me == Identity(prev, p, "legacy")
           named == {i \in DOMAIN active : active[i].identity = me}
<1>2. /\ UniqueIds(prev) /\ UniqueIds(rev)
      /\ invalid \subseteq DOMAIN prev
      /\ DOMAIN rev \subseteq DOMAIN active
      /\ \A r \in DOMAIN rev :
            active[r] = ActiveOf(prev, rev, r, w, states, invalid, revision)
      /\ \A i \in DOMAIN active \ DOMAIN rev : \E q \in invalid :
            active[i] = ReaddedItem(prev, q, PreviousState(prev, q, w, states), revision)
  BY <1>1, ReconcileFacts
<1> DEFINE gone == \/ Superseding(prev, rev, p, invalid) # {}
                   \/ \A m \in Matches(prev, rev) : m[1] # p
<1>3. /\ ~gone => \A t \in out.retired : t.previous # p
      /\ gone => \E t \in out.retired : t.previous = p /\ t.preserveOutputs
  BY <1>1, RetiredFacts
<1>4. PreviousState(prev, p, w, states) = "completed"
  BY DEF PreviousState
<1> HIDE DEF out, active
<1>5. ASSUME NEW i \in DOMAIN active, active[i].identity = me
      PROVE  /\ <<p, i>> \in matches
             /\ Fingerprint(prev[p]) = Fingerprint(rev[i]) /\ p \notin invalid
             /\ active[i].state = "completed"
  <2>1. i \in DOMAIN rev
    <3> SUFFICES ASSUME i \notin DOMAIN rev PROVE FALSE
      OBVIOUS
    <3>1. PICK q \in invalid :
             active[i] = ReaddedItem(prev, q, PreviousState(prev, q, w, states), revision)
      BY <1>2
    <3>2. me = FollowUpIdentity(Identity(prev, q, "legacy"), prev[q], revision)
      BY <1>5, <3>1 DEF ReaddedItem, Item
    <3> QED
      BY <1>2, <3>2, DerivedDiffer
  <2>2. active[i] = ActiveOf(prev, rev, i, w, states, invalid, revision)
    BY <1>2, <2>1
  <2>3. from(i) # 0
    <3> SUFFICES ASSUME from(i) = 0 PROVE FALSE
      OBVIOUS
    <3>1. me = Identity(rev, i, "inserted")
      BY <1>5, <2>2 DEF ActiveOf, Inserted, Item
    <3>2. prev[p].id = rev[i].id /\ rev[i].id # NoId
      BY <2>1, <3>1, DerivedDiffer
    <3>3. <<p, i>> \in matches
      BY <2>1, <3>2 DEF Matches, StableMatches
    <3>4. from(i) = p /\ p # 0
      BY <1>2, <3>3, MatchIsUsed
    <3> QED
      BY <3>4
  <2>4. from(i) \in DOMAIN prev /\ <<from(i), i>> \in matches
    BY <1>2, <2>1, <2>3, PreviousFacts
  <2> DEFINE q == from(i)
             s == PreviousState(prev, q, w, states)
  <2>5. active[i] = MatchedItem(prev, rev, q, i, s, invalid, revision)
    BY <2>2, <2>3 DEF ActiveOf
  <2> HIDE DEF q, s
  <2>6. FollowUpIdentity(Identity(prev, q, "legacy"), rev[i], revision) # me
    BY <2>1, <2>4, DerivedDiffer DEF q
  <2>7. Identity(prev, q, "legacy") = me
    BY <1>5, <2>5, <2>6 DEF MatchedItem, Item
  <2>8. q = p
    BY <1>2, <2>4, <2>7, IdentitiesDiffer DEF q
  <2>9. s = "completed"
    BY <1>4, <2>8 DEF s
  <2>10. Fingerprint(prev[p]) = Fingerprint(rev[i]) /\ p \notin invalid
    BY <1>5, <2>5, <2>6, <2>8, <2>9 DEF MatchedItem, Item
  <2> QED
    BY <2>4, <2>5, <2>8, <2>9, <2>10 DEF MatchedItem, Item, q
<1>6. CASE gone
  <2>1. named = {}
    <3> SUFFICES ASSUME NEW i \in named PROVE FALSE
      OBVIOUS
    <3>1. /\ <<p, i>> \in matches
          /\ Fingerprint(prev[p]) = Fingerprint(rev[i]) /\ p \notin invalid
      BY <1>5
    <3>2. \A m \in matches : m[1] = p => m[2] = i
      BY <1>2, <3>1, MatchesOneToOne
    <3> QED
      BY <1>6, <3>1, <3>2 DEF Superseding
  <2> QED
    BY <1>3, <1>6, <2>1 DEF HistoryIn, active, out, states
<1>7. CASE ~gone
  <2>1. PICK m \in matches : m[1] = p
    BY <1>7
  <2>2. m[2] \in DOMAIN rev /\ from(m[2]) = p /\ p # 0
    BY <1>2, <2>1, MatchIsUsed
  <2> DEFINE i == m[2]
  <2>3. Fingerprint(prev[p]) = Fingerprint(rev[i]) /\ p \notin invalid
    BY <1>7, <2>1 DEF Superseding
  <2>4. active[i] = MatchedItem(prev, rev, p, i, "completed", invalid, revision)
    BY <1>2, <1>4, <2>2 DEF ActiveOf
  <2>5. i \in named
    BY <1>2, <2>2, <2>3, <2>4 DEF MatchedItem, Item
  <2>6. \A j \in named : j = i
    <3> SUFFICES ASSUME NEW j \in named PROVE j = i
      OBVIOUS
    <3>1. <<p, j>> \in matches
      BY <1>5
    <3> QED
      BY <1>2, <2>1, <3>1, MatchesOneToOne
  <2>7. named = {i}
    BY <2>5, <2>6
  <2>8. Cardinality(named) = 1
    BY <2>7, FS_Singleton
  <2>9. \A j \in named : active[j].state = "completed"
    BY <1>5
  <2> QED
    BY <1>3, <1>7, <2>8, <2>9 DEF HistoryIn, active, out, states
<1> QED
  BY <1>6, <1>7

-----------------------------------------------------------------------------
(* The second reconciliation.                                               *)
\* Changed requirements of completed work.
Corrects(prev, rev, p, r, invalid) ==
    prev[p].done /\ (Fingerprint(prev[p]) # Fingerprint(rev[r]) \/ p \in invalid)

\* What the second reconciliation is given: the proposal's texts, in its order, under
\* the markers of the tasks they continue, or under their new identities.
TargetTask(prev, rev, r, invalid, revision, task) ==
    LET p == PreviousOf(Matches(prev, rev), r)
    IN  /\ Fingerprint(task) = Fingerprint(rev[r])
        /\ p = 0 => task.id = Identity(rev, r, "inserted")
        /\ p # 0 /\ ~Corrects(prev, rev, p, r, invalid) => task.id = prev[p].id
        /\ p # 0 /\ Corrects(prev, rev, p, r, invalid) =>
              task.id = FollowUpIdentity(Identity(prev, p, "legacy"), rev[r], revision)

LEMMA TargetFacts ==
    ASSUME NEW prev, NEW rev, NEW w, NEW invalid, NEW revision, Listed(prev), Listed(rev),
           Reconcile(prev, rev, w, Pending(prev), invalid, revision) # NoRevision,
           NEW tasks, \A p \in DOMAIN prev : tasks[p].id = prev[p].id
    PROVE  LET active == Reconcile(prev, rev, w, Pending(prev), invalid, revision).active
               target == Target(active, tasks)
           IN  /\ Listed(target)
               /\ DOMAIN target = DOMAIN active
               /\ DOMAIN rev \subseteq DOMAIN target
               /\ \A r \in DOMAIN rev :
                     TargetTask(prev, rev, r, invalid, revision, target[r])
               /\ \A i \in DOMAIN target \ DOMAIN rev : \E q \in DOMAIN prev :
                     /\ target[i].id = FollowUpIdentity(Identity(prev, q, "legacy"), prev[q],
                                                        revision)
                     /\ Fingerprint(target[i]) = Fingerprint(prev[q])
<1> DEFINE states == Pending(prev)
<1>1. \A q \in DOMAIN prev : states[q] = "pending"
  BY DEF Pending
<1>2. Reconcile(prev, rev, w, states, invalid, revision) # NoRevision
  OBVIOUS
<1> HIDE DEF states
<1> DEFINE active == Reconcile(prev, rev, w, states, invalid, revision).active
           target == Target(active, tasks)
           from(r) == PreviousOf(Matches(prev, rev), r)
<1>3. /\ UniqueIds(prev) /\ UniqueIds(rev)
      /\ invalid \subseteq DOMAIN prev
      /\ Listed(active)
      /\ DOMAIN rev \subseteq DOMAIN active
      /\ \A r \in DOMAIN rev :
            active[r] = ActiveOf(prev, rev, r, w, states, invalid, revision)
      /\ \A i \in DOMAIN active \ DOMAIN rev : \E q \in invalid :
            active[i] = ReaddedItem(prev, q, PreviousState(prev, q, w, states), revision)
  BY <1>2, ReconcileFacts
<1> HIDE DEF active
<1> DEFINE n == Len(active)
<1>4. n \in Nat /\ DOMAIN active = 1..n /\ target = [i \in 1..n |-> target[i]]
  BY <1>3 DEF Listed, Target
<1>5. \A i \in DOMAIN active :
         LET item == active[i]
             keeps == item.previous # 0 /\ item.kind # "follow_up" /\ item.revised # 0
         IN  /\ target[i].id = IF keeps THEN tasks[item.previous].id ELSE item.identity
             /\ target[i].title = item.title /\ target[i].body = item.body
  BY DEF Target, Render
<1> HIDE DEF target, n
<1>6. Len(target) = n /\ DOMAIN target = 1..n
  BY <1>4, ListLength
<1>7. Listed(target) /\ DOMAIN target = DOMAIN active
  BY <1>4, <1>6 DEF Listed
<1>8. ASSUME NEW i \in DOMAIN active \ DOMAIN rev
      PROVE  \E q \in DOMAIN prev :
                /\ target[i].id = FollowUpIdentity(Identity(prev, q, "legacy"), prev[q],
                                                   revision)
                /\ Fingerprint(target[i]) = Fingerprint(prev[q])
  <2>1. PICK q \in invalid :
           active[i] = ReaddedItem(prev, q, PreviousState(prev, q, w, states), revision)
    BY <1>3
  <2>2. /\ active[i].revised = 0
        /\ active[i].identity = FollowUpIdentity(Identity(prev, q, "legacy"), prev[q], revision)
        /\ active[i].title = prev[q].title /\ active[i].body = prev[q].body
    BY <2>1 DEF ReaddedItem, Item
  <2> QED
    BY <1>3, <1>5, <2>2 DEF Fingerprint
<1>9. ASSUME NEW r \in DOMAIN rev
      PROVE  TargetTask(prev, rev, r, invalid, revision, target[r])
  <2>1. r \in DOMAIN active /\ r # 0
    BY <1>3 DEF Listed
  <2>2. active[r] = ActiveOf(prev, rev, r, w, states, invalid, revision)
    BY <1>3
  <2>3. CASE from(r) = 0
    <3>1. active[r] = Item(Identity(rev, r, "inserted"), rev[r], "pending", "inserted", 0, r)
      BY <2>2, <2>3 DEF ActiveOf, Inserted
    <3>2. /\ active[r].previous = 0
          /\ active[r].identity = Identity(rev, r, "inserted")
          /\ active[r].title = rev[r].title /\ active[r].body = rev[r].body
      BY <3>1 DEF Item
    <3> QED
      BY <1>5, <2>1, <2>3, <3>2 DEF TargetTask, Fingerprint
  <2>4. CASE from(r) # 0
    <3> DEFINE p == from(r)
               s == PreviousState(prev, p, w, states)
    <3>1. p \in DOMAIN prev
      BY <1>3, <2>4, PreviousFacts
    <3>2. active[r] = MatchedItem(prev, rev, p, r, s, invalid, revision)
      BY <2>2, <2>4 DEF ActiveOf
    <3> HIDE DEF p
    <3>3. s = "completed" <=> prev[p].done
      BY <1>1, <3>1 DEF PreviousState
    <3> HIDE DEF s
    <3>4. /\ active[r].previous = p /\ active[r].revised = r
          /\ active[r].title = rev[r].title /\ active[r].body = rev[r].body
      BY <3>2 DEF MatchedItem, Item
    <3>5. CASE Corrects(prev, rev, p, r, invalid)
      <4>1. active[r].kind = "follow_up"
            /\ active[r].identity = FollowUpIdentity(Identity(prev, p, "legacy"), rev[r],
                                                     revision)
        BY <3>2, <3>3, <3>5 DEF MatchedItem, Item, Corrects
      <4> QED
        BY <1>5, <2>1, <2>4, <3>4, <3>5, <4>1 DEF TargetTask, Fingerprint, p
    <3>6. CASE ~Corrects(prev, rev, p, r, invalid)
      <4>1. active[r].kind \in {"unchanged", "modified"}
        BY <3>2, <3>3, <3>6 DEF MatchedItem, Item, Corrects
      <4>2. target[r].id = prev[p].id
        BY <1>5, <2>1, <2>4, <3>1, <3>4, <4>1 DEF p
      <4> QED
        BY <1>5, <2>1, <2>4, <3>4, <3>6, <4>2 DEF TargetTask, Fingerprint, p
    <3> QED
      BY <3>5, <3>6
  <2> QED
    BY <2>3, <2>4
<1> QED
  BY <1>3, <1>7, <1>8, <1>9 DEF target, active, states

\* A task of it without a marker continues an unmarked task of the plan.
LEMMA TargetUnmarked ==
    ASSUME NEW prev, NEW rev, NEW invalid, NEW revision, NEW task, NEW r \in DOMAIN rev,
           Listed(prev), Listed(rev), UniqueIds(prev), UniqueIds(rev),
           TargetTask(prev, rev, r, invalid, revision, task), task.id = NoId
    PROVE  LET p == PreviousOf(Matches(prev, rev), r)
           IN  /\ p # 0 /\ p \in Unmarked(prev) /\ r \in Unmarked(rev)
               /\ ~Corrects(prev, rev, p, r, invalid)
               /\ <<p, r>> \in ExactMatches(prev, rev) \union TitleMatches(prev, rev)
<1> DEFINE p == PreviousOf(Matches(prev, rev), r)
<1>1. \A work, n : <<"inserted", work, n>> # NoId
  BY DEF NoId
<1>2. \A identity : FollowUpIdentity(identity, rev[r], revision) # NoId
  BY DEF NoId, FollowUpIdentity
<1>3. p # 0 /\ ~Corrects(prev, rev, p, r, invalid)
  BY <1>1, <1>2 DEF TargetTask, Identity
<1>4. p \in DOMAIN prev /\ <<p, r>> \in Matches(prev, rev) /\ prev[p].id = NoId
  BY <1>3, PreviousFacts DEF TargetTask
<1> HIDE DEF p
<1>5. <<p, r>> \notin StableMatches(prev, rev)
  BY <1>4 DEF StableMatches
<1>6. r \in Unmarked(rev)
  BY <1>4, <1>5 DEF Matches, ExactMatches, TitleMatches
<1> QED
  BY <1>3, <1>4, <1>5, <1>6 DEF Matches, Unmarked, p

\* Checkboxes do not touch identities.
LEMMA SameIdentities ==
    ASSUME NEW prev, NEW tasks, DOMAIN tasks = DOMAIN prev,
           \A p \in DOMAIN prev : tasks[p].id = prev[p].id
                                  /\ Fingerprint(tasks[p]) = Fingerprint(prev[p])
    PROVE  /\ Unmarked(tasks) = Unmarked(prev)
           /\ Markers(tasks) = Markers(prev)
           /\ \A p \in DOMAIN prev : \A prefix : Identity(tasks, p, prefix) = Identity(prev, p, prefix)
<1>1. Unmarked(tasks) = Unmarked(prev) /\ Markers(tasks) = Markers(prev)
  BY DEF Unmarked, Markers
<1>2. ASSUME NEW p \in DOMAIN prev
      PROVE  {j \in Alike(tasks, p) : j <= p} = {j \in Alike(prev, p) : j <= p}
  BY <1>1, <1>2 DEF Alike, Unmarked
<1>3. \A p \in DOMAIN prev : Occurrence(tasks, p) = Occurrence(prev, p)
  BY <1>2 DEF Occurrence
<1> QED
  BY <1>1, <1>3 DEF Identity

\* The second reconciliation too derives identities of its own.
LEMMA FreshSecond ==
    ASSUME NEW prev, NEW rev, NEW w, NEW invalid, NEW revision, Listed(prev), Listed(rev),
           Reconcile(prev, rev, w, Pending(prev), invalid, revision) # NoRevision,
           FreshIdentities(prev, rev, revision),
           NEW tasks, DOMAIN tasks = DOMAIN prev,
           \A p \in DOMAIN prev : tasks[p].id = prev[p].id
                                  /\ Fingerprint(tasks[p]) = Fingerprint(prev[p])
    PROVE  Fresh(tasks, Target(Reconcile(prev, rev, w, Pending(prev), invalid, revision).active,
                               tasks), revision)
<1> DEFINE active == Reconcile(prev, rev, w, Pending(prev), invalid, revision).active
           target == Target(active, tasks)
           from(r) == PreviousOf(Matches(prev, rev), r)
<1>1. /\ Listed(target)
      /\ DOMAIN rev \subseteq DOMAIN target
      /\ \A r \in DOMAIN rev : TargetTask(prev, rev, r, invalid, revision, target[r])
      /\ \A i \in DOMAIN target \ DOMAIN rev : \E q \in DOMAIN prev :
            /\ target[i].id = FollowUpIdentity(Identity(prev, q, "legacy"), prev[q], revision)
            /\ Fingerprint(target[i]) = Fingerprint(prev[q])
  BY TargetFacts
<1>2. UniqueIds(prev) /\ UniqueIds(rev)
  BY DEF Reconcile
<1>3. /\ Unmarked(tasks) = Unmarked(prev)
      /\ Markers(tasks) = Markers(prev)
      /\ \A p \in DOMAIN prev : Identity(tasks, p, "legacy") = Identity(prev, p, "legacy")
  BY SameIdentities
<1> HIDE DEF target
<1>4. ASSUME NEW i \in DOMAIN target, target[i].id # NoId
      PROVE  \/ target[i].id \in Markers(prev) \union Markers(rev)
             \/ \E work, n : target[i].id = <<"inserted", work, n>>
             \/ \E identity, task : target[i].id = FollowUpIdentity(identity, task, revision)
  <2>1. CASE i \notin DOMAIN rev
    BY <1>1, <2>1
  <2>2. CASE i \in DOMAIN rev /\ from(i) = 0
    <3>1. target[i].id = Identity(rev, i, "inserted")
      BY <1>1, <2>2 DEF TargetTask
    <3>2. CASE rev[i].id # NoId
      BY <2>2, <3>1, <3>2 DEF Identity, Markers
    <3>3. CASE rev[i].id = NoId
      <4>1. target[i].id = <<"inserted", Fingerprint(rev[i]), Occurrence(rev, i)>>
        BY <3>1, <3>3 DEF Identity
      <4> QED
        BY <4>1
    <3> QED
      BY <3>2, <3>3
  <2>3. CASE i \in DOMAIN rev /\ from(i) # 0
    <3>1. from(i) \in DOMAIN prev
      BY <1>2, <2>3, PreviousFacts
    <3> HIDE DEF from
    <3> QED
      BY <1>1, <1>4, <2>3, <3>1 DEF TargetTask, Markers, from
  <2> QED
    BY <2>1, <2>2, <2>3
<1>5. ASSUME NEW p \in Unmarked(tasks)
      PROVE  Identity(tasks, p, "legacy") \notin Markers(tasks) \union Markers(target)
  <2> DEFINE me == Identity(tasks, p, "legacy")
  <2>1. me = <<"legacy", Fingerprint(tasks[p]), Occurrence(tasks, p)>>
    BY DEF Identity, Unmarked
  <2>2. me \notin Markers(prev) \union Markers(rev)
    BY <1>3 DEF FreshIdentities, Unmarked
  <2> HIDE DEF me
  <2>3. \A work, n : me # <<"inserted", work, n>>
    BY <2>1
  <2>4. \A identity, task : me # FollowUpIdentity(identity, task, revision)
    BY <2>1 DEF FollowUpIdentity
  <2>5. me \notin Markers(target)
    <3> SUFFICES ASSUME NEW i \in DOMAIN target, target[i].id = me, me # NoId PROVE FALSE
      BY Zenon DEF Markers
    <3>1. \/ me \in Markers(prev) \union Markers(rev)
          \/ \E work, n : me = <<"inserted", work, n>>
          \/ \E identity, task : me = FollowUpIdentity(identity, task, revision)
      BY <1>4, Zenon
    <3> QED
      BY <2>2, <2>3, <2>4, <3>1, Zenon
  <2> QED
    BY <1>3, <2>2, <2>5 DEF me
<1>6. ASSUME NEW r \in Unmarked(target)
      PROVE  Identity(target, r, "inserted") \notin Markers(tasks)
  <2>1. target[r].id = NoId /\ r \in DOMAIN target
    BY DEF Unmarked
  <2>2. r \in DOMAIN rev
    <3>1. \A identity, task : FollowUpIdentity(identity, task, revision) # NoId
      BY DEF FollowUpIdentity, NoId
    <3> QED
      BY <1>1, <2>1, <3>1
  <2>3. r \in Unmarked(rev) /\ Fingerprint(target[r]) = Fingerprint(rev[r])
    BY <1>1, <1>2, <2>1, <2>2, TargetUnmarked DEF TargetTask
  <2>4. Occurrence(target, r) \in 1..Len(rev)
    <3>1. r \in 1..Len(rev) /\ Len(rev) \in Nat
      BY <2>2 DEF Listed
    <3> QED
      BY <1>1, <3>1, OccurrenceBounds
  <2>5. Identity(target, r, "inserted")
           = <<"inserted", Fingerprint(rev[r]), Occurrence(target, r)>>
    BY <2>1, <2>3 DEF Identity
  <2> QED
    BY <1>3, <2>3, <2>4, <2>5 DEF FreshIdentities
<1>7. \A a, b, identity : Fingerprint(a) = Fingerprint(b) =>
          FollowUpIdentity(identity, a, revision) = FollowUpIdentity(identity, b, revision)
  BY DEF FollowUpIdentity
<1>8. ASSUME NEW p \in DOMAIN prev, NEW q \in DOMAIN prev
      PROVE  FollowUpIdentity(Identity(tasks, p, "legacy"), tasks[q], revision)
                \notin Markers(tasks)
  BY <1>3, <1>7 DEF FreshIdentities
<1>9. ASSUME NEW p \in DOMAIN prev, NEW i \in DOMAIN target
      PROVE  FollowUpIdentity(Identity(tasks, p, "legacy"), target[i], revision)
                \notin Markers(tasks)
  <2>1. \/ \E r \in DOMAIN rev : Fingerprint(target[i]) = Fingerprint(rev[r])
        \/ \E q \in DOMAIN prev : Fingerprint(target[i]) = Fingerprint(prev[q])
    BY <1>1 DEF TargetTask
  <2> QED
    BY <1>3, <1>7, <2>1 DEF FreshIdentities
<1> QED
  BY <1>5, <1>6, <1>8, <1>9 DEF Fresh, target, active

\* Reconciling what the second reconciliation is given finds the matches of the first one
\* again, except where completed work was corrected: that has a follow-up now.
Again(prev, rev, revision, target) ==
    /\ Listed(prev) /\ Listed(rev) /\ Listed(target) /\ DOMAIN target = DOMAIN rev
    /\ UniqueIds(prev) /\ UniqueIds(rev) /\ UniqueIds(target)
    /\ \A r \in DOMAIN rev : TargetTask(prev, rev, r, {}, revision, target[r])

LEMMA AgainUnmarked ==
    ASSUME NEW prev, NEW rev, NEW revision, NEW target, Again(prev, rev, revision, target)
    PROVE  /\ Unmarked(target) \subseteq Unmarked(rev)
           /\ \A r \in DOMAIN rev : Fingerprint(target[r]) = Fingerprint(rev[r])
           /\ \A r \in Unmarked(target) : Occurrence(target, r) <= Occurrence(rev, r)
<1>1. \A r \in DOMAIN rev : Fingerprint(target[r]) = Fingerprint(rev[r])
  BY DEF Again, TargetTask
<1>2. ASSUME NEW r \in Unmarked(target)
      PROVE  r \in Unmarked(rev)
  <2>1. r \in DOMAIN rev /\ target[r].id = NoId
    BY DEF Again, Unmarked
  <2> QED
    BY <2>1, TargetUnmarked DEF Again
<1>3. ASSUME NEW r \in Unmarked(target)
      PROVE  Occurrence(target, r) <= Occurrence(rev, r)
  <2> DEFINE less == {k \in Alike(target, r) : k <= r}
             more == {k \in Alike(rev, r) : k <= r}
  <2>1. less \subseteq more
    BY <1>1, <1>2 DEF Alike, Unmarked, Again
  <2>2. IsFiniteSet(more)
    <3>1. IsFiniteSet(1..Len(rev)) /\ more \subseteq 1..Len(rev)
      BY FS_Interval DEF Again, Listed, Alike, Unmarked
    <3> QED
      BY <3>1, FS_Subset
  <2>3. Cardinality(less) <= Cardinality(more)
    BY <2>1, <2>2, FS_Subset
  <2> QED
    BY <2>3 DEF Occurrence
<1> QED
  BY <1>1, <1>2, <1>3

\* Work that is matched by content is matched by content again.
LEMMA ExactAgain ==
    ASSUME NEW prev, NEW rev, NEW revision, NEW target, Again(prev, rev, revision, target)
    PROVE  ExactMatches(prev, target) = ExactMatches(prev, rev)
<1> DEFINE from(r) == PreviousOf(Matches(prev, rev), r)
<1>1. /\ Unmarked(target) \subseteq Unmarked(rev)
      /\ \A r \in DOMAIN rev : Fingerprint(target[r]) = Fingerprint(rev[r])
      /\ \A r \in Unmarked(target) : Occurrence(target, r) <= Occurrence(rev, r)
  BY AgainUnmarked
<1>2. /\ \A i \in Unmarked(prev) : i \in DOMAIN prev /\ Occurrence(prev, i) \in Nat \ {0}
      /\ \A i \in Unmarked(rev) :
            i \in DOMAIN rev /\ i \in Nat /\ Occurrence(rev, i) \in Nat \ {0}
  <2>1. \A i \in Unmarked(prev) : i \in Nat /\ Occurrence(prev, i) \in 1..i
    BY OccurrenceBounds DEF Unmarked, Again, Listed
  <2>2. \A i \in Unmarked(rev) : i \in Nat /\ Occurrence(rev, i) \in 1..i
    BY OccurrenceBounds DEF Unmarked, Again, Listed
  <2> QED
    BY <2>1, <2>2 DEF Unmarked
<1>3. ASSUME NEW m \in ExactMatches(prev, rev)
      PROVE  m[2] \in Unmarked(target)
  <2>1. /\ m[1] \in Unmarked(prev) /\ m[2] \in Unmarked(rev)
        /\ Fingerprint(prev[m[1]]) = Fingerprint(rev[m[2]])
    BY DEF ExactMatches
  <2>2. m[1] # 0 /\ from(m[2]) = m[1]
    <3>1. m \in Matches(prev, rev)
      BY DEF Matches
    <3> QED
      BY <3>1, MatchIsUsed DEF Again
  <2>3. ~Corrects(prev, rev, m[1], m[2], {})
    BY <2>1 DEF Corrects
  <2>4. target[m[2]].id = prev[m[1]].id
    BY <1>2, <2>1, <2>2, <2>3 DEF Again, TargetTask
  <2> QED
    BY <1>2, <2>1, <2>4 DEF Unmarked, Again
<1>4. ASSUME NEW m \in ExactMatches(prev, rev)
      PROVE  m \in ExactMatches(prev, target)
  <2> DEFINE p == m[1]
             i == m[2]
  <2>1. /\ m = <<p, i>> /\ p \in Unmarked(prev) /\ i \in Unmarked(rev)
        /\ Fingerprint(prev[p]) = Fingerprint(rev[i])
        /\ Occurrence(prev, p) = Occurrence(rev, i)
    BY DEF ExactMatches
  <2>2. i \in Unmarked(target)
    BY <1>3
  <2> HIDE DEF p, i
  <2>3. ASSUME NEW k \in Alike(rev, i), k <= i
        PROVE  k \in Unmarked(target)
    <3>1. k \in Unmarked(rev) /\ Fingerprint(rev[k]) = Fingerprint(rev[i])
      BY DEF Alike
    <3>2. Occurrence(rev, k) <= Occurrence(rev, i)
      <4>1. CASE k = i
        BY <1>2, <2>1, <4>1
      <4>2. CASE k < i
        <5>1. Occurrence(rev, k) < Occurrence(rev, i)
          BY <2>1, <3>1, <4>2, OccurrenceGrows DEF Again
        <5> QED
          BY <1>2, <2>1, <3>1, <5>1
      <4> QED
        BY <1>2, <2>1, <2>3, <3>1, <4>1, <4>2
    <3>3. PICK q \in Alike(prev, p) : Occurrence(prev, q) = Occurrence(rev, k)
      BY <1>2, <2>1, <3>1, <3>2, OccurrenceOnto DEF Again
    <3>4. <<q, k>> \in ExactMatches(prev, rev)
      BY <2>1, <3>1, <3>3 DEF ExactMatches, Alike
    <3> QED
      BY <1>3, <3>4
  <2>4. {k \in Alike(target, i) : k <= i} = {k \in Alike(rev, i) : k <= i}
    <3>1. ASSUME NEW k \in Alike(target, i) PROVE k \in Alike(rev, i)
      BY <1>1, <1>2, <2>1 DEF Alike
    <3>2. ASSUME NEW k \in Alike(rev, i), k <= i PROVE k \in Alike(target, i)
      <4>1. k \in Unmarked(target)
        BY <2>3, <3>2
      <4> QED
        BY <1>1, <1>2, <2>1, <4>1 DEF Alike
    <3> QED
      BY <3>1, <3>2
  <2>5. Occurrence(target, i) = Occurrence(rev, i)
    BY <2>4 DEF Occurrence
  <2> QED
    BY <1>1, <1>2, <2>1, <2>2, <2>5 DEF ExactMatches
<1>5. ASSUME NEW m \in ExactMatches(prev, target)
      PROVE  m \in ExactMatches(prev, rev)
  <2> DEFINE q == m[1]
             j == m[2]
  <2>1. /\ m = <<q, j>> /\ q \in Unmarked(prev) /\ j \in Unmarked(target)
        /\ Fingerprint(prev[q]) = Fingerprint(target[j])
        /\ Occurrence(prev, q) = Occurrence(target, j)
    BY DEF ExactMatches
  <2> HIDE DEF q, j
  <2>2. j \in Unmarked(rev) /\ Fingerprint(target[j]) = Fingerprint(rev[j])
    BY <1>1, <1>2, <2>1
  <2>3. PICK k \in Alike(rev, j) : Occurrence(rev, k) = Occurrence(prev, q)
    <3>1. Occurrence(prev, q) <= Occurrence(rev, j)
      BY <1>1, <2>1
    <3> QED
      BY <1>2, <2>1, <2>2, <3>1, OccurrenceOnto DEF Again
  <2>4. <<q, k>> \in ExactMatches(prev, rev)
    BY <2>1, <2>2, <2>3 DEF ExactMatches, Alike
  <2>5. <<q, k>> \in Matches(prev, target) /\ <<q, j>> \in Matches(prev, target)
    BY <1>4, <2>1, <2>4 DEF Matches
  <2>6. k = j
    BY <2>5, MatchesOneToOne DEF Again
  <2> QED
    BY <2>1, <2>4, <2>6
<1> QED
  BY <1>4, <1>5

\* So is work that is matched by its title.
LEMMA TitleAgain ==
    ASSUME NEW prev, NEW rev, NEW revision, NEW target, Again(prev, rev, revision, target),
           NEW m \in TitleMatches(prev, rev), m[2] \in Unmarked(target)
    PROVE  m \in TitleMatches(prev, target)
<1> DEFINE left  == Unmarked(prev) \ {n[1] : n \in ExactMatches(prev, rev)}
           right == Unmarked(rev)  \ {n[2] : n \in ExactMatches(prev, rev)}
           still == Unmarked(target)  \ {n[2] : n \in ExactMatches(prev, rev)}
<1>1. ExactMatches(prev, target) = ExactMatches(prev, rev)
  BY ExactAgain
<1>2. still \subseteq right
  BY AgainUnmarked
<1>3. \A r \in right : target[r].title = rev[r].title
  BY AgainUnmarked DEF Fingerprint, Unmarked
<1>4. /\ m \in left \X right
      /\ prev[m[1]].title = rev[m[2]].title
      /\ \A p \in left  : prev[p].title = rev[m[2]].title => p = m[1]
      /\ \A r \in right : rev[r].title = prev[m[1]].title => r = m[2]
  BY DEF TitleMatches
<1>5. m \in left \X still
  BY <1>4
<1> HIDE DEF left, right, still
<1>6. /\ prev[m[1]].title = target[m[2]].title
      /\ \A p \in left  : prev[p].title = target[m[2]].title => p = m[1]
      /\ \A r \in still : target[r].title = prev[m[1]].title => r = m[2]
  BY <1>2, <1>3, <1>4
<1> QED
  BY <1>1, <1>5, <1>6 DEF TitleMatches, left, still

LEMMA MatchAgain ==
    ASSUME NEW prev, NEW rev, NEW revision, NEW target, Again(prev, rev, revision, target),
           Fresh(prev, rev, revision), NEW i \in DOMAIN rev
    PROVE  LET p == PreviousOf(Matches(prev, rev), i)
           IN  PreviousOf(Matches(prev, target), i)
                  = IF p # 0 /\ ~Corrects(prev, rev, p, i, {}) THEN p ELSE 0
<1> DEFINE p == PreviousOf(Matches(prev, rev), i)
           q == PreviousOf(Matches(prev, target), i)
           kept == p # 0 /\ ~Corrects(prev, rev, p, i, {})
<1>1. /\ Listed(prev) /\ Listed(rev) /\ Listed(target) /\ i \in DOMAIN target
      /\ UniqueIds(prev) /\ UniqueIds(rev) /\ UniqueIds(target)
      /\ TargetTask(prev, rev, i, {}, revision, target[i])
  BY DEF Again
<1>2. p # 0 => p \in DOMAIN prev /\ <<p, i>> \in Matches(prev, rev)
  BY <1>1, PreviousFacts
<1>3. q # 0 => q \in DOMAIN prev /\ <<q, i>> \in Matches(prev, target)
  BY <1>1, PreviousFacts
<1>4. CASE kept
  <2>1. target[i].id = prev[p].id
    BY <1>1, <1>4 DEF TargetTask
  <2>2. <<p, i>> \in Matches(prev, target)
    <3>1. CASE prev[p].id # NoId
      BY <1>1, <1>2, <1>4, <2>1, <3>1 DEF Matches, StableMatches
    <3>2. CASE prev[p].id = NoId
      <4>1. i \in Unmarked(target)
        BY <1>1, <2>1, <3>2 DEF Unmarked
      <4>2. <<p, i>> \in ExactMatches(prev, rev) \union TitleMatches(prev, rev)
        BY <1>2, <1>4, <3>2 DEF Matches, StableMatches
      <4> HIDE DEF p
      <4> QED
        BY <4>1, <4>2, ExactAgain, TitleAgain DEF Matches
    <3> QED
      BY <3>1, <3>2
  <2> HIDE DEF p, q
  <2>3. PreviousOf(Matches(prev, target), i) = p
    BY <1>1, <2>2, MatchIsUsed
  <2> QED
    BY <1>4, <2>3 DEF p
<1>5. CASE ~kept
  <2> SUFFICES ASSUME q # 0 PROVE FALSE
    BY <1>5
  <2>1. target[i].id # NoId
    BY <1>1, <1>5, TargetUnmarked
  <2>2. prev[q].id = target[i].id
    <3>1. i \notin Unmarked(target)
      BY <2>1 DEF Unmarked
    <3>2. <<q, i>> \in StableMatches(prev, target)
      BY <1>3, <3>1 DEF Matches, ExactMatches, TitleMatches
    <3> QED
      BY <3>2 DEF StableMatches
  <2>3. target[i].id \in Markers(prev)
    BY <1>3, <2>1, <2>2 DEF Markers
  <2>4. CASE p = 0
    <3>1. target[i].id = Identity(rev, i, "inserted")
      BY <1>1, <2>4 DEF TargetTask
    <3>2. i \notin Unmarked(rev)
      BY <2>3, <3>1 DEF Fresh
    <3>3. rev[i].id = prev[q].id /\ rev[i].id # NoId
      BY <2>1, <2>2, <3>1, <3>2 DEF Unmarked, Identity
    <3>4. <<q, i>> \in Matches(prev, rev)
      BY <1>3, <3>3 DEF Matches, StableMatches
    <3> HIDE DEF q
    <3>5. q # 0 /\ p = q
      BY <1>1, <3>4, MatchIsUsed
    <3> QED
      BY <2>4, <3>5
  <2>5. CASE p # 0
    <3>1. target[i].id = FollowUpIdentity(Identity(prev, p, "legacy"), rev[i], revision)
      BY <1>1, <1>5, <2>5 DEF TargetTask
    <3> QED
      BY <1>2, <2>3, <2>5, <3>1 DEF Fresh
  <2> QED
    BY <2>4, <2>5
<1> QED
  BY <1>4, <1>5

\* The plan that is installed is the plan that was reported.
LEMMA ReconcileAgain ==
    ASSUME NEW prev, NEW rev, NEW w, NEW worker, NEW revision, Listed(prev), Listed(rev),
           FreshIdentities(prev, rev, revision),
           NEW out, out = Reconcile(prev, rev, w, Pending(prev), {}, revision),
           out # NoRevision,
           NEW again,
           again = Reconcile(prev, Target(out.active, prev), worker, Pending(prev), {}, revision),
           again # NoRevision
    PROVE  Render(again.active) = Render(out.active)
<1> DEFINE states == Pending(prev)
           target == Target(out.active, prev)
<1>1. \A q \in DOMAIN prev : states[q] = "pending"
  BY DEF Pending
<1>2. /\ Listed(target) /\ DOMAIN target = DOMAIN out.active
      /\ \A r \in DOMAIN rev : TargetTask(prev, rev, r, {}, revision, target[r])
  BY TargetFacts
<1>3. /\ out = Reconcile(prev, rev, w, states, {}, revision)
      /\ again = Reconcile(prev, target, worker, states, {}, revision)
  OBVIOUS
<1> HIDE DEF states, target
<1>4. /\ UniqueIds(prev) /\ UniqueIds(rev) /\ DOMAIN out.active = DOMAIN rev
      /\ \A r \in DOMAIN rev :
            out.active[r] = ActiveOf(prev, rev, r, w, states, {}, revision)
  BY <1>3, ReconcileFacts
<1>5. /\ UniqueIds(target) /\ DOMAIN again.active = DOMAIN target
      /\ \A r \in DOMAIN target :
            again.active[r] = ActiveOf(prev, target, r, worker, states, {}, revision)
  BY <1>2, <1>3, ReconcileFacts
<1>6. Again(prev, rev, revision, target)
  BY <1>2, <1>4, <1>5 DEF Again
<1>7. Fresh(prev, rev, revision)
  BY FreshFirst
<1>8. ASSUME NEW i \in DOMAIN rev
      PROVE  /\ again.active[i].identity = out.active[i].identity
             /\ again.active[i].title = out.active[i].title
             /\ again.active[i].body = out.active[i].body
             /\ (again.active[i].state = "completed") = (out.active[i].state = "completed")
  <2> DEFINE a == out.active[i]
             b == again.active[i]
             p == PreviousOf(Matches(prev, rev), i)
             q == PreviousOf(Matches(prev, target), i)
             me == Identity(prev, p, "legacy")
  <2>1. a = ActiveOf(prev, rev, i, w, states, {}, revision)
    BY <1>4
  <2>2. b = ActiveOf(prev, target, i, worker, states, {}, revision)
    BY <1>2, <1>4, <1>5
  <2>3. TargetTask(prev, rev, i, {}, revision, target[i])
    BY <1>2
  <2>4. target[i].title = rev[i].title /\ target[i].body = rev[i].body
    BY <2>3 DEF TargetTask, Fingerprint
  <2>5. q = IF p # 0 /\ ~Corrects(prev, rev, p, i, {}) THEN p ELSE 0
    BY <1>6, <1>7, MatchAgain
  <2>6. p # 0 => p \in DOMAIN prev
    BY <1>4, PreviousFacts
  <2> HIDE DEF a, b
  <2>7. CASE p # 0 /\ ~Corrects(prev, rev, p, i, {})
    <3> DEFINE s == PreviousState(prev, p, w, states)
               t == PreviousState(prev, p, worker, states)
    <3>1. a = MatchedItem(prev, rev, p, i, s, {}, revision)
      BY <2>1, <2>7 DEF ActiveOf
    <3>2. b = MatchedItem(prev, target, p, i, t, {}, revision)
      BY <2>2, <2>5, <2>7 DEF ActiveOf
    <3>3. (s = "completed" <=> prev[p].done) /\ (t = "completed" <=> prev[p].done)
      BY <1>1, <2>6, <2>7 DEF PreviousState
    <3>4. Fingerprint(target[i]) = Fingerprint(rev[i])
      BY <2>3 DEF TargetTask
    <3> HIDE DEF s, t, p, q
    <3>5. CASE Fingerprint(prev[p]) = Fingerprint(rev[i])
      <4>1. a = Item(Identity(prev, p, "legacy"), rev[i], s, "unchanged", p, i)
        BY <3>1, <3>5 DEF MatchedItem
      <4>2. b = Item(Identity(prev, p, "legacy"), target[i], t, "unchanged", p, i)
        BY <3>2, <3>4, <3>5 DEF MatchedItem
      <4> QED
        BY <2>4, <3>3, <4>1, <4>2 DEF Item, a, b
    <3>6. CASE Fingerprint(prev[p]) # Fingerprint(rev[i])
      <4>1. s # "completed" /\ t # "completed"
        BY <2>7, <3>3, <3>6 DEF Corrects
      <4>2. a = Item(Identity(prev, p, "legacy"), rev[i], "pending", "modified", p, i)
        BY <3>1, <3>6, <4>1 DEF MatchedItem
      <4>3. b = Item(Identity(prev, p, "legacy"), target[i], "pending", "modified", p, i)
        BY <3>2, <3>4, <3>6, <4>1 DEF MatchedItem
      <4> QED
        BY <2>4, <4>2, <4>3 DEF Item, a, b
    <3> QED
      BY <3>5, <3>6
  <2>8. CASE ~(p # 0 /\ ~Corrects(prev, rev, p, i, {}))
    <3>1. b = Item(Identity(target, i, "inserted"), target[i], "pending", "inserted", 0, i)
      BY <2>2, <2>5, <2>8 DEF ActiveOf, Inserted
    <3>2. target[i].id # NoId
      BY <1>4, <2>3, <2>8, TargetUnmarked
    <3>3. b.identity = target[i].id /\ b.state = "pending"
          /\ b.title = rev[i].title /\ b.body = rev[i].body
      BY <2>4, <3>1, <3>2 DEF Item, Identity
    <3>4. CASE p = 0
      <4>1. a = Item(Identity(rev, i, "inserted"), rev[i], "pending", "inserted", 0, i)
        BY <2>1, <3>4 DEF ActiveOf, Inserted
      <4>2. target[i].id = Identity(rev, i, "inserted")
        BY <2>3, <3>4 DEF TargetTask
      <4> QED
        BY <3>3, <4>1, <4>2 DEF Item, a, b
    <3>5. CASE p # 0
      <4> DEFINE s == PreviousState(prev, p, w, states)
      <4>1. Corrects(prev, rev, p, i, {})
        BY <2>8, <3>5
      <4>2. a = MatchedItem(prev, rev, p, i, s, {}, revision)
        BY <2>1, <3>5 DEF ActiveOf
      <4>3. s = "completed"
        BY <4>1 DEF PreviousState, Corrects
      <4>4. target[i].id = FollowUpIdentity(me, rev[i], revision)
        BY <2>3, <3>5, <4>1 DEF TargetTask
      <4> HIDE DEF p, q, s
      <4>5. a = Item(FollowUpIdentity(me, rev[i], revision), rev[i], "pending", "follow_up", p, i)
        BY <4>1, <4>2, <4>3 DEF MatchedItem, Corrects
      <4> QED
        BY <3>3, <4>4, <4>5 DEF Item, a, b
    <3> QED
      BY <3>4, <3>5
  <2> QED
    BY <2>7, <2>8 DEF a, b
<1> QED
  BY <1>2, <1>4, <1>5, <1>8 DEF Render

-----------------------------------------------------------------------------
(* The invariant.                                                           *)
\* The plan of the moment is the one that was shown, with more checkboxes set.
PlansInv ==
    /\ Listed(base) /\ Listed(current) /\ Listed(proposal)
    /\ DOMAIN current = DOMAIN base
    /\ \A i \in DOMAIN base :
          /\ current[i].id = base[i].id
          /\ Fingerprint(current[i]) = Fingerprint(base[i])
          /\ base[i].done => current[i].done
          /\ "done" \in DOMAIN current[i]
    /\ running \in {0} \union Undone(current)

\* The first reconciliation saw the worker that runs now, unless a task completed since.
GeneratedInv ==
    generated # NoRevision =>
        \E w : /\ generated = Reconcile(base, proposal, w, Pending(base), invalidated, 1)
               /\ current = base => w = running

\* The second one saw what is there now: nothing changes after it.
AppliedInv ==
    applied # NoRevision =>
        /\ generated # NoRevision
        /\ applied = Reconcile(current, Target(generated.active, current), running,
                               Pending(current), {}, 1)

RevisionInv == PlansInv /\ GeneratedInv /\ AppliedInv

\* A valid document is a list.
LEMMA ValidFacts ==
    ASSUME NEW tasks, Valid(tasks)
    PROVE  /\ Listed(tasks)
           /\ \A i \in DOMAIN tasks :
                 /\ DOMAIN tasks[i] = {"id", "title", "body", "done"}
                 /\ tasks[i].done \in BOOLEAN
<1> DEFINE n == Len(tasks)
           task(i) == [id |-> tasks[i].id, title |-> tasks[i].title,
                       body |-> tasks[i].body, done |-> tasks[i].done]
<1>1. n \in Nat /\ tasks = [i \in 1..n |-> task(i)] /\ \A i \in 1..n : tasks[i].done \in BOOLEAN
  BY DEF Valid
<1> HIDE DEF n, task
<1>2. DOMAIN tasks = 1..n /\ \A i \in 1..n : tasks[i] = task(i)
  BY <1>1
<1> QED
  BY <1>1, <1>2 DEF Listed, n, task

LEMMA RevisionInvInit == RevisionInit => RevisionInv
<1> SUFFICES ASSUME RevisionInit PROVE RevisionInv
  OBVIOUS
<1>1. Valid(base) /\ Valid(proposal)
  BY RevisionAssumption DEF RevisionInit
<1>2. PlansInv
  BY <1>1, ValidFacts DEF RevisionInit, PlansInv
<1> QED
  BY <1>2 DEF RevisionInit, RevisionInv, GeneratedInv, AppliedInv

LEMMA RevisionInvStep == RevisionInv /\ [RevisionNext]_revisionVars => RevisionInv'
<1> SUFFICES ASSUME RevisionInv, [RevisionNext]_revisionVars PROVE RevisionInv'
  OBVIOUS
<1> USE DEF RevisionInv
<1>1. CASE Generate
  <2>1. PlansInv'
    BY <1>1 DEF Generate, PlansInv, Undone
  <2>2. GeneratedInv'
    BY <1>1 DEF Generate, GeneratedInv
  <2>3. AppliedInv'
    BY <1>1 DEF Generate, AppliedInv
  <2> QED
    BY <2>1, <2>2, <2>3
<1>2. CASE CompleteMeanwhile
  <2>1. PICK i \in Undone(current) :
           current' = [current EXCEPT ![i] = [current[i] EXCEPT !.done = TRUE]]
    BY <1>2 DEF CompleteMeanwhile
  <2>2. /\ i \in DOMAIN base /\ ~current[i].done /\ ~base[i].done
        /\ "done" \in DOMAIN current[i] /\ Fingerprint(current[i]) = Fingerprint(base[i])
    BY DEF PlansInv, Undone
  <2>3. /\ current'[i].done /\ "done" \in DOMAIN current'[i]
        /\ Fingerprint(current'[i]) = Fingerprint(base[i])
        /\ current'[i].id = base[i].id
    <3>1. current'[i] = [current[i] EXCEPT !.done = TRUE]
      BY <2>1, <2>2 DEF PlansInv
    <3> QED
      BY <2>2, <3>1 DEF Fingerprint, PlansInv
  <2>4. /\ DOMAIN current' = DOMAIN current
        /\ \A j \in DOMAIN base \ {i} : current'[j] = current[j]
    BY <2>1 DEF PlansInv
  <2>5. Listed(current')
    <3> DEFINE n == Len(current)
    <3>1. n \in Nat /\ DOMAIN current' = 1..n
      BY <2>4 DEF Listed, PlansInv
    <3> HIDE DEF n
    <3>2. current' = [j \in 1..n |-> current'[j]]
      BY <2>1, <3>1
    <3>3. Len(current') = n
      BY <3>1, <3>2, ListLength
    <3> QED
      BY <3>1, <3>3 DEF Listed
  <2>6. PlansInv'
    <3>1. running' \in {0} \union Undone(current')
      BY <1>2 DEF CompleteMeanwhile
    <3>2. ASSUME NEW j \in DOMAIN base
          PROVE  /\ current'[j].id = base[j].id
                 /\ Fingerprint(current'[j]) = Fingerprint(base[j])
                 /\ base[j].done => current'[j].done
                 /\ "done" \in DOMAIN current'[j]
      BY <2>2, <2>3, <2>4 DEF PlansInv
    <3>3. base' = base /\ proposal' = proposal
      BY <1>2 DEF CompleteMeanwhile
    <3> QED
      BY <2>4, <2>5, <3>1, <3>2, <3>3 DEF PlansInv, Undone
  <2>7. GeneratedInv'
    <3>1. current' # base
      BY <2>2, <2>3
    <3> QED
      BY <1>2, <3>1 DEF CompleteMeanwhile, GeneratedInv
  <2>8. AppliedInv'
    BY <1>2 DEF CompleteMeanwhile, AppliedInv
  <2> QED
    BY <2>6, <2>7, <2>8
<1>3. CASE ApplyGenerated
  <2>1. PlansInv'
    BY <1>3 DEF ApplyGenerated, PlansInv, Undone
  <2>2. GeneratedInv'
    BY <1>3 DEF ApplyGenerated, GeneratedInv
  <2>3. AppliedInv'
    BY <1>3 DEF ApplyGenerated, AppliedInv
  <2> QED
    BY <2>1, <2>2, <2>3
<1>4. CASE UNCHANGED revisionVars
  BY <1>4 DEF revisionVars, PlansInv, GeneratedInv, AppliedInv, Undone
<1> QED
  BY <1>1, <1>2, <1>3, <1>4 DEF RevisionNext

\* What the second reconciliation is given is a list too.
LEMMA TargetListed ==
    ASSUME RevisionInv, applied # NoRevision
    PROVE  Listed(Target(generated.active, current))
<1>1. PICK w : generated = Reconcile(base, proposal, w, Pending(base), invalidated, 1)
  BY DEF RevisionInv, GeneratedInv, AppliedInv
<1>2. Listed(generated.active)
  <2> DEFINE states == Pending(base)
  <2>1. generated = Reconcile(base, proposal, w, states, invalidated, 1)
    BY <1>1
  <2> HIDE DEF states
  <2>2. Reconcile(base, proposal, w, states, invalidated, 1) # NoRevision
    BY <2>1 DEF RevisionInv, AppliedInv
  <2> QED
    BY <2>1, <2>2, ReconcileFacts DEF RevisionInv, PlansInv
<1> DEFINE target == Target(generated.active, current)
           n == Len(generated.active)
<1>3. n \in Nat /\ target = [i \in 1..n |-> target[i]]
  BY <1>2 DEF Listed, Target
<1> HIDE DEF target, n
<1>4. Len(target) = n /\ DOMAIN target = 1..n
  BY <1>3, ListLength
<1> QED
  BY <1>3, <1>4 DEF Listed, target

\* CompletionEarned of every behaviour: a revision neither invents progress nor counts
\* it twice, whatever the planner proposed and whatever was completed meanwhile.
THEOREM CompletionIsEarned == RevisionSpec => []CompletionEarned
<1>1. RevisionInv => CompletionEarned
  <2> SUFFICES ASSUME RevisionInv, NEW r \in Reconciliations PROVE EarnedIn(r.prev, r.out.active)
    BY Zenon DEF CompletionEarned, EarnedIn
  <2>1. CASE /\ r = [prev |-> base, rev |-> proposal, out |-> generated]
             /\ generated # NoRevision
    <3>1. PICK w : generated = Reconcile(base, proposal, w, Pending(base), invalidated, 1)
      BY <2>1 DEF RevisionInv, GeneratedInv
    <3>2. EarnedIn(base, generated.active)
      BY <2>1, <3>1, ReconcileEarns DEF RevisionInv, PlansInv
    <3> QED
      BY <2>1, <3>2
  <2>2. CASE r.prev = current /\ r.out = applied /\ applied # NoRevision
    <3>1. applied = Reconcile(current, Target(generated.active, current), running,
                              Pending(current), {}, 1)
      BY <2>2 DEF RevisionInv, AppliedInv
    <3>2. Listed(Target(generated.active, current))
      BY <2>2, TargetListed
    <3>3. EarnedIn(current, applied.active)
      BY <2>2, <3>1, <3>2, ReconcileEarns DEF RevisionInv, PlansInv
    <3> QED
      BY <2>2, <3>3
  <2> QED
    BY <2>1, <2>2 DEF Reconciliations
<1> QED
  BY <1>1, RevisionInvInit, RevisionInvStep, PTL DEF RevisionSpec

\* RunningKeptOrStale of every behaviour: the worker of a revised plan continues with its
\* text or is stopped, never both and never neither.
THEOREM RunningIsKeptOrStale == RevisionSpec => []RunningKeptOrStale
<1>1. RevisionInv => RunningKeptOrStale
  <2> SUFFICES ASSUME RevisionInv, NEW r \in Reconciliations,
                      NEW p \in Undone(r.prev) \intersect {running},
                      r.out = applied \/ current = base
               PROVE  KeptIn(r.prev, r.out.active, p) # (p \in r.out.staleRunning)
    BY Zenon DEF RunningKeptOrStale, KeptIn
  <2>1. ASSUME applied # NoRevision, running \in DOMAIN current, ~current[running].done
        PROVE  KeptIn(current, applied.active, running) # (running \in applied.staleRunning)
    <3>1. applied = Reconcile(current, Target(generated.active, current), running,
                              Pending(current), {}, 1)
      BY <2>1 DEF RevisionInv, AppliedInv
    <3>2. Listed(Target(generated.active, current))
      BY <2>1, TargetListed
    <3> QED
      BY <2>1, <3>1, <3>2, ReconcileKeepsOrReports DEF RevisionInv, PlansInv
  <2>2. CASE /\ r.prev = base /\ r.out = generated
             /\ generated # NoRevision /\ generated # applied
    <3>1. current = base
      BY <2>2
    <3>2. generated = Reconcile(base, proposal, running, Pending(base), invalidated, 1)
      BY <2>2, <3>1 DEF RevisionInv, GeneratedInv
    <3>3. p = running /\ p \in DOMAIN base /\ ~base[p].done
      BY <2>2 DEF Undone
    <3> QED
      BY <2>2, <3>2, <3>3, ReconcileKeepsOrReports DEF RevisionInv, PlansInv
  <2>3. CASE r.prev = base /\ r.out = generated /\ generated = applied /\ applied # NoRevision
    <3>1. p = running /\ p \in DOMAIN base /\ p # 0
      BY <2>3 DEF Undone, RevisionInv, PlansInv, Listed
    <3>2. running \in DOMAIN current /\ ~current[running].done
      BY <3>1 DEF RevisionInv, PlansInv, Undone
    <3>3. Fingerprint(current[p]) = Fingerprint(base[p])
      BY <3>1 DEF RevisionInv, PlansInv
    <3>4. KeptIn(current, applied.active, p) <=> KeptIn(base, applied.active, p)
      BY <3>3 DEF KeptIn
    <3>5. KeptIn(current, applied.active, p) # (p \in applied.staleRunning)
      BY <2>1, <2>3, <3>1, <3>2
    <3> QED
      BY <2>3, <3>4, <3>5 DEF KeptIn
  <2>4. CASE r.prev = current /\ r.out = applied /\ applied # NoRevision
    <3>1. p = running /\ running \in DOMAIN current /\ ~current[running].done
      BY <2>4 DEF Undone
    <3> QED
      BY <2>1, <2>4, <3>1
  <2> QED
    BY <2>2, <2>3, <2>4 DEF Reconciliations
<1> QED
  BY <1>1, RevisionInvInit, RevisionInvStep, PTL DEF RevisionSpec

\* HistoryKept of every behaviour: completed work stays complete under its identity, or
\* becomes history while nothing else has that identity, in the generated plan and in the
\* installed one, whatever was completed in between.
THEOREM HistoryIsKept == RevisionSpec => []HistoryKept
<1>1. RevisionInv => HistoryKept
  <2> SUFFICES ASSUME RevisionInv, FreshIdentities(base, proposal, 1),
                      NEW r \in Reconciliations, NEW p \in DOMAIN r.prev, r.prev[p].done
               PROVE  HistoryIn(r.prev, r.out, p)
    BY Zenon DEF HistoryKept, HistoryIn
  <2>1. CASE /\ r = [prev |-> base, rev |-> proposal, out |-> generated]
             /\ generated # NoRevision
    <3>1. PICK w : generated = Reconcile(base, proposal, w, Pending(base), invalidated, 1)
      BY <2>1 DEF RevisionInv, GeneratedInv
    <3>2. r.prev = base /\ r.out = generated
      BY <2>1
    <3>3. Listed(base) /\ Listed(proposal)
      BY DEF RevisionInv, PlansInv
    <3>4. Fresh(base, proposal, 1)
      BY <3>3, FreshFirst
    <3>5. HistoryIn(base, generated, p)
      BY <2>1, <3>1, <3>2, <3>3, <3>4, ReconcileKeepsHistory
    <3> QED
      BY <3>2, <3>5
  <2>2. CASE r.prev = current /\ r.out = applied /\ applied # NoRevision
    <3> DEFINE target == Target(generated.active, current)
    <3>1. applied = Reconcile(current, target, running, Pending(current), {}, 1)
      BY <2>2 DEF RevisionInv, AppliedInv
    <3>2. Listed(target) /\ Listed(current)
      BY <2>2, TargetListed DEF RevisionInv, PlansInv
    <3>3. PICK w : generated = Reconcile(base, proposal, w, Pending(base), invalidated, 1)
      BY <2>2 DEF RevisionInv, GeneratedInv, AppliedInv
    <3>4. generated # NoRevision
      BY <2>2 DEF RevisionInv, AppliedInv
    <3>5. Fresh(current, target, 1)
      BY <3>3, <3>4, FreshSecond DEF RevisionInv, PlansInv
    <3> HIDE DEF target
    <3>6. HistoryIn(current, applied, p)
      BY <2>2, <3>1, <3>2, <3>5, ReconcileKeepsHistory
    <3> QED
      BY <2>2, <3>6
  <2> QED
    BY <2>1, <2>2 DEF Reconciliations
<1> QED
  BY <1>1, RevisionInvInit, RevisionInvStep, PTL DEF RevisionSpec

\* AppliedAsGenerated of every behaviour: when nothing was completed in between, the
\* document that is installed is the document that the revision reported.
THEOREM AppliedIsAsGenerated == RevisionSpec => []AppliedAsGenerated
<1>1. RevisionInv => AppliedAsGenerated
  <2> SUFFICES ASSUME RevisionInv, applied # NoRevision, current = base, invalidated = {},
                      FreshIdentities(base, proposal, 1)
               PROVE  Render(applied.active) = Render(generated.active)
    BY DEF AppliedAsGenerated
  <2>1. generated # NoRevision
    BY DEF RevisionInv, AppliedInv
  <2>2. PICK w : generated = Reconcile(base, proposal, w, Pending(base), {}, 1)
    BY <2>1 DEF RevisionInv, GeneratedInv
  <2>3. applied = Reconcile(base, Target(generated.active, base), running, Pending(base), {}, 1)
    BY DEF RevisionInv, AppliedInv
  <2> QED
    BY <2>1, <2>2, <2>3, ReconcileAgain DEF RevisionInv, PlansInv
<1> QED
  BY <1>1, RevisionInvInit, RevisionInvStep, PTL DEF RevisionSpec

-----------------------------------------------------------------------------
(* Revisions of the stored plan.                                            *)
\* The identity of a follow-up under some revision.
FollowsUp(id, n) == \E identity, work : id = <<"follow-up", identity, work, n>>

\* The tasks without a marker have an identity of their own.
Own(tasks) == \A p \in Unmarked(tasks) : Identity(tasks, p, "legacy") \notin Markers(tasks)

\* No marker of an answer is the identity of a task that was shown without a marker.
Unclaimed(shown, answer) ==
    \A p \in Unmarked(shown) : Identity(shown, p, "legacy") \notin Markers(answer)

\* The tasks of such a plan have identities of their own, marked or not.
LEMMA OwnIdentities ==
    ASSUME NEW tasks, Listed(tasks), UniqueIds(tasks), Own(tasks),
           NEW p \in DOMAIN tasks, NEW q \in DOMAIN tasks,
           Identity(tasks, p, "legacy") = Identity(tasks, q, "legacy")
    PROVE  p = q
<1>1. CASE tasks[p].id # NoId /\ tasks[q].id # NoId
  BY <1>1 DEF Identity, UniqueIds
<1>2. CASE tasks[p].id = NoId /\ tasks[q].id # NoId
  BY <1>2 DEF Identity, Own, Markers, Unmarked
<1>3. CASE tasks[p].id # NoId /\ tasks[q].id = NoId
  BY <1>3 DEF Identity, Own, Markers, Unmarked
<1>4. CASE tasks[p].id = NoId /\ tasks[q].id = NoId
  <2>1. p \in Unmarked(tasks) /\ q \in Unmarked(tasks)
    BY <1>4 DEF Unmarked
  <2>2. /\ Fingerprint(tasks[p]) = Fingerprint(tasks[q])
        /\ Occurrence(tasks, p) = Occurrence(tasks, q)
    BY <1>4 DEF Identity
  <2> QED
    BY <2>1, <2>2, OccurrenceNames
<1> QED
  BY <1>1, <1>2, <1>3, <1>4

\* Checkboxes do not touch the matching.
LEMMA SameMatches ==
    ASSUME NEW prev, NEW tasks, NEW rev, AuthorityToken(prev) = AuthorityToken(tasks)
    PROVE  /\ DOMAIN tasks = DOMAIN prev
           /\ \A p \in DOMAIN prev : /\ tasks[p].id = prev[p].id
                                     /\ tasks[p].title = prev[p].title
                                     /\ Fingerprint(tasks[p]) = Fingerprint(prev[p])
           /\ Matches(tasks, rev) = Matches(prev, rev)
<1>1. DOMAIN tasks = DOMAIN prev
  BY DEF AuthorityToken
<1>2. \A p \in DOMAIN prev : AuthorityToken(prev)[p] = <<prev[p].id, Fingerprint(prev[p])>>
  BY DEF AuthorityToken
<1>3. \A p \in DOMAIN prev : AuthorityToken(prev)[p] = <<tasks[p].id, Fingerprint(tasks[p])>>
  BY <1>1 DEF AuthorityToken
<1>4. \A p \in DOMAIN prev : /\ tasks[p].id = prev[p].id
                             /\ Fingerprint(tasks[p]) = Fingerprint(prev[p])
  BY <1>2, <1>3
<1>5. \A p \in DOMAIN prev : tasks[p].title = prev[p].title
  BY <1>4 DEF Fingerprint
<1>6. Unmarked(tasks) = Unmarked(prev)
  BY <1>1, <1>4 DEF Unmarked
<1>7. ASSUME NEW p \in Unmarked(prev)
      PROVE  Occurrence(tasks, p) = Occurrence(prev, p)
  <2>1. {j \in Alike(tasks, p) : j <= p} = {j \in Alike(prev, p) : j <= p}
    BY <1>4, <1>6 DEF Alike, Unmarked
  <2> QED
    BY <2>1 DEF Occurrence
<1>8. StableMatches(tasks, rev) = StableMatches(prev, rev)
  BY <1>1, <1>4 DEF StableMatches
<1>9. ExactMatches(tasks, rev) = ExactMatches(prev, rev)
  <2>1. \A m \in Unmarked(prev) \X Unmarked(rev) :
           /\ Fingerprint(tasks[m[1]]) = Fingerprint(prev[m[1]])
           /\ Occurrence(tasks, m[1]) = Occurrence(prev, m[1])
    BY <1>4, <1>7 DEF Unmarked
  <2> QED
    BY <1>6, <2>1 DEF ExactMatches
<1>10. TitleMatches(tasks, rev) = TitleMatches(prev, rev)
  <2>1. \A p \in Unmarked(prev) : tasks[p].title = prev[p].title
    BY <1>5 DEF Unmarked
  <2> QED
    BY <1>6, <1>9, <2>1 DEF TitleMatches
<1> QED
  BY <1>1, <1>4, <1>5, <1>8, <1>9, <1>10 DEF Matches

\* A task that is reconciled again without a marker is matched again.
LEMMA UnmarkedAgain ==
    ASSUME NEW prev, NEW rev, NEW revision, NEW target, Again(prev, rev, revision, target),
           NEW i \in Unmarked(target)
    PROVE  PreviousOf(Matches(prev, target), i) # 0
<1> DEFINE p == PreviousOf(Matches(prev, rev), i)
<1>1. i \in DOMAIN rev /\ target[i].id = NoId
  BY DEF Again, Unmarked
<1>2. <<p, i>> \in ExactMatches(prev, rev) \union TitleMatches(prev, rev)
  BY <1>1, TargetUnmarked DEF Again
<1> HIDE DEF p
<1>3. <<p, i>> \in Matches(prev, target)
  BY <1>2, ExactAgain, TitleAgain DEF Matches
<1> QED
  BY <1>3, MatchIsUsed DEF Again

\* A revision of the stored plan: the store knows of no attempts and invalidates nothing.
RevisionOf(prev, rev, worker, number) ==
    Reconcile(prev, rev, worker, Pending(prev), {}, number)

\* What a revision leaves of the plan: completion is earned, completed work keeps its
\* text under its identity, every task has an identity, and the follow-ups of other
\* revisions were known.
RevisionSound(tasks, answer, active, number) ==
    /\ UniqueIds(tasks) /\ Listed(active)
    /\ EarnedIn(tasks, active)
    /\ \A i \in DOMAIN tasks, j \in DOMAIN active :
          tasks[i].done /\ active[j].identity = Identity(tasks, i, "legacy") =>
             /\ active[j].state = "completed"
             /\ Fingerprint(active[j]) = Fingerprint(tasks[i])
    /\ \A j \in DOMAIN active :
          /\ active[j].identity # NoId
          /\ \A n : FollowsUp(active[j].identity, n) /\ n # number =>
                   active[j].identity \in Markers(tasks) \union Markers(answer)

\* What an accepted revision makes of the plan, which is the plan it was generated for
\* but for checkboxes.
LEMMA RevisedPlan ==
    ASSUME NEW shown, NEW answer, NEW worker, NEW number, Listed(shown), Listed(answer),
           NEW out, out = RevisionOf(shown, answer, worker, number),
           out # NoRevision,
           NEW tasks, Listed(tasks), AuthorityToken(shown) = AuthorityToken(tasks),
           Own(tasks), Unclaimed(shown, answer),
           \A i \in DOMAIN tasks : ~FollowsUp(tasks[i].id, number),
           NEW now, NEW again,
           again = RevisionOf(tasks, Target(out.active, tasks), now, number),
           again # NoRevision
    PROVE  RevisionSound(tasks, answer, again.active, number)
<1> DEFINE states == Pending(tasks)
           target == Target(out.active, tasks)
<1> USE DEF RevisionOf
<1>1. /\ DOMAIN tasks = DOMAIN shown
      /\ \A p \in DOMAIN shown : /\ tasks[p].id = shown[p].id
                                /\ Fingerprint(tasks[p]) = Fingerprint(shown[p])
  BY SameMatches
<1>2. /\ Listed(target) /\ DOMAIN target = DOMAIN out.active
      /\ \A r \in DOMAIN answer : TargetTask(shown, answer, r, {}, number, target[r])
  BY <1>1, TargetFacts
<1>3. EarnedIn(tasks, again.active)
  BY <1>2, ReconcileEarns
<1>4. again = Reconcile(tasks, target, now, states, {}, number)
  OBVIOUS
<1> HIDE DEF states, target
<1>5. UniqueIds(shown) /\ UniqueIds(answer) /\ DOMAIN out.active = DOMAIN answer
  <2> DEFINE opinion == Pending(shown)
  <2>1. out = Reconcile(shown, answer, worker, opinion, {}, number)
    OBVIOUS
  <2> HIDE DEF opinion
  <2> QED
    BY <2>1, ReconcileFacts
<1>6. /\ UniqueIds(tasks) /\ UniqueIds(target)
      /\ Listed(again.active) /\ DOMAIN again.active = DOMAIN target
      /\ \A r \in DOMAIN target :
            again.active[r] = ActiveOf(tasks, target, r, now, states, {}, number)
  BY <1>2, <1>4, ReconcileFacts
<1>7. Again(shown, answer, number, target)
  BY <1>2, <1>5, <1>6 DEF Again
<1>8. Matches(tasks, target) = Matches(shown, target)
  BY SameMatches
<1>16. ASSUME NEW i \in Unmarked(tasks), NEW j \in DOMAIN answer
       PROVE  target[j].id # Identity(tasks, i, "legacy")
  <2> DEFINE p  == PreviousOf(Matches(shown, answer), j)
             me == Identity(tasks, i, "legacy")
  <2>1. TargetTask(shown, answer, j, {}, number, target[j])
    BY <1>2
  <2>2. me = <<"legacy", Fingerprint(tasks[i]), Occurrence(tasks, i)>>
    BY DEF Identity, Unmarked
  <2>3. me \notin Markers(tasks) /\ me \notin Markers(answer)
    <3>1. i \in DOMAIN shown
      BY <1>1 DEF Unmarked
    <3>2. i \in Unmarked(shown)
      BY <1>1, <3>1 DEF Unmarked
    <3>3. Identity(shown, i, "legacy") = me
      BY <1>1, <3>1, SameIdentities
    <3> QED
      BY <3>2, <3>3 DEF Own, Unclaimed
  <2> SUFFICES target[j].id # me
    OBVIOUS
  <2> HIDE DEF me
  <2>4. CASE p = 0
    <3>1. target[j].id = Identity(answer, j, "inserted")
      BY <2>1, <2>4 DEF TargetTask
    <3>2. CASE answer[j].id = NoId
      BY <2>2, <3>1, <3>2 DEF Identity
    <3>3. CASE answer[j].id # NoId
      BY <2>3, <3>1, <3>3 DEF Identity, Markers
    <3> QED
      BY <3>2, <3>3
  <2>5. CASE p # 0 /\ ~Corrects(shown, answer, p, j, {})
    <3>1. target[j].id = shown[p].id /\ p \in DOMAIN shown
      BY <1>5, <2>1, <2>5, PreviousFacts DEF TargetTask
    <3> HIDE DEF p
    <3>2. target[j].id \in Markers(tasks) \union {NoId}
      BY <1>1, <3>1 DEF Markers
    <3>3. me # NoId
      BY <2>2 DEF NoId
    <3> QED
      BY <2>3, <3>2, <3>3
  <2>6. CASE p # 0 /\ Corrects(shown, answer, p, j, {})
    <3>1. target[j].id = FollowUpIdentity(Identity(shown, p, "legacy"), answer[j], number)
      BY <2>1, <2>6 DEF TargetTask
    <3> QED
      BY <2>2, <3>1 DEF FollowUpIdentity
  <2> QED
    BY <2>4, <2>5, <2>6
<1>9. ASSUME NEW i \in DOMAIN tasks, NEW j \in DOMAIN target,
             tasks[i].done, again.active[j].identity = Identity(tasks, i, "legacy")
      PROVE  /\ again.active[j].state = "completed"
             /\ Fingerprint(again.active[j]) = Fingerprint(tasks[i])
  <2> DEFINE item == again.active[j]
             q == PreviousOf(Matches(tasks, target), j)
             s == PreviousState(tasks, q, now, states)
             me == Identity(tasks, q, "legacy")
             mine == Identity(tasks, i, "legacy")
  <2>1. item = ActiveOf(tasks, target, j, now, states, {}, number)
    BY <1>6
  <2> HIDE DEF item
  <2>2. q # 0
    <3> SUFFICES ASSUME q = 0 PROVE FALSE
      OBVIOUS
    <3>1. target[j].id # NoId
      BY <1>7, <1>8, UnmarkedAgain DEF Unmarked
    <3>2. item.identity = target[j].id
      BY <2>1, <3>1 DEF ActiveOf, Inserted, Item, Identity
    <3>5. tasks[i].id # NoId
      <4>1. j \in DOMAIN answer
        BY <1>2, <1>5
      <4> QED
        BY <1>9, <1>16, <3>2, <4>1 DEF item, Unmarked
    <3>6. target[j].id = tasks[i].id
      BY <1>9, <3>2, <3>5 DEF item, Identity
    <3>3. <<i, j>> \in Matches(tasks, target)
      BY <3>1, <3>6 DEF Matches, StableMatches
    <3>4. i # 0 /\ q = i
      BY <1>2, <1>6, <3>3, MatchIsUsed
    <3> QED
      BY <3>4
  <2>3. q \in DOMAIN tasks
    BY <1>2, <1>6, <2>2, PreviousFacts
  <2>4. item = MatchedItem(tasks, target, q, j, s, {}, number)
    BY <2>1, <2>2 DEF ActiveOf
  <2> HIDE DEF q, s
  <2>5. mine # FollowUpIdentity(me, target[j], number)
    <3>1. CASE tasks[i].id = NoId
      BY <3>1 DEF FollowUpIdentity, Identity
    <3>2. CASE tasks[i].id # NoId
      <4>1. mine = tasks[i].id
        BY <3>2 DEF Identity
      <4> QED
        BY <4>1 DEF FollowUpIdentity, FollowsUp
    <3> QED
      BY <3>1, <3>2
  <2>12. item.identity = mine
    BY <1>9 DEF item
  <2> HIDE DEF mine
  <2>6. mine = me
    BY <2>4, <2>5, <2>12 DEF MatchedItem, Item
  <2>7. q = i
    BY <1>6, <1>9, <2>3, <2>6, OwnIdentities DEF mine
  <2>8. s = "completed"
    BY <1>9, <2>7 DEF s, PreviousState
  <2>9. Fingerprint(tasks[q]) = Fingerprint(target[j])
    <3> SUFFICES ASSUME Fingerprint(tasks[q]) # Fingerprint(target[j]) PROVE FALSE
      OBVIOUS
    <3>1. item = Item(FollowUpIdentity(me, target[j], number), target[j], "pending",
                      "follow_up", q, j)
      BY <2>4, <2>8 DEF MatchedItem
    <3> QED
      BY <2>5, <2>12, <3>1 DEF Item
  <2>10. item = Item(me, target[j], s, "unchanged", q, j)
    BY <2>4, <2>9 DEF MatchedItem
  <2>11. item.state = s /\ Fingerprint(item) = Fingerprint(target[j])
    BY <2>10 DEF Item, Fingerprint
  <2> QED
    BY <2>7, <2>8, <2>9, <2>11 DEF item
<1>10. \A work, n : <<"inserted", work, n>> # NoId /\ <<"legacy", work, n>> # NoId
  BY DEF NoId
<1>11. \A identity, task : FollowUpIdentity(identity, task, number) # NoId
  BY DEF FollowUpIdentity, NoId
<1>12. \A work, k, n : /\ ~FollowsUp(<<"inserted", work, k>>, n)
                       /\ ~FollowsUp(<<"legacy", work, k>>, n)
  BY DEF FollowsUp
<1>13. \A identity, task, n : FollowsUp(FollowUpIdentity(identity, task, number), n) => n = number
  BY DEF FollowsUp, FollowUpIdentity
<1> DEFINE Known(id) == \A n : FollowsUp(id, n) /\ n # number =>
                            id \in Markers(tasks) \union Markers(answer)
<1>14. ASSUME NEW j \in DOMAIN answer, target[j].id # NoId
       PROVE  Known(target[j].id)
  <2> DEFINE p == PreviousOf(Matches(shown, answer), j)
  <2>1. TargetTask(shown, answer, j, {}, number, target[j])
    BY <1>2
  <2>2. CASE p = 0
    <3>1. target[j].id = Identity(answer, j, "inserted")
      BY <2>1, <2>2 DEF TargetTask
    <3>2. CASE answer[j].id = NoId
      <4>1. target[j].id = <<"inserted", Fingerprint(answer[j]), Occurrence(answer, j)>>
        BY <3>1, <3>2 DEF Identity
      <4> QED
        BY <1>12, <4>1
    <3>3. CASE answer[j].id # NoId
      BY <3>1, <3>3 DEF Identity, Markers
    <3> QED
      BY <3>2, <3>3
  <2>3. CASE p # 0 /\ ~Corrects(shown, answer, p, j, {})
    <3>1. target[j].id = shown[p].id /\ p \in DOMAIN shown
      BY <1>5, <2>1, <2>3, PreviousFacts DEF TargetTask
    <3> HIDE DEF p
    <3>2. target[j].id \in Markers(tasks)
      BY <1>1, <1>14, <3>1 DEF Markers
    <3> QED
      BY <3>2
  <2>4. CASE p # 0 /\ Corrects(shown, answer, p, j, {})
    <3>1. target[j].id = FollowUpIdentity(Identity(shown, p, "legacy"), answer[j], number)
      BY <2>1, <2>4 DEF TargetTask
    <3> QED
      BY <1>13, <3>1
  <2> QED
    BY <2>2, <2>3, <2>4
<1>15. ASSUME NEW j \in DOMAIN target
       PROVE  again.active[j].identity # NoId /\ Known(again.active[j].identity)
  <2> DEFINE item == again.active[j]
             q == PreviousOf(Matches(tasks, target), j)
             s == PreviousState(tasks, q, now, states)
             me == Identity(tasks, q, "legacy")
  <2>1. item = ActiveOf(tasks, target, j, now, states, {}, number)
    BY <1>6
  <2> HIDE DEF item
  <2>2. CASE q = 0
    <3>1. item.identity = Identity(target, j, "inserted")
      BY <2>1, <2>2 DEF ActiveOf, Inserted, Item
    <3>2. CASE target[j].id = NoId
      <4>1. item.identity = <<"inserted", Fingerprint(target[j]), Occurrence(target, j)>>
        BY <3>1, <3>2 DEF Identity
      <4> QED
        BY <1>10, <1>12, <4>1 DEF item
    <3>3. CASE target[j].id # NoId
      <4>1. item.identity = target[j].id
        BY <3>1, <3>3 DEF Identity
      <4>2. j \in DOMAIN answer
        BY <1>2, <1>5
      <4> QED
        BY <1>14, <3>3, <4>1, <4>2 DEF item
    <3> QED
      BY <3>2, <3>3
  <2>3. CASE q # 0
    <3>1. q \in DOMAIN tasks
      BY <1>2, <1>6, <2>3, PreviousFacts
    <3>2. item = MatchedItem(tasks, target, q, j, s, {}, number)
      BY <2>1, <2>3 DEF ActiveOf
    <3> HIDE DEF q, s
    <3>3. item.identity = me \/ item.identity = FollowUpIdentity(me, target[j], number)
      BY <3>2 DEF MatchedItem, Item
    <3>4. CASE item.identity = FollowUpIdentity(me, target[j], number)
      BY <1>11, <1>13, <3>4 DEF item
    <3>5. CASE item.identity = me /\ tasks[q].id = NoId
      <4>1. item.identity = <<"legacy", Fingerprint(tasks[q]), Occurrence(tasks, q)>>
        BY <3>5 DEF Identity
      <4> QED
        BY <1>10, <1>12, <4>1 DEF item
    <3>6. CASE item.identity = me /\ tasks[q].id # NoId
      <4>1. item.identity = tasks[q].id /\ tasks[q].id \in Markers(tasks)
        BY <3>1, <3>6 DEF Identity, Markers
      <4> QED
        BY <3>6, <4>1 DEF item
    <3> QED
      BY <3>3, <3>4, <3>5, <3>6
  <2> QED
    BY <2>2, <2>3
<1> QED
  BY <1>3, <1>6, <1>9, <1>15 DEF RevisionSound

-----------------------------------------------------------------------------
(* The store.                                                               *)
\* The phases in which a client holds the lock for a document it is about to install.
Held == {"committing", "writing", "installing"}

\* What is written is written by the holder of the lock.
LockInv ==
    /\ writeTail \in Seq(Clients)
    /\ DOMAIN call = Clients
    /\ \A c \in Clients : call[c].phase \in Held => Holds(c)

\* A call that queues writes nothing yet, and the holder stays the holder.
LEMMA LockEntered ==
    ASSUME LockInv, NEW c \in Clients, NEW x, x.phase \notin Held, Enter(c, x)
    PROVE  LockInv'
<1>1. writeTail' \in Seq(Clients)
  BY DEF LockInv, Enter
<1>2. ASSUME NEW d \in Clients, call'[d].phase \in Held
      PROVE  writeTail' # <<>> /\ Head(writeTail') = d
  <2>1. call[d].phase \in Held
    BY <1>2 DEF LockInv, Enter
  <2>2. writeTail # <<>> /\ Head(writeTail) = d
    BY <2>1 DEF LockInv, Holds
  <2> QED
    BY <2>2 DEF LockInv, Enter
<1> QED
  BY <1>1, <1>2 DEF LockInv, Enter, Holds

\* When the holder leaves, nobody has anything half written.
LEMMA LockSettled ==
    ASSUME LockInv, NEW c \in Clients, Holds(c), NEW outcome, NEW task, NEW snapshot,
           SettleIn(c, outcome, task, snapshot)
    PROVE  LockInv' /\ \A d \in Clients : call'[d].phase \notin Held
<1>1. writeTail' \in Seq(Clients)
  BY DEF LockInv, SettleIn, Holds
<1>2. call'[c].phase = "returned"
  BY DEF LockInv, SettleIn, Result
<1>3. ASSUME NEW d \in Clients, d # c PROVE call'[d].phase \notin Held
  BY <1>3 DEF LockInv, SettleIn, Holds
<1>4. \A d \in Clients : call'[d].phase \notin Held
  BY <1>2, <1>3 DEF Held
<1> QED
  BY <1>1, <1>4 DEF LockInv, SettleIn

\* The holder goes on.
LEMMA LockAdvanced ==
    ASSUME LockInv, NEW c \in Clients, Holds(c), NEW phase, NEW next,
           Advance(c, phase, next)
    PROVE  LockInv'
BY DEF LockInv, Advance, Holds

LEMMA One ==
    ASSUME NEW S, Cardinality(S) = 1
    PROVE  (CHOOSE x \in S : TRUE) \in S
<1>1. S # {}
  BY FS_EmptySet
<1> QED
  BY <1>1

LEMMA ValidListed ==
    ASSUME NEW tasks, Valid(tasks)
    PROVE  /\ Listed(tasks) /\ Len(tasks) # 0
           /\ \A i \in DOMAIN tasks :
                 /\ DOMAIN tasks[i] = {"id", "title", "body", "done"}
                 /\ tasks[i] = [id |-> tasks[i].id, title |-> tasks[i].title,
                                body |-> tasks[i].body, done |-> tasks[i].done]
                 /\ tasks[i].done \in BOOLEAN
<1>1. Len(tasks) \in Nat \ {0} /\ DOMAIN tasks = 1..Len(tasks)
  BY DEF Valid
<1>2. \A i \in 1..Len(tasks) :
          tasks[i] = [id |-> tasks[i].id, title |-> tasks[i].title,
                      body |-> tasks[i].body, done |-> tasks[i].done]
  BY DEF Valid
<1>3. ASSUME NEW i \in 1..Len(tasks)
      PROVE  DOMAIN tasks[i] = {"id", "title", "body", "done"}
  <2>1. \A a, b, c, d : DOMAIN [id |-> a, title |-> b, body |-> c, done |-> d]
                           = {"id", "title", "body", "done"}
    OBVIOUS
  <2> DEFINE new == [id |-> tasks[i].id, title |-> tasks[i].title,
                     body |-> tasks[i].body, done |-> tasks[i].done]
  <2>2. tasks[i] = new
    BY <1>2
  <2>3. DOMAIN new = {"id", "title", "body", "done"}
    BY <2>1
  <2> HIDE DEF new
  <2> QED
    BY <2>2, <2>3
<1> QED
  BY <1>1, <1>2, <1>3 DEF Valid, Listed

\* A checkbox that is set.
Checked(tasks, i) == [tasks EXCEPT ![i] = [@ EXCEPT !.done = TRUE]]

LEMMA CheckedFacts ==
    ASSUME NEW tasks, Valid(tasks), NEW i \in DOMAIN tasks
    PROVE  /\ Valid(Checked(tasks, i))
           /\ AuthorityToken(Checked(tasks, i)) = AuthorityToken(tasks)
           /\ \A work : work # Fingerprint(tasks[i]) =>
                 DoneAlike(Checked(tasks, i), work) = DoneAlike(tasks, work)
           /\ DoneAlike(Checked(tasks, i), Fingerprint(tasks[i]))
                 \subseteq DoneAlike(tasks, Fingerprint(tasks[i])) \union {i}
<1> DEFINE next == Checked(tasks, i)
<1> DEFINE n == Len(tasks)
<1>1. /\ n \in Nat \ {0} /\ DOMAIN tasks = 1..n
      /\ \A j \in 1..n : /\ DOMAIN tasks[j] = {"id", "title", "body", "done"}
                         /\ tasks[j].done \in BOOLEAN
  BY ValidListed DEF Listed
<1>2. /\ DOMAIN next = 1..n
      /\ \A j \in 1..n : j # i => next[j] = tasks[j]
      /\ next[i] = [tasks[i] EXCEPT !.done = TRUE]
  BY <1>1 DEF Checked
<1>3. /\ next[i].id = tasks[i].id /\ next[i].title = tasks[i].title
      /\ next[i].body = tasks[i].body /\ next[i].done = TRUE
      /\ DOMAIN next[i] = {"id", "title", "body", "done"}
  BY <1>1, <1>2
<1>4. next = [j \in 1..n |-> next[j]]
  BY <1>1 DEF Checked
<1>5. Len(next) = n
  BY <1>1, <1>4, ListLength
<1>6. \A j \in 1..n :
          next[j] = [id |-> next[j].id, title |-> next[j].title,
                     body |-> next[j].body, done |-> next[j].done]
  <2>1. next[i] = [id |-> next[i].id, title |-> next[i].title,
                   body |-> next[i].body, done |-> next[i].done]
    BY <1>1, <1>2
  <2>2. ASSUME NEW j \in 1..n, j # i
        PROVE  next[j] = [id |-> next[j].id, title |-> next[j].title,
                          body |-> next[j].body, done |-> next[j].done]
    <3>1. next[j] = tasks[j]
      BY <1>2, <2>2
    <3>2. tasks[j] = [id |-> tasks[j].id, title |-> tasks[j].title,
                      body |-> tasks[j].body, done |-> tasks[j].done]
      BY <1>1, ValidListed
    <3> QED
      BY <3>1, <3>2
  <2> QED
    BY <2>1, <2>2
<1>7. \A j \in 1..n : next[j].done \in BOOLEAN
  BY <1>1, <1>2, <1>3
<1> HIDE DEF n
<1>8. Valid(next)
  BY <1>1, <1>4, <1>5, <1>6, <1>7 DEF Valid
<1>9. \A j \in 1..n : Fingerprint(next[j]) = Fingerprint(tasks[j])
  BY <1>2, <1>3 DEF Fingerprint
<1>11. AuthorityToken(next) = AuthorityToken(tasks)
  BY <1>1, <1>2, <1>3, <1>9 DEF AuthorityToken
<1> HIDE DEF next
<1>10. /\ \A work : work # Fingerprint(tasks[i]) =>
              DoneAlike(next, work) = DoneAlike(tasks, work)
       /\ DoneAlike(next, Fingerprint(tasks[i]))
              \subseteq DoneAlike(tasks, Fingerprint(tasks[i])) \union {i}
  BY <1>1, <1>2, <1>9 DEF DoneAlike
<1> QED
  BY <1>8, <1>10, <1>11 DEF next

\* Every task of a proposal has a place in its reconciliation.
LEMMA ActiveListed ==
    ASSUME NEW prev, NEW rev, NEW worker, NEW revision, Listed(prev), Listed(rev),
           Reconcile(prev, rev, worker, Pending(prev), {}, revision) # NoRevision
    PROVE  LET out == Reconcile(prev, rev, worker, Pending(prev), {}, revision)
           IN  Listed(out.active) /\ DOMAIN out.active = DOMAIN rev
<1> DEFINE states == Pending(prev)
           out == Reconcile(prev, rev, worker, states, {}, revision)
<1> HIDE DEF states
<1>1. out # NoRevision
  BY DEF states
<1>2. Listed(out.active) /\ DOMAIN out.active = DOMAIN rev
  BY <1>1, ReconcileFacts
<1> QED
  BY <1>2 DEF states

\* What an accepted revision installs checks no more tasks of any text than the plan.
LEMMA RevisedFacts ==
    ASSUME NEW c, Valid(plan), Listed(call[c].active), Len(call[c].active) # 0,
           Revised(c) # <<>>
    PROVE  /\ Valid(Revised(c))
           /\ \A work : Cardinality(DoneAlike(Revised(c), work))
                           <= Cardinality(DoneAlike(plan, work))
<1> DEFINE target  == Target(call[c].active, plan)
           worker == RunningPosition(plan, call[c].running)
           made    == Reconcile(plan, target, worker, Pending(plan), {}, call[c].revision)
<1>1. made # NoRevision /\ Revised(c) = Render(made.active)
  BY DEF Revised
<1>2. target = [i \in 1..Len(call[c].active) |-> target[i]]
  BY DEF Target, Listed
<1>3. Listed(target) /\ Len(target) # 0
  <2>1. Len(target) = Len(call[c].active)
    BY <1>2, ListLength DEF Listed
  <2>2. DOMAIN target = 1..Len(call[c].active)
    BY <1>2
  <2> QED
    BY <2>1, <2>2 DEF Listed
<1>4. Listed(plan)
  BY ValidListed
<1> HIDE DEF target, worker
<1>5. Listed(Render(made.active)) /\ DOMAIN Render(made.active) = DOMAIN target
  BY <1>1, <1>3, <1>4, CompletionSource
<1>6. \A work : Cardinality(DoneAlike(Render(made.active), work))
                    <= Cardinality(DoneAlike(plan, work))
  BY <1>1, <1>3, <1>4, CompletionCarried
<1> HIDE DEF made
<1> DEFINE new == Render(made.active)
<1>7. \A i \in DOMAIN new :
          /\ new[i] = [id |-> new[i].id, title |-> new[i].title,
                       body |-> new[i].body, done |-> new[i].done]
          /\ new[i].done \in BOOLEAN
  BY DEF Render
<1>8. new = [i \in DOMAIN new |-> new[i]]
  BY DEF Render
<1> HIDE DEF new
<1>9. Len(new) \in Nat \ {0}
  BY <1>3, <1>5 DEF Listed, new
<1>10. Valid(new)
  BY <1>5, <1>7, <1>8, <1>9 DEF Valid, Listed, new
<1> QED
  BY <1>1, <1>6, <1>10 DEF new

-----------------------------------------------------------------------------
(* What the store holds and what it is about to install.                    *)
\* A call with a revision that the planner is still to answer or the store to apply,
\* and the numbers of the revisions to come.
Revising(x) == x.phase = "planning" \/ (x.phase = "waiting" /\ x.kind = "apply")

ToCome == {n \in Nat \ {0} :
              n > revisions \/ \E c \in Clients : Revising(call[c]) /\ call[c].revision = n}

NumbersInv ==
    /\ revisions \in Nat
    /\ \A c \in Clients : Revising(call[c]) =>
          /\ call[c].revision \in 1..revisions
          /\ \A d \in Clients :
                Revising(call[d]) /\ call[d].revision = call[c].revision => d = c

\* No task follows up on another under a revision that is still to come.
Free(tasks, numbers) == \A i \in DOMAIN tasks, n \in numbers : ~FollowsUp(tasks[i].id, n)

Sound(tasks, numbers) ==
    Valid(tasks) /\ Own(tasks) /\ Free(tasks, numbers)

\* The revision that waits was generated from a plan and an answer.
Made(x, numbers) ==
    \E shown, answer, worker :
        /\ Valid(shown) /\ Valid(answer) /\ Free(answer, numbers)
        /\ Unclaimed(shown, answer)
        /\ x.expected = AuthorityToken(shown)
        /\ Reconcile(shown, answer, worker, Pending(shown), {}, x.revision) # NoRevision
        /\ x.active = Reconcile(shown, answer, worker, Pending(shown), {}, x.revision).active

CallSound(x, numbers) ==
    /\ x.phase = "planning" => Valid(x.base) /\ Free(x.base, numbers)
    /\ x.phase \in {"waiting"} \union Held => {"phase", "next"} \subseteq DOMAIN x
    /\ x.phase = "waiting" /\ x.kind = "apply" => Made(x, numbers)
    /\ x.phase \in Held => Sound(x.next, numbers)

\* The register's step from one document to the next.
Follows(old, new) == Register!CheckOff(old, new) \/ Register!Revise(old, new)

WrittenInv ==
    /\ \A c \in Clients :
          /\ call[c].phase \in {"committing", "writing"} => Follows(plan, call[c].next)
          /\ call[c].phase = "installing" => disk = call[c].next
    /\ disk = plan \/ \E c \in Clients : call[c].phase = "installing"

StoreInv ==
    /\ LockInv
    /\ NumbersInv
    /\ Sound(plan, ToCome) /\ Sound(disk, ToCome)
    /\ \A c \in Clients : CallSound(call[c], ToCome)
    /\ WrittenInv

\* What is sound for some numbers is sound for fewer.
LEMMA SoundForFewer ==
    ASSUME NEW N, NEW M, M \subseteq N
    PROVE  /\ \A tasks : Sound(tasks, N) => Sound(tasks, M)
           /\ \A x : CallSound(x, N) => CallSound(x, M)
<1>1. \A tasks : Free(tasks, N) => Free(tasks, M)
  BY DEF Free
<1>2. \A x : Made(x, N) => Made(x, M)
  BY <1>1 DEF Made
<1> QED
  BY <1>1, <1>2 DEF Sound, CallSound

\* A client whose call changes, and the documents as they were.
LEMMA OneCall ==
    ASSUME StoreInv, LockInv', NEW c \in Clients,
           \A d \in Clients \ {c} : call'[d] = call[d],
           UNCHANGED <<plan, disk, revisions>>,
           call[c].phase # "installing", call'[c].phase # "installing",
           Revising(call'[c]) => Revising(call[c]) /\ call'[c].revision = call[c].revision,
           CallSound(call'[c], ToCome),
           call'[c].phase \in {"committing", "writing"} => Follows(plan, call'[c].next)
    PROVE  StoreInv'
<1>1. ToCome' \subseteq ToCome
  BY DEF ToCome
<1>2. NumbersInv'
  BY DEF StoreInv, NumbersInv
<1>3. Sound(plan, ToCome)' /\ Sound(disk, ToCome)'
  BY <1>1, SoundForFewer DEF StoreInv
<1>4. ASSUME NEW d \in Clients PROVE CallSound(call[d], ToCome)'
  <2>1. CallSound(call'[d], ToCome)
    BY DEF StoreInv
  <2> QED
    BY <1>1, <2>1, SoundForFewer
<1>5. WrittenInv'
  BY DEF StoreInv, WrittenInv
<1> QED
  BY <1>2, <1>3, <1>4, <1>5 DEF StoreInv

\* A reference resolves to a task, or to none.
LEMMA ResolveInside ==
    ASSUME NEW tasks, NEW ref, Resolve(tasks, ref) # 0
    PROVE  Resolve(tasks, ref) \in DOMAIN tasks
<1> DEFINE same   == {i \in DOMAIN tasks : Fingerprint(tasks[i]) = ref.fingerprint}
           marked == {i \in same : tasks[i].id = ref.id}
<1>1. Cardinality(marked) = 1 => (CHOOSE i \in marked : TRUE) \in DOMAIN tasks
  BY One
<1>2. Cardinality(same) = 1 => (CHOOSE i \in same : TRUE) \in DOMAIN tasks
  BY One
<1> QED
  <2> HIDE DEF same, marked
  <2> QED
    BY <1>1, <1>2 DEF Resolve, same, marked

\* Setting a checkbox is a step of the register and changes no identity.
LEMMA CheckedSound ==
    ASSUME NEW tasks, NEW N, Sound(tasks, N), NEW i \in DOMAIN tasks, ~tasks[i].done
    PROVE  Sound(Checked(tasks, i), N) /\ Follows(tasks, Checked(tasks, i))
<1> DEFINE next == Checked(tasks, i)
<1>1. Valid(next) /\ AuthorityToken(next) = AuthorityToken(tasks)
  BY CheckedFacts DEF Sound
<1>2. Register!CheckOff(tasks, next)
  BY DEF Register!CheckOff, Checked
<1> HIDE DEF next
<1>3. /\ DOMAIN next = DOMAIN tasks
      /\ \A p \in DOMAIN tasks : next[p].id = tasks[p].id
      /\ \A p \in DOMAIN tasks : Fingerprint(next[p]) = Fingerprint(tasks[p])
  BY <1>1, SameMatches
<1>4. Unmarked(next) = Unmarked(tasks) /\ Markers(next) = Markers(tasks)
  BY <1>3 DEF Unmarked, Markers
<1>5. ASSUME NEW p \in Unmarked(tasks)
      PROVE  Identity(next, p, "legacy") = Identity(tasks, p, "legacy")
  <2>1. {j \in Alike(next, p) : j <= p} = {j \in Alike(tasks, p) : j <= p}
    BY <1>3, <1>4 DEF Alike, Unmarked
  <2> QED
    BY <1>3, <2>1 DEF Identity, Occurrence, Unmarked
<1>6. Own(next)
  BY <1>4, <1>5 DEF Own, Sound
<1>7. Free(next, N)
  BY <1>3 DEF Free, Sound
<1> QED
  BY <1>1, <1>2, <1>6, <1>7 DEF Sound, Follows, next

\* What is rendered of a reconciliation that carries completion as it should is the
\* register's step from the plan.
LEMMA RenderedRevises ==
    ASSUME NEW tasks, NEW active, UniqueIds(tasks), Listed(active), Render(active) # <<>>,
           EarnedIn(tasks, active),
           \A j \in DOMAIN active : active[j].identity # NoId,
           \A i \in DOMAIN tasks, j \in DOMAIN active :
              tasks[i].done /\ active[j].identity = Identity(tasks, i, "legacy") =>
                 /\ active[j].state = "completed"
                 /\ Fingerprint(active[j]) = Fingerprint(tasks[i])
    PROVE  Register!Revise(tasks, Render(active))
<1> DEFINE new == Render(active)
           from == [j \in Register!Done(new) |-> active[j].previous]
<1>1. /\ DOMAIN new = DOMAIN active
      /\ \A j \in DOMAIN active : /\ new[j].id = active[j].identity
                                   /\ new[j].done = (active[j].state = "completed")
                                   /\ Fingerprint(new[j]) = Fingerprint(active[j])
  BY DEF Render, Fingerprint
<1> HIDE DEF new
<1>2. \A j \in Register!Done(new) : j \in DOMAIN active /\ active[j].state = "completed"
  BY <1>1 DEF Register!Done
<1>3. ASSUME NEW j \in Register!Done(new)
      PROVE  /\ active[j].previous \in Register!Done(tasks)
             /\ Register!SameWork(tasks[active[j].previous], new[j])
             /\ \A k \in Register!Done(new) :
                   active[j].previous = active[k].previous => j = k
  <2>1. j \in DOMAIN active /\ active[j].state = "completed"
    BY <1>2
  <2> DEFINE p == active[j].previous
  <2>2. /\ p \in DOMAIN tasks /\ tasks[p].done
        /\ Fingerprint(tasks[p]) = Fingerprint(active[j])
        /\ Identity(tasks, p, "legacy") = active[j].identity
    BY <2>1 DEF EarnedIn
  <2> HIDE DEF p
  <2>3. Fingerprint(tasks[p]) = Fingerprint(new[j])
    BY <1>1, <2>1, <2>2
  <2>4. tasks[p].id \in {NoId, new[j].id}
    BY <1>1, <2>1, <2>2 DEF Identity
  <2>5. Register!SameWork(tasks[p], new[j])
    BY <2>3, <2>4 DEF Register!SameWork, Register!Fingerprint, Register!NoId, Fingerprint, NoId
  <2>6. ASSUME NEW k \in Register!Done(new), active[j].previous = active[k].previous
        PROVE  j = k
    <3>1. k \in DOMAIN active /\ active[k].state = "completed"
      BY <1>2
    <3> QED
      BY <2>1, <2>6, <3>1 DEF EarnedIn
  <2> QED
    BY <2>2, <2>5, <2>6 DEF p, Register!Done
<1>4. from \in [Register!Done(new) -> Register!Done(tasks)]
  BY <1>3
<1>5. \A j \in Register!Done(new) :
          /\ Register!SameWork(tasks[from[j]], new[j])
          /\ \A k \in Register!Done(new) : from[j] = from[k] => j = k
  BY <1>3
<1> HIDE DEF from
<1>10. ASSUME NEW i \in DOMAIN tasks
       PROVE  Register!Identity(tasks, i, "legacy") = Identity(tasks, i, "legacy")
  <2>1. \A j \in DOMAIN tasks : Register!Fingerprint(tasks[j]) = Fingerprint(tasks[j])
    BY DEF Register!Fingerprint, Fingerprint
  <2>2. Register!NoId = NoId
    BY DEF Register!NoId, NoId
  <2>3. Register!Unmarked(tasks) = Unmarked(tasks)
    BY <2>2 DEF Register!Unmarked, Unmarked
  <2>4. Register!Alike(tasks, i) = Alike(tasks, i)
    BY <2>1, <2>3 DEF Register!Alike, Alike, Unmarked
  <2>7. {j \in Register!Alike(tasks, i) : j <= i} = {j \in Alike(tasks, i) : j <= i}
    BY <2>4
  <2>8. \A S : Register!Cardinality(S) = Cardinality(S)
    BY DEF Register!Cardinality, Cardinality
  <2>5. Register!Occurrence(tasks, i) = Occurrence(tasks, i)
    BY <2>7, <2>8 DEF Register!Occurrence, Occurrence
  <2> QED
    BY <2>1, <2>2, <2>5 DEF Register!Identity, Identity
<1>6. \A i \in Register!Done(tasks), j \in DOMAIN new :
          new[j].id = Register!Identity(tasks, i, "legacy") =>
             new[j].done /\ Register!SameWork(tasks[i], new[j])
  <2> SUFFICES ASSUME NEW i \in Register!Done(tasks), NEW j \in DOMAIN new,
                      new[j].id = Register!Identity(tasks, i, "legacy")
               PROVE  new[j].done /\ Register!SameWork(tasks[i], new[j])
    OBVIOUS
  <2>1. i \in DOMAIN tasks /\ tasks[i].done
    BY DEF Register!Done
  <2>2. j \in DOMAIN active /\ active[j].identity = Identity(tasks, i, "legacy")
    BY <1>1, <1>10, <2>1
  <2>3. active[j].state = "completed" /\ Fingerprint(active[j]) = Fingerprint(tasks[i])
    BY <2>1, <2>2
  <2>4. new[j].done
    BY <1>1, <2>2, <2>3
  <2>5. Fingerprint(new[j]) = Fingerprint(tasks[i])
    BY <1>1, <2>2, <2>3
  <2>6. tasks[i].id \in {NoId, new[j].id}
    BY <1>1, <2>2 DEF Identity
  <2> QED
    BY <2>4, <2>5, <2>6
       DEF Register!SameWork, Register!Fingerprint, Fingerprint, Register!NoId, NoId
<1>7. \A j \in DOMAIN new : new[j].id # Register!NoId
  BY <1>1 DEF Register!NoId, NoId
<1>8. Register!UniqueIds(tasks)
  BY DEF UniqueIds, Register!UniqueIds, NoId, Register!NoId
<1>9. new # <<>>
  BY DEF new
<1> QED
  BY <1>4, <1>5, <1>6, <1>7, <1>8, <1>9 DEF Register!Revise, new

\* The plan that an accepted revision installs.
LEMMA RevisedSound ==
    ASSUME StoreInv, NEW c \in Clients, At(c, "apply", "waiting"),
           call[c].expected = AuthorityToken(plan), Revised(c) # <<>>
    PROVE  /\ Sound(Revised(c), ToCome \ {call[c].revision})
           /\ Follows(plan, Revised(c))
<1> DEFINE number == call[c].revision
           now == RunningPosition(plan, call[c].running)
<1>1. Revising(call[c]) /\ call[c].phase = "waiting" /\ call[c].kind = "apply"
  BY DEF At, Revising
<1>2. number \in ToCome
  BY <1>1 DEF StoreInv, NumbersInv, ToCome
<1>3. Valid(plan) /\ Own(plan) /\ Free(plan, ToCome)
  BY DEF StoreInv, Sound
<1>4. Made(call[c], ToCome)
  BY <1>1 DEF StoreInv, CallSound
<1>5. PICK shown, answer, worker :
         /\ Valid(shown) /\ Valid(answer) /\ Free(answer, ToCome)
         /\ Unclaimed(shown, answer)
         /\ call[c].expected = AuthorityToken(shown)
         /\ Reconcile(shown, answer, worker, Pending(shown), {}, number) # NoRevision
         /\ call[c].active = Reconcile(shown, answer, worker, Pending(shown), {}, number).active
  BY <1>4 DEF Made
<1> DEFINE out == Reconcile(shown, answer, worker, Pending(shown), {}, number)
           again == Reconcile(plan, Target(call[c].active, plan), now, Pending(plan), {}, number)
<1>6. /\ Listed(plan) /\ Listed(shown) /\ Listed(answer)
      /\ Len(answer) # 0
  BY <1>3, <1>5, ValidListed
<1>7. again # NoRevision /\ Revised(c) = Render(again.active)
  BY DEF Revised
<1>8. Listed(call[c].active) /\ Len(call[c].active) # 0
  <2>1. Listed(out.active) /\ DOMAIN out.active = DOMAIN answer
    BY <1>5, <1>6, ActiveListed
  <2> HIDE DEF out
  <2>2. call[c].active = out.active
    BY <1>5 DEF out
  <2> QED
    BY <1>6, <2>1, <2>2 DEF Listed
<1>9. Valid(Revised(c))
  BY <1>3, <1>8, RevisedFacts
<1>10. /\ out # NoRevision
       /\ out = RevisionOf(shown, answer, worker, number)
       /\ again = RevisionOf(plan, Target(out.active, plan), now, number)
  BY <1>5 DEF RevisionOf
<1>11. /\ AuthorityToken(shown) = AuthorityToken(plan)
       /\ \A i \in DOMAIN plan : ~FollowsUp(plan[i].id, number)
  BY <1>2, <1>3, <1>5 DEF Free
<1> HIDE DEF now, number
<1>12. RevisionSound(plan, answer, again.active, number)
  <2> HIDE DEF out, again
  <2> QED
    BY <1>3, <1>5, <1>6, <1>7, <1>10, <1>11, RevisedPlan
<1> HIDE DEF again
<1>13. Register!Revise(plan, Revised(c))
  BY <1>7, <1>12, RenderedRevises DEF RevisionSound
<1>14. /\ DOMAIN Revised(c) = DOMAIN again.active
       /\ \A j \in DOMAIN again.active : Revised(c)[j].id = again.active[j].identity
  BY <1>7 DEF Render
<1>15. Own(Revised(c))
  BY <1>12, <1>14 DEF Own, Unmarked, RevisionSound
<1>16. Free(Revised(c), ToCome \ {number})
  <2> SUFFICES ASSUME NEW j \in DOMAIN again.active, NEW n \in ToCome \ {number},
                      FollowsUp(again.active[j].identity, n)
               PROVE  FALSE
    BY <1>14 DEF Free
  <2> DEFINE id == again.active[j].identity
  <2>1. id \in Markers(plan) \union Markers(answer)
    BY <1>12 DEF RevisionSound
  <2> HIDE DEF id
  <2>2. (\E i \in DOMAIN plan : plan[i].id = id) \/ (\E i \in DOMAIN answer : answer[i].id = id)
    BY <2>1 DEF Markers
  <2>3. FollowsUp(id, n)
    BY DEF id
  <2> QED
    BY <1>3, <1>5, <2>2, <2>3 DEF Free
<1> QED
  BY <1>9, <1>13, <1>15, <1>16 DEF Sound, Follows, number

-----------------------------------------------------------------------------
(* The steps of the store and of its clients.                               *)
\* The holder of the lock goes on to the next phase of its call.
LEMMA AdvancedCall ==
    ASSUME StoreInv, NEW c \in Clients, Holds(c), NEW phase, NEW next,
           {"phase", "next"} \subseteq DOMAIN call[c], Advance(c, phase, next)
    PROVE  /\ LockInv'
           /\ \A d \in Clients \ {c} : call'[d] = call[d]
           /\ call'[c].phase = phase /\ call'[c].next = next
           /\ {"phase", "next"} \subseteq DOMAIN call'[c]
<1>1. LockInv'
  BY LockAdvanced DEF StoreInv
<1>2. DOMAIN call = Clients
  BY DEF StoreInv, LockInv
<1>3. /\ \A d \in Clients \ {c} : call'[d] = call[d]
      /\ call'[c] = [[call[c] EXCEPT !.phase = phase] EXCEPT !.next = next]
  BY <1>2 DEF Advance
<1> DEFINE first == [call[c] EXCEPT !.phase = phase]
<1>4. first.phase = phase /\ DOMAIN first = DOMAIN call[c]
  OBVIOUS
<1> HIDE DEF first
<1>5. call'[c] = [first EXCEPT !.next = next]
  BY <1>3 DEF first
<1>6. call'[c].next = next /\ call'[c].phase = phase /\ DOMAIN call'[c] = DOMAIN call[c]
  BY <1>4, <1>5
<1> QED
  BY <1>1, <1>3, <1>6

\* The holder of the lock leaves with a result.
LEMMA SettledCall ==
    ASSUME StoreInv, NEW c \in Clients, Holds(c), call[c].phase # "installing",
           NEW outcome, NEW task, Settle(c, outcome, task), UNCHANGED <<plan, disk, revisions>>
    PROVE  StoreInv'
<1>1. LockInv'
  BY LockSettled DEF StoreInv, Settle
<1>2. DOMAIN call = Clients
  BY DEF StoreInv, LockInv
<1>3. /\ \A d \in Clients \ {c} : call'[d] = call[d]
      /\ call'[c].phase = "returned"
  BY <1>2 DEF Settle, SettleIn, Result
<1>4. CallSound(call'[c], ToCome)
  BY <1>3 DEF CallSound, Held
<1> QED
  BY <1>1, <1>3, <1>4, OneCall DEF Revising

\* A call that neither holds the lock nor asks for it.
LEMMA PlainCall ==
    ASSUME StoreInv, NEW c \in Clients, DOMAIN call' = DOMAIN call,
           \A d \in Clients \ {c} : call'[d] = call[d],
           call[c].phase \notin Held, call'[c].phase \in {"idle", "returned"},
           UNCHANGED <<plan, disk, writeTail, revisions>>
    PROVE  StoreInv'
<1>1. LockInv'
  BY DEF StoreInv, LockInv, Holds, Held
<1>2. CallSound(call'[c], ToCome)
  BY DEF CallSound, Held
<1> QED
  BY <1>1, <1>2, OneCall DEF Revising, Held

\* A call that queues for the lock.
LEMMA QueuedCall ==
    ASSUME StoreInv, NEW c \in Clients, NEW x, x.phase = "waiting",
           call[c].phase \notin Held, Enter(c, x), UNCHANGED <<plan, disk, revisions>>,
           Revising(x) => Revising(call[c]) /\ x.revision = call[c].revision,
           CallSound(x, ToCome)
    PROVE  StoreInv'
<1>1. DOMAIN call = Clients
  BY DEF StoreInv, LockInv
<1>2. (\A d \in Clients \ {c} : call'[d] = call[d]) /\ call'[c] = x
  BY <1>1 DEF Enter
<1>3. LockInv'
  BY LockEntered DEF StoreInv, Held
<1> QED
  BY <1>2, <1>3, OneCall DEF Held

\* A completion or a lookup queues for the lock.
LEMMA TaskCallQueues ==
    ASSUME StoreInv, NEW c \in Clients, NEW ref, NEW kind \in {"complete", "resolve"},
           call[c] = Idle,
           Enter(c, [phase |-> "waiting", kind |-> kind, ref |-> ref, next |-> plan]),
           UNCHANGED <<plan, disk, revisions>>
    PROVE  StoreInv'
<1> DEFINE x == [phase |-> "waiting", kind |-> kind, ref |-> ref, next |-> plan]
<1>1. x.phase = "waiting" /\ x.kind # "apply" /\ {"phase", "next"} \subseteq DOMAIN x
  OBVIOUS
<1> HIDE DEF x
<1>2. CallSound(x, ToCome) /\ ~Revising(x)
  BY <1>1 DEF CallSound, Held, Revising
<1>3. Enter(c, x) /\ call[c].phase \notin Held
  BY DEF x, Idle, Held
<1> QED
  BY <1>1, <1>2, <1>3, QueuedCall

\* Whatever else happens.
LEMMA StoreAsItWas ==
    ASSUME StoreInv, UNCHANGED storeVars
    PROVE  StoreInv'
<1>1. ToCome' = ToCome
  BY DEF ToCome, storeVars
<1>2. LockInv' /\ NumbersInv' /\ WrittenInv'
  BY DEF storeVars, StoreInv, LockInv, Holds, NumbersInv, WrittenInv
<1> QED
  BY <1>1, <1>2 DEF storeVars, StoreInv

\* Every step of the store keeps the invariant and follows the register.
LEMMA StoreMoves ==
    ASSUME StoreInv, NEW c \in Clients, StoreStep(c)
    PROVE  StoreInv' /\ (disk' = disk \/ Follows(disk, disk'))
<1> DEFINE own == call[c]
<1>1. /\ Sound(plan, ToCome) /\ CallSound(call[c], ToCome)
      /\ DOMAIN call = Clients
  BY DEF StoreInv, LockInv
<1>2. CASE Complete(c)
  <2>1. /\ Holds(c) /\ call[c].phase = "waiting" /\ call[c].kind = "complete"
        /\ {"phase", "next"} \subseteq DOMAIN call[c]
        /\ UNCHANGED <<plan, disk, revisions>>
    BY <1>1, <1>2 DEF Complete, At, CallSound
  <2> DEFINE task == Resolve(plan, call[c].ref)
  <2>2. CASE \E outcome : Settle(c, outcome, task)
    BY <2>1, <2>2, SettledCall
  <2>3. CASE /\ task # 0 /\ ~plan[task].done
             /\ Advance(c, "writing", [plan EXCEPT ![task] = [@ EXCEPT !.done = TRUE]])
    <3>1. task \in DOMAIN plan
      BY <2>3, ResolveInside
    <3> HIDE DEF task
    <3> DEFINE next == Checked(plan, task)
    <3>2. Sound(next, ToCome) /\ Follows(plan, next)
      BY <1>1, <2>3, <3>1, CheckedSound
    <3>3. Advance(c, "writing", next)
      BY <2>3 DEF Checked
    <3> HIDE DEF next
    <3>4. /\ LockInv'
          /\ \A d \in Clients \ {c} : call'[d] = call[d]
          /\ call'[c].phase = "writing" /\ call'[c].next = next
          /\ {"phase", "next"} \subseteq DOMAIN call'[c]
      BY <2>1, <3>3, AdvancedCall
    <3>5. CallSound(call'[c], ToCome)
      BY <3>2, <3>4 DEF CallSound
    <3> QED
      BY <2>1, <3>2, <3>4, <3>5, OneCall DEF Revising
  <2> QED
    BY <1>2, <2>1, <2>2, <2>3 DEF Complete
<1>3. CASE ResolveTask(c)
  BY <1>3, SettledCall DEF ResolveTask, At
<1>4. CASE Apply(c)
  <2>1. /\ At(c, "apply", "waiting")
        /\ Holds(c) /\ call[c].phase = "waiting" /\ call[c].kind = "apply"
        /\ {"phase", "next"} \subseteq DOMAIN call[c]
        /\ UNCHANGED <<plan, disk, revisions>>
    BY <1>1, <1>4 DEF Apply, At, CallSound
  <2>2. CASE \E outcome : Settle(c, outcome, 0)
    BY <2>1, <2>2, SettledCall
  <2>3. CASE /\ call[c].expected = AuthorityToken(plan)
             /\ Revised(c) # <<>> /\ Advance(c, "committing", Revised(c))
    <3> DEFINE next == Revised(c)
               number == call[c].revision
    <3>1. Sound(next, ToCome \ {number}) /\ Follows(plan, next)
      BY <2>1, <2>3, RevisedSound
    <3> HIDE DEF next
    <3>2. Advance(c, "committing", next)
      BY <2>3 DEF next
    <3>3. /\ LockInv'
          /\ \A d \in Clients \ {c} : call'[d] = call[d]
          /\ call'[c].phase = "committing" /\ call'[c].next = next
          /\ {"phase", "next"} \subseteq DOMAIN call'[c]
      BY <2>1, <3>2, AdvancedCall
    <3>4. number \in 1..revisions
          /\ \A d \in Clients : Revising(call[d]) /\ call[d].revision = number => d = c
      BY <2>1 DEF StoreInv, NumbersInv, Revising
    <3>5. revisions \in Nat
      BY DEF StoreInv, NumbersInv
    <3>6. ToCome' \subseteq ToCome \ {number}
      <4>1. ~Revising(call'[c])
        BY <3>3 DEF Revising
      <4> HIDE DEF number
      <4>2. ~(number > revisions)
        BY <3>4, <3>5
      <4> QED
        BY <2>1, <3>3, <3>4, <4>1, <4>2 DEF ToCome
    <3>7. Sound(next, ToCome')
      BY <3>1, <3>6, SoundForFewer
    <3>8. NumbersInv'
      BY <2>1, <3>3 DEF StoreInv, NumbersInv, Revising
    <3>9. Sound(plan, ToCome)' /\ Sound(disk, ToCome)'
      <4>1. ToCome' \subseteq ToCome
        BY <3>6
      <4> QED
        BY <2>1, <4>1, SoundForFewer DEF StoreInv
    <3>10. ASSUME NEW d \in Clients PROVE CallSound(call[d], ToCome)'
      <4>1. CASE d = c
        BY <3>3, <3>7, <4>1 DEF CallSound
      <4>2. CASE d # c
        <5>1. CallSound(call'[d], ToCome)
          BY <3>3, <4>2 DEF StoreInv
        <5> QED
          BY <3>6, <5>1, SoundForFewer
      <4> QED
        BY <4>1, <4>2
    <3>11. WrittenInv'
      BY <2>1, <3>1, <3>3 DEF StoreInv, WrittenInv
    <3> QED
      BY <2>1, <3>3, <3>8, <3>9, <3>10, <3>11 DEF StoreInv
  <2> QED
    BY <1>4, <2>1, <2>2, <2>3 DEF Apply
<1>5. CASE BeforeCommit(c)
  <2>1. /\ Holds(c) /\ call[c].phase = "committing"
        /\ {"phase", "next"} \subseteq DOMAIN call[c]
        /\ Sound(call[c].next, ToCome) /\ Follows(plan, call[c].next)
        /\ UNCHANGED <<plan, disk, revisions>>
    BY <1>1, <1>5 DEF BeforeCommit, At, CallSound, StoreInv, WrittenInv, Held
  <2>2. CASE Settle(c, "failed", 0)
    BY <2>1, <2>2, SettledCall
  <2>3. CASE Advance(c, "writing", call[c].next)
    <3> DEFINE next == call[c].next
    <3> HIDE DEF next
    <3>1. /\ LockInv'
          /\ \A d \in Clients \ {c} : call'[d] = call[d]
          /\ call'[c].phase = "writing" /\ call'[c].next = next
          /\ {"phase", "next"} \subseteq DOMAIN call'[c]
      BY <2>1, <2>3, AdvancedCall DEF next
    <3>2. CallSound(call'[c], ToCome)
      BY <2>1, <3>1 DEF CallSound, next
    <3> QED
      BY <2>1, <3>1, <3>2, OneCall DEF Revising, next
  <2> QED
    BY <1>5, <2>2, <2>3 DEF BeforeCommit
<1>6. CASE Rename(c)
  <2>1. /\ Holds(c) /\ call[c].phase = "writing"
        /\ {"phase", "next"} \subseteq DOMAIN call[c]
        /\ Sound(call[c].next, ToCome) /\ Follows(plan, call[c].next)
        /\ UNCHANGED <<plan, revisions>> /\ disk' = call[c].next
    BY <1>1, <1>6 DEF Rename, CallSound, StoreInv, WrittenInv, Held
  <2>2. \A d \in Clients \ {c} : call[d].phase \notin Held
    BY <2>1 DEF StoreInv, LockInv, Holds
  <2>3. disk = plan
    BY <2>1, <2>2 DEF StoreInv, WrittenInv, Held
  <2> DEFINE next == call[c].next
  <2> HIDE DEF next
  <2>4. /\ LockInv'
        /\ \A d \in Clients \ {c} : call'[d] = call[d]
        /\ call'[c].phase = "installing" /\ call'[c].next = next
        /\ {"phase", "next"} \subseteq DOMAIN call'[c]
    BY <1>6, <2>1, AdvancedCall DEF Rename, next
  <2>5. ToCome' \subseteq ToCome
    BY <2>1, <2>4 DEF ToCome, Revising
  <2>6. NumbersInv'
    BY <2>1, <2>4 DEF StoreInv, NumbersInv, Revising
  <2>7. Sound(plan, ToCome)' /\ Sound(disk, ToCome)'
    BY <2>1, <2>5, SoundForFewer DEF StoreInv
  <2>8. ASSUME NEW d \in Clients PROVE CallSound(call[d], ToCome)'
    <3>1. CallSound(call'[d], ToCome)
      <4>1. CASE d = c
        BY <2>1, <2>4, <4>1 DEF CallSound, next
      <4>2. CASE d # c
        BY <2>4, <4>2 DEF StoreInv
      <4> QED
        BY <4>1, <4>2
    <3> QED
      BY <2>5, <3>1, SoundForFewer
  <2>9. WrittenInv'
    BY <2>1, <2>2, <2>4 DEF WrittenInv, Held, next
  <2> QED
    BY <2>1, <2>3, <2>4, <2>6, <2>7, <2>8, <2>9 DEF StoreInv
<1>7. CASE WriteFails(c)
  BY <1>7, SettledCall DEF WriteFails
<1>8. CASE Install(c)
  <2>1. /\ Holds(c) /\ call[c].phase = "installing"
        /\ Sound(call[c].next, ToCome) /\ disk = call[c].next
        /\ UNCHANGED <<disk, revisions>> /\ plan' = call[c].next
    BY <1>1, <1>8 DEF Install, CallSound, StoreInv, WrittenInv, Held
  <2>2. PICK outcome, task, snapshot : SettleIn(c, outcome, task, snapshot)
    BY <1>8 DEF Install
  <2>3. LockInv' /\ \A d \in Clients : call'[d].phase \notin Held
    BY <2>1, <2>2, LockSettled DEF StoreInv
  <2>4. /\ \A d \in Clients \ {c} : call'[d] = call[d]
        /\ call'[c].phase = "returned"
    BY <1>1, <2>2 DEF SettleIn, Result
  <2>5. ToCome' \subseteq ToCome
    BY <2>1, <2>4 DEF ToCome, Revising
  <2>6. NumbersInv'
    BY <2>1, <2>4 DEF StoreInv, NumbersInv, Revising
  <2>7. Sound(plan, ToCome)' /\ Sound(disk, ToCome)'
    BY <2>1, <2>5, SoundForFewer DEF StoreInv
  <2>8. ASSUME NEW d \in Clients PROVE CallSound(call[d], ToCome)'
    <3>1. CallSound(call'[d], ToCome)
      BY <2>4 DEF StoreInv, CallSound, Held
    <3> QED
      BY <2>5, <3>1, SoundForFewer
  <2>9. WrittenInv'
    BY <2>1, <2>3 DEF WrittenInv, Held
  <2> QED
    BY <2>1, <2>3, <2>6, <2>7, <2>8, <2>9 DEF StoreInv
<1> QED
  BY <1>2, <1>3, <1>4, <1>5, <1>6, <1>7, <1>8 DEF StoreStep

\* A new call begins a revision, whose number no other has.
LEMMA RevisionBegins ==
    ASSUME StoreInv, NEW c \in Clients, NEW worker, call[c].phase \notin Held,
           revisions' = revisions + 1, call' = [call EXCEPT ![c] = Planning(worker)],
           UNCHANGED <<plan, disk, writeTail>>
    PROVE  StoreInv'
<1>1. /\ revisions \in Nat /\ revisions' = revisions + 1
      /\ UNCHANGED <<plan, disk, writeTail>> /\ DOMAIN call = Clients
      /\ Sound(plan, ToCome)
  BY DEF StoreInv, NumbersInv, LockInv
<1>2. /\ \A d \in Clients \ {c} : call'[d] = call[d]
      /\ call'[c].phase = "planning" /\ call'[c].base = plan
      /\ call'[c].revision = revisions + 1
  BY <1>1 DEF Planning
<1>3. LockInv'
  BY <1>1, <1>2 DEF StoreInv, LockInv, Holds, Held
<1>4. ToCome' \subseteq ToCome
  <2> SUFFICES ASSUME NEW n \in Nat \ {0},
                      n > revisions'
                        \/ \E d \in Clients : Revising(call'[d]) /\ call'[d].revision = n
               PROVE  n > revisions
                        \/ \E d \in Clients : Revising(call[d]) /\ call[d].revision = n
    BY DEF ToCome
  <2>1. CASE n > revisions'
    BY <1>1, <2>1
  <2>2. ASSUME NEW d \in Clients, Revising(call'[d]), call'[d].revision = n
        PROVE  n > revisions
                 \/ \E e \in Clients : Revising(call[e]) /\ call[e].revision = n
    <3>1. CASE d = c
      BY <1>1, <1>2, <2>2, <3>1
    <3>2. CASE d # c
      BY <1>2, <2>2, <3>2
    <3> QED
      BY <3>1, <3>2
  <2> QED
    BY <2>1, <2>2
<1>5. NumbersInv'
  <2>1. \A d \in Clients \ {c} : Revising(call'[d]) =>
           /\ call'[d].revision \in 1..revisions
           /\ \A e \in Clients \ {c} :
                 Revising(call'[e]) /\ call'[e].revision = call'[d].revision => e = d
    BY <1>2 DEF StoreInv, NumbersInv
  <2>2. \A d \in Clients \ {c} : Revising(call'[d]) =>
           call'[d].revision # revisions + 1 /\ call'[d].revision \in 1..(revisions + 1)
    BY <1>1, <2>1
  <2>3. call'[c].revision = revisions + 1 /\ revisions + 1 \in 1..(revisions + 1)
    BY <1>1, <1>2
  <2> QED
    BY <1>1, <2>1, <2>2, <2>3 DEF NumbersInv
<1>6. Sound(plan, ToCome)' /\ Sound(disk, ToCome)'
  BY <1>1, <1>4, SoundForFewer DEF StoreInv
<1>7. ASSUME NEW d \in Clients PROVE CallSound(call[d], ToCome)'
  <2>1. CallSound(call'[d], ToCome)
    <3>1. CASE d = c
      BY <1>1, <1>2, <3>1 DEF CallSound, Sound, Held
    <3>2. CASE d # c
      BY <1>2, <3>2 DEF StoreInv
    <3> QED
      BY <3>1, <3>2
  <2> QED
    BY <1>4, <2>1, SoundForFewer
<1>8. WrittenInv'
  BY <1>1, <1>2 DEF StoreInv, WrittenInv, Held
<1> QED
  BY <1>3, <1>5, <1>6, <1>7, <1>8 DEF StoreInv

\* An answer takes over no derived identity but one that is a marker of the plan that
\* was shown: the identities are digests.
Unforged(shown, answer) ==
    /\ Unclaimed(shown, answer)
    /\ \A j \in DOMAIN answer, n \in Nat \ {0} :
          FollowsUp(answer[j].id, n) => answer[j].id \in Markers(shown)

\* The planner answered, and the revision queues for the lock.
LEMMA RevisionQueues ==
    ASSUME StoreInv, NEW c \in Clients, NEW answer, NEW worker,
           RequestApply(c, answer, worker), Unforged(call[c].base, answer)
    PROVE  StoreInv'
<1> DEFINE shown == call[c].base
           number == call[c].revision
           out == Reconcile(shown, answer, call[c].activeTask, Pending(shown), {}, number)
           x == [phase |-> "waiting", kind |-> "apply", expected |-> AuthorityToken(shown),
                 active |-> out.active, running |-> worker, revision |-> number, next |-> plan]
<1>1. /\ call[c].phase = "planning" /\ Valid(answer)
      /\ out # NoRevision /\ Enter(c, x)
      /\ UNCHANGED <<plan, disk, revisions>>
  BY DEF RequestApply
<1>2. Valid(shown) /\ Free(shown, ToCome)
  BY <1>1 DEF StoreInv, CallSound
<1>3. Free(answer, ToCome)
  <2> SUFFICES ASSUME NEW j \in DOMAIN answer, NEW n \in ToCome, FollowsUp(answer[j].id, n)
               PROVE  FALSE
    BY DEF Free
  <2>1. n \in Nat \ {0}
    BY DEF ToCome
  <2>2. answer[j].id \in Markers(shown)
    BY <2>1 DEF Unforged
  <2>3. \E i \in DOMAIN shown : shown[i].id = answer[j].id
    BY <2>2 DEF Markers
  <2> QED
    BY <1>2, <2>3 DEF Free
<1>4. /\ x.phase = "waiting" /\ x.expected = AuthorityToken(shown)
      /\ x.active = out.active /\ x.revision = number
      /\ {"phase", "next"} \subseteq DOMAIN x
  OBVIOUS
<1> HIDE DEF x
<1>5. Made(x, ToCome)
  <2>1. \E worker_1 : out = Reconcile(shown, answer, worker_1, Pending(shown), {}, number)
    OBVIOUS
  <2>2. Unclaimed(shown, answer)
    BY DEF Unforged
  <2> HIDE DEF out, shown, number
  <2> QED
    BY <1>1, <1>2, <1>3, <1>4, <2>1, <2>2 DEF Made
<1>6. CallSound(x, ToCome)
  BY <1>4, <1>5 DEF CallSound, Held
<1>7. Revising(call[c]) /\ call[c].phase \notin Held
  BY <1>1 DEF Revising, Held
<1> HIDE DEF out
<1> QED
  BY <1>1, <1>4, <1>6, <1>7, QueuedCall

\* What the world brings: the documents a store is created with have no follow-ups of
\* revisions to come and no two names for one task, and no answer forges a digest.
Authored ==
    /\ \A tasks \in InitialPlans : Own(tasks) /\ Free(tasks, Nat \ {0})
    /\ \A shown : Valid(shown) => \A answer \in Proposals(shown) : Unforged(shown, answer)

LEMMA StoreStarts ==
    ASSUME Authored, plan \in InitialPlans, disk = plan, writeTail = <<>>, revisions = 0,
           call = [c \in Clients |-> Idle]
    PROVE  StoreInv /\ Register!Init
<1>1. DOMAIN call = Clients /\ \A c \in Clients : call[c].phase = "idle"
  BY DEF Idle
<1>2. Valid(plan)
  BY StoreAssumption
<1>3. Sound(plan, ToCome)
  <2>1. Sound(plan, Nat \ {0})
    BY <1>1, <1>2 DEF Authored, Sound
  <2>2. ToCome \subseteq Nat \ {0}
    BY DEF ToCome
  <2> QED
    BY <2>1, <2>2, SoundForFewer
<1>4. LockInv /\ NumbersInv /\ WrittenInv
  BY <1>1 DEF LockInv, NumbersInv, WrittenInv, Held, Revising
<1>5. \A c \in Clients : CallSound(call[c], ToCome)
  BY <1>1 DEF CallSound, Held
<1>6. disk # <<>>
  <2>1. Len(plan) # 0
    BY <1>2, ValidListed
  <2> QED
    BY <1>1, <2>1
<1> QED
  BY <1>1, <1>3, <1>4, <1>5, <1>6 DEF StoreInv, Register!Init

LEMMA StoreInvStep ==
    Authored /\ StoreInv /\ [ClientsNext]_clientsVars => StoreInv' /\ [Register!Next]_disk
<1> SUFFICES ASSUME Authored, StoreInv, [ClientsNext]_clientsVars
             PROVE  StoreInv' /\ (disk' = disk \/ Follows(disk, disk'))
  BY DEF Register!Next, Follows
<1>1. CASE TakeReference \/ UNCHANGED clientsVars
  BY <1>1, StoreAsItWas DEF TakeReference, storeVars, clientsVars
<1>2. CASE Reload
  <2>1. /\ plan' = disk /\ disk' = disk /\ writeTail' = <<>> /\ revisions' = revisions
        /\ DOMAIN call' = Clients /\ \A c \in Clients : call'[c].phase = "idle"
    BY <1>2 DEF Reload, Idle
  <2>2. ToCome' \subseteq ToCome
    BY <2>1 DEF ToCome, Revising
  <2>3. Sound(plan, ToCome)' /\ Sound(disk, ToCome)'
    BY <2>1, <2>2, SoundForFewer DEF StoreInv
  <2>4. LockInv' /\ NumbersInv' /\ WrittenInv'
    BY <2>1 DEF StoreInv, LockInv, NumbersInv, WrittenInv, Held, Revising
  <2>5. \A c \in Clients : CallSound(call[c], ToCome)'
    BY <2>1 DEF CallSound, Held
  <2> QED
    BY <2>1, <2>3, <2>4, <2>5 DEF StoreInv
<1>3. ASSUME NEW c \in Clients, Client(c) PROVE StoreInv' /\ disk' = disk
  <2>1. ASSUME NEW ref, RequestComplete(c, ref) \/ RequestResolve(c, ref)
        PROVE  StoreInv' /\ disk' = disk
    BY <2>1, TaskCallQueues DEF RequestComplete, RequestResolve
  <2>2. CASE call[c] = Idle /\ BeginRevision(c, NoReference)
    <3>1. call[c].phase \notin Held
      BY <2>2 DEF Idle, Held
    <3> QED
      BY <2>2, <3>1, RevisionBegins DEF BeginRevision
  <2>3. ASSUME call[c].phase = "planning", NEW answer \in Proposals(call[c].base),
               RequestApply(c, answer, NoReference)
        PROVE  StoreInv' /\ disk' = disk
    <3>1. Valid(call[c].base)
      BY <2>3 DEF StoreInv, CallSound
    <3> QED
      BY <2>3, <3>1, RevisionQueues DEF Authored, RequestApply
  <2>4. CASE RevisionFails(c) \/ Resume(c)
    <3>1. DOMAIN call = Clients
      BY DEF StoreInv, LockInv
    <3>2. /\ call[c].phase \notin Held /\ DOMAIN call' = DOMAIN call
          /\ \A d \in Clients \ {c} : call'[d] = call[d]
          /\ call'[c].phase \in {"idle", "returned"}
          /\ UNCHANGED <<plan, disk, writeTail, revisions>>
      BY <2>4, <3>1 DEF RevisionFails, Resume, Held, Result, Idle
    <3> QED
      BY <3>2, PlainCall
  <2> QED
    BY <1>3, <2>1, <2>2, <2>3, <2>4 DEF Client
<1>4. ASSUME NEW c \in Clients, StoreStep(c)
      PROVE  StoreInv' /\ (disk' = disk \/ Follows(disk, disk'))
  BY <1>4, StoreMoves
<1> QED
  BY <1>1, <1>2, <1>3, <1>4 DEF ClientsNext

\* Every behaviour of the store, whatever its clients ask for and in whatever order, with
\* failed writes and restarts, is a behaviour of PlanRegister: TODO.md changes only by
\* one checkbox or by one accepted revision, which invents and doubles no completion
\* and neither reopens nor rewrites completed work under the identity it has, marked or
\* not.  (What the planner drops may go.)
THEOREM StoreImplementsRegister ==
    ASSUME Authored
    PROVE  ClientsSpec => ImplementsRegister
<1>1. Authored
  OBVIOUS
<1>2. ClientsInit => StoreInv /\ Register!Init
  BY <1>1, StoreStarts DEF ClientsInit
<1>3. StoreInv /\ [ClientsNext]_clientsVars => StoreInv' /\ [Register!Next]_disk
  BY <1>1, StoreInvStep
<1> QED
  BY <1>2, <1>3, PTL DEF ClientsSpec, ImplementsRegister, Register!Spec
=============================================================================
