---------------------------- MODULE PlanReconcile ----------------------------
(***************************************************************************)
(* reconcilePlanRevision of src/src/plan_revision.ts and the rendering of   *)
(* src/src/plan_revision_generation.ts, as operators.                       *)
(*                                                                         *)
(* A plan is a sequence of tasks; the position of a task is its taskId      *)
(* ("TODO n", which validateTodoMarkdown forces to be sequential).  A task  *)
(* has the identity of its pi-long-task-id marker, or NoId, a title and a   *)
(* body (the text of its section), and its checkbox.                        *)
(***************************************************************************)
EXTENDS Naturals, Sequences, FiniteSets

CONSTANT NoRevision  \* the value of a reconciliation that throws

\* The identity of a task without a marker.
NoId == <<>>

\* validateTodoMarkdown: a document is a non-empty list of parsed tasks.
Valid(tasks) ==
    /\ Len(tasks) \in Nat \ {0}
    /\ tasks = [i \in 1..Len(tasks) |->
                   [id |-> tasks[i].id, title |-> tasks[i].title,
                    body |-> tasks[i].body, done |-> tasks[i].done]]
    /\ \A i \in 1..Len(tasks) : tasks[i].done \in BOOLEAN

\* taskSemanticFingerprint: title and text, without number, marker or checkbox.
Fingerprint(task) == <<task.title, task.body>>

Unmarked(tasks) == {i \in DOMAIN tasks : tasks[i].id = NoId}
Alike(tasks, i) ==
    {j \in Unmarked(tasks) : Fingerprint(tasks[j]) = Fingerprint(tasks[i])}
Occurrence(tasks, i) == Cardinality({j \in Alike(tasks, i) : j <= i})

\* taskIdentities: the marker, or a digest of the content and its occurrence.
Identity(tasks, i, prefix) ==
    IF tasks[i].id # NoId THEN tasks[i].id
    ELSE <<prefix, Fingerprint(tasks[i]), Occurrence(tasks, i)>>

FollowUpIdentity(identity, task, revision) ==
    <<"follow-up", identity, Fingerprint(task), revision>>

-----------------------------------------------------------------------------
(* matchTasks: pairs <<previous position, revised position>>.  A marked task *)
(* matches by its marker only; unmarked tasks match by content, duplicates   *)
(* in source order, and then by a title that is unique on both sides.        *)
StableMatches(prev, rev) ==
    {m \in (DOMAIN prev) \X (DOMAIN rev) :
        rev[m[2]].id # NoId /\ prev[m[1]].id = rev[m[2]].id}

ExactMatches(prev, rev) ==
    {m \in Unmarked(prev) \X Unmarked(rev) :
        /\ Fingerprint(prev[m[1]]) = Fingerprint(rev[m[2]])
        /\ Occurrence(prev, m[1]) = Occurrence(rev, m[2])}

TitleMatches(prev, rev) ==
    LET left  == Unmarked(prev) \ {m[1] : m \in ExactMatches(prev, rev)}
        right == Unmarked(rev)  \ {m[2] : m \in ExactMatches(prev, rev)}
    IN  {m \in left \X right :
            /\ prev[m[1]].title = rev[m[2]].title
            /\ \A p \in left  : prev[p].title = rev[m[2]].title => p = m[1]
            /\ \A r \in right : rev[r].title = prev[m[1]].title => r = m[2]}

Matches(prev, rev) ==
    StableMatches(prev, rev) \union ExactMatches(prev, rev)
        \union TitleMatches(prev, rev)

-----------------------------------------------------------------------------
\* previousTaskState: the checkbox wins over everything the caller says.
PreviousState(prev, p, running, states) ==
    CASE prev[p].done -> "completed"
      [] ~prev[p].done /\ p = running -> "running"
      [] OTHER -> states[p]

Item(identity, task, state, kind, previous, revised) ==
    [identity |-> identity, title |-> task.title, body |-> task.body,
     state |-> state, kind |-> kind, previous |-> previous, revised |-> revised]

Inserted(rev, r) ==
    Item(Identity(rev, r, "inserted"), rev[r], "pending", "inserted", 0, r)

\* Mutant: a matched task keeps its state although its content changed.
MatchedItem_KeepsState(prev, rev, p, r, state, invalidated, revision) ==
    Item(Identity(prev, p, "legacy"), rev[r], state, "unchanged", p, r)

\* Mutant: the follow-up of completed work reuses the identity of that work.
MatchedItem_NoFollowUp(prev, rev, p, r, state, invalidated, revision) ==
    LET identity == Identity(prev, p, "legacy")
    IN  IF Fingerprint(prev[p]) = Fingerprint(rev[r]) /\ p \notin invalidated
        THEN Item(identity, rev[r], "pending", "unchanged", p, r)
        ELSE Item(identity, rev[r], "pending", "modified", p, r)

\* A matched task: unchanged work keeps state and identity, changed work is
\* pending again, under a new identity when the old work was completed.
MatchedItem(prev, rev, p, r, state, invalidated, revision) ==
    LET identity == Identity(prev, p, "legacy")
        changed == \/ Fingerprint(prev[p]) # Fingerprint(rev[r])
                   \/ p \in invalidated
    IN  IF ~changed THEN Item(identity, rev[r], state, "unchanged", p, r)
        ELSE IF state = "completed"
        THEN Item(FollowUpIdentity(identity, rev[r], revision), rev[r],
                  "pending", "follow_up", p, r)
        ELSE Item(identity, rev[r], "pending", "modified", p, r)

\* Explicitly invalidated work that the proposal dropped is scheduled again.
ReaddedItem(prev, p, state, revision) ==
    Item(FollowUpIdentity(Identity(prev, p, "legacy"), prev[p], revision),
         prev[p], "pending",
         IF state = "completed" THEN "follow_up" ELSE "modified", p, 0)

UniqueIds(tasks) ==
    \A i, j \in DOMAIN tasks :
        tasks[i].id = tasks[j].id /\ tasks[i].id # NoId => i = j

\* Mutant: removed tasks leave no record.
Retired_DropsRemoved(prev, rev, matches, state, invalidated) ==
    {[identity |-> Identity(prev, m[1], "legacy"), previous |-> m[1],
      state |-> state[m[1]], preserveOutputs |-> state[m[1]] = "completed"] :
        m \in {m \in matches :
                 /\ Fingerprint(prev[m[1]]) # Fingerprint(rev[m[2]])
                 /\ state[m[1]] \in {"completed", "running"}}}

\* The audit records: superseded or invalidated work that was completed or
\* running, and every previous task without a match.
Retired(prev, rev, matches, state, invalidated) ==
    LET matched == {m[1] : m \in matches}
        superseded == {m[1] : m \in {m \in matches :
             /\ \/ Fingerprint(prev[m[1]]) # Fingerprint(rev[m[2]])
                \/ m[1] \in invalidated
             /\ state[m[1]] \in {"completed", "running"}}}
    IN  {[identity |-> Identity(prev, p, "legacy"), previous |-> p,
          state |-> state[p], preserveOutputs |-> state[p] = "completed"] :
            p \in superseded \union (DOMAIN prev \ matched)}

\* The positions of a set, first to last.
InOrder(positions) ==
    CHOOSE s \in [1..Cardinality(positions) -> positions] :
        \A i, j \in DOMAIN s : i < j => s[i] < s[j]

\* matchByRevisedIndex: the previous position of a task of the new plan, or 0.
PreviousOf(matches, r) ==
    IF \E m \in matches : m[2] = r THEN (CHOOSE m \in matches : m[2] = r)[1] ELSE 0

\* reconcilePlanRevision.  `running` is a position of prev, or 0; `states`
\* gives the caller's opinion of each previous task.
Reconcile(prev, rev, running, states, invalidated, revision) ==
    IF ~(/\ UniqueIds(prev) /\ UniqueIds(rev)
         /\ running \in {0} \union DOMAIN prev
         /\ invalidated \subseteq DOMAIN prev)
    THEN NoRevision
    ELSE
    LET matches == Matches(prev, rev)
        state == [p \in DOMAIN prev |-> PreviousState(prev, p, running, states)]
        active(r) ==
            LET p == PreviousOf(matches, r)
            IN  IF p = 0 THEN Inserted(rev, r)
                ELSE MatchedItem(prev, rev, p, r, state[p], invalidated, revision)
        dropped == InOrder(invalidated \ {m[1] : m \in matches})
        readded(i) == ReaddedItem(prev, dropped[i], state[dropped[i]], revision)
        retired == Retired(prev, rev, matches, state, invalidated)
    IN  [active |-> [r \in DOMAIN rev |-> active(r)]
                        \o [i \in DOMAIN dropped |-> readded(i)],
         retired |-> retired,
         staleRunning |-> {t.previous : t \in {t \in retired : t.state = "running"}}]

-----------------------------------------------------------------------------
\* renderReconciledTodoMarkdown: the items as the tasks of a new TODO document.
Render(active) ==
    [i \in DOMAIN active |->
        [id |-> active[i].identity, title |-> active[i].title,
         body |-> active[i].body, done |-> active[i].state = "completed"]]

\* What a caller that knows of no attempts says of the tasks.
Pending(tasks) == [i \in DOMAIN tasks |-> "pending"]

\* Mutant: the generated identities are proposed as they are.
Target_KeepsIdentity(active, tasks) == Render(active)

\* The proposal as applyRevision reconciles it again: a task that continues a
\* previous one takes the marker that one has now, or none.
Target(active, tasks) ==
    [i \in DOMAIN active |->
        LET task == Render(active)[i]
            item == active[i]
        IN  IF item.previous # 0 /\ item.kind # "follow_up" /\ item.revised # 0
            THEN [task EXCEPT !.id = tasks[item.previous].id]
            ELSE task]

\* planAuthorityToken: the document with every checkbox cleared.
AuthorityToken(tasks) == [i \in DOMAIN tasks |-> <<tasks[i].id, Fingerprint(tasks[i])>>]
=============================================================================
