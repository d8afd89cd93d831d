---------------------------- MODULE PlanRegister ----------------------------
(***************************************************************************)
(* What PersistentTodoPlanStore promises of TODO.md, whatever the           *)
(* interleaving of workers and revisions: one document that changes         *)
(* atomically, either by checking off one task or by one accepted revision. *)
(***************************************************************************)
EXTENDS PlanReconcile

VARIABLE todo

Init == todo # <<>>

Done(tasks) == {i \in DOMAIN tasks : tasks[i].done}

\* One checkbox is set; nothing else of the document changes.
CheckOff(old, new) ==
    \E i \in DOMAIN old :
        ~old[i].done /\ new = [old EXCEPT ![i] = [@ EXCEPT !.done = TRUE]]

\* The work a task stands for: its identity and its text.
SameWork(before, after) ==
    /\ Fingerprint(before) = Fingerprint(after)
    /\ before.id \in {NoId, after.id}

\* A revision gives every task an identity, takes completion from completed work
\* only and from none twice, and never leaves completed work reopened or rewritten
\* under the identity it has: its marker or, where it has none, the one derived from
\* its text.  It may leave completed work out, and it may schedule the same text again
\* under another identity, as the planner asks; HistoryKept of PlanRevision says what
\* is kept of such work.  A document in which two tasks have one identity is not
\* revised.
Revise(old, new) ==
    /\ UniqueIds(old)
    /\ new # <<>>
    /\ \A j \in DOMAIN new : new[j].id # NoId
    /\ \E from \in [Done(new) -> Done(old)] :
          \A j \in Done(new) : /\ SameWork(old[from[j]], new[j])
                               /\ \A k \in Done(new) : from[j] = from[k] => j = k
    /\ \A i \in Done(old), j \in DOMAIN new :
          new[j].id = Identity(old, i, "legacy") =>
              new[j].done /\ SameWork(old[i], new[j])

Next == CheckOff(todo, todo') \/ Revise(todo, todo')

Spec == Init /\ [][Next]_todo
=============================================================================
