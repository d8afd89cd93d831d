---------------------------- MODULE MCPlanStore ----------------------------
(* Small instances of PlanStoreClients for TLC: two titles, two texts for one *)
(* of them, and one persisted marker.                                        *)
EXTENDS PlanStoreClients

CONSTANTS c1, c2, s1, A, B, x, y

TwoClients == {c1, c2}

Task(id, title, body, done) ==
    [id |-> id, title |-> title, body |-> body, done |-> done]

\* A planner's own plan has no markers; a pasted one may have some.
MCInitialPlans ==
    { <<Task(NoId, A, x, FALSE)>>,
      <<Task(s1, A, x, FALSE), Task(NoId, A, x, FALSE)>> }

\* Change the first task, remove it, reorder, lose the markers, claim that
\* everything is done, append a task that is there already or is new.
MCProposals(base) ==
    { [base EXCEPT ![1].body = y],
      [i \in DOMAIN base |-> [base[i] EXCEPT !.done = TRUE]],
      [i \in DOMAIN base |-> [base[Len(base) + 1 - i] EXCEPT !.id = NoId]] }
    \union (IF Len(base) > 1 THEN {Tail(base)} ELSE {})
    \union (IF Cardinality({i \in DOMAIN base : base[i].title = B}) < 2
            THEN {Append(base, Task(NoId, B, x, FALSE))} ELSE {})
=============================================================================
