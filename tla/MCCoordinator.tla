--------------------------- MODULE MCCoordinator ---------------------------
(* Small instances of Coordinator for TLC. *)
EXTENDS Coordinator

CONSTANTS s1, A, B, x, y

TwoClients == {Scheduler, Steering}

Task(id, title, body, done) ==
    [id |-> id, title |-> title, body |-> body, done |-> done]

\* A plan of the planner, and a pasted one with a marker and a checked box.
MCInitialPlans ==
    { <<Task(NoId, A, x, FALSE), Task(NoId, B, x, FALSE)>>,
      <<Task(s1, A, x, FALSE), Task(NoId, B, x, TRUE)>> }

\* Change and check the first task, drop it, or put task A back.
MCProposals(base) ==
    { [base EXCEPT ![1] = [@ EXCEPT !.body = IF @ = x THEN y ELSE x, !.done = TRUE]] }
    \union (IF Len(base) > 1 THEN {Tail(base)} ELSE {})
    \union (IF \A i \in DOMAIN base : base[i].title # A
            THEN {Append(base, Task(NoId, A, x, FALSE))} ELSE {})

OutcomeStates == {"done", "failed"}
=============================================================================
