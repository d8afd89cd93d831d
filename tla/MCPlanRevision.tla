--------------------------- MODULE MCPlanRevision ---------------------------
(* Every plan of up to two tasks over three texts, an author's marker and one *)
(* that an earlier revision derived, and every proposal of as many tasks.    *)
EXTENDS PlanRevision

CONSTANTS s1, A, B, x, y

Task(id, title, body, done) ==
    [id |-> id, title |-> title, body |-> body, done |-> done]

Documents(size, markers, checkboxes) ==
    {tasks \in [1..size -> {Task(i, t[1], t[2], d) :
                               i \in markers, t \in {<<A, x>>, <<A, y>>, <<B, x>>},
                               d \in checkboxes}] :
        UniqueIds(tasks)}

Derived == <<"inserted", <<A, x>>, 1>>

MCPlans == UNION {Documents(size, {NoId, s1, Derived}, BOOLEAN) : size \in 1..2}

\* Proposals without a checkbox set, and proposals that claim completion.
MCProposed(tasks) ==
    UNION {Documents(size, {NoId, s1}, {FALSE}) : size \in 1..2}
        \union Documents(2, {NoId, Derived}, {TRUE})
=============================================================================
