----------------------------- MODULE MCExtension -----------------------------
(* Two long tasks, one of which meets two outages and runs two workers.      *)
EXTENDS Extension

MCOperations == [c1 |-> {1, 2}, c2 |-> {}]
MCWorkers == [c1 |-> {}, c2 |-> {1, 2}]
=============================================================================
