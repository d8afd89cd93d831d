------------------------------- MODULE MCGoalRun -------------------------------
(* Small instances of GoalRun for TLC. *)
EXTENDS GoalRun

\* No limit given, or a maximum, which is then the minimum too.
SomeInputs == {<<0, 0>>, <<0, 2>>}

OneIteration == {<<0, 1>>}
=============================================================================
