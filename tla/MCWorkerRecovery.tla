--------------------------- MODULE MCWorkerRecovery ---------------------------
(* Small instances of WorkerRecovery for TLC. *)
EXTENDS WorkerRecovery

\* A first attempt thinks less than a later one or a retry.
MCLevel(n) == IF n = 1 THEN "low" ELSE "high"
=============================================================================
