---------------------------- MODULE NetworkRecovery ----------------------------
(***************************************************************************)
(* recoverNetworkOperation of src/src/network_recovery.ts: what is done      *)
(* between a transient failure and the end of the outage, for an operation   *)
(* `retry` that the extending module describes.                              *)
(*                                                                           *)
(*   off       no outage                                                     *)
(*   waiting   the delay before the next retry                               *)
(*   expiring  no retry fits before the deadline any more                    *)
(*   retrying  the operation, raced with the deadline and the signal         *)
(*   over      the call has settled                                          *)
(*                                                                           *)
(* Time is counted in ticks: `elapsed` since the outage began, `left` of the *)
(* delay.  A timer may fire late (module PlannerRequest).                    *)
(***************************************************************************)
EXTENDS Integers, Sequences

CONSTANTS BaseDelay, MaxDelay,  \* config.baseDelayMs, config.maxDelayMs
          MaxOutage,            \* config.maxOutageMs, where there is one
          MaxCount              \* the retry from which the delay is MaxDelay

\* resolveNetworkRecoveryConfig refuses anything else.
ASSUME RecoveryAssumption ==
    /\ {BaseDelay, MaxDelay, MaxOutage, MaxCount} \subseteq Nat \ {0}
    /\ BaseDelay <= MaxDelay
    /\ BaseDelay <= MaxOutage

VARIABLES recovery,  \* the local variables of recoverNetworkOperation
          events     \* the terminal events it has emitted, and "cleanup"

RecoveryInit ==
    /\ recovery = [phase |-> "off", retries |-> 0, elapsed |-> 0, left |-> 0]
    /\ events = <<>>

Recovering == recovery.phase \in {"waiting", "expiring", "retrying"}

-----------------------------------------------------------------------------
\* networkRetryDelayMs: exponential, capped, with equal jitter.
Capped(n) ==
    LET exponential == BaseDelay * 2 ^ (n - 1)
    IN  IF exponential < MaxDelay THEN exponential ELSE MaxDelay

Delays(n) == ((Capped(n) + 1) \div 2) .. Capped(n)

\* The count is of interest only as far as the delay depends on it.
Counted(n) == IF n < MaxCount THEN n + 1 ELSE n

Remaining == IF recovery.elapsed < MaxOutage THEN MaxOutage - recovery.elapsed ELSE 0

\* The call ends with one terminal event; `finally` emits the cleanup.
Over(event) ==
    /\ recovery' = [recovery EXCEPT !.phase = "over", !.left = 0]
    /\ events' = events \o <<event, "cleanup">>

Wait(phase, ticks, retries) ==
    /\ recovery' = [recovery EXCEPT !.phase = phase, !.left = ticks,
                                    !.retries = retries]
    /\ UNCHANGED events

\* The loop's top with a delay of d, when the deadline has not passed: a retry
\* that would start at the deadline or later is not waited for.
Scheduled(limited, d) ==
    IF limited /\ d >= Remaining
    THEN Wait("expiring", Remaining, recovery.retries)
    ELSE Wait("waiting", d, Counted(recovery.retries))

Schedule(limited) ==
    \E d \in Delays(Counted(recovery.retries)) : Scheduled(limited, d)

WaitOver == recovery.phase \in {"waiting", "expiring"} /\ recovery.left <= 0

\* Mutant: the deadline is compared as at the loop's top.
MayRetry_Late(limited) ==
    /\ recovery.phase = "waiting"
    /\ limited => recovery.elapsed <= MaxOutage

\* After the delay, which may have ended late, a retry needs time before the
\* deadline.
MayRetry(limited) ==
    /\ recovery.phase = "waiting"
    /\ limited => Remaining > 0

StartRetry ==
    /\ recovery' = [recovery EXCEPT !.phase = "retrying", !.left = 0]
    /\ UNCHANGED events

DeadlineDue(limited) ==
    limited /\ recovery.phase = "retrying" /\ Remaining = 0

\* Mutant: a retry that fails at the deadline counts as a failed recovery.
RetrySettles_FailedAtDeadline(limited, outcome) ==
    \/ outcome = "value" /\ Over("recovered")
    \/ outcome = "terminal" /\ Over("failed")
    \/ /\ outcome = "recoverable"
       /\ IF limited /\ Remaining = 0 THEN Over("failed") ELSE Schedule(limited)

\* What the settlement of a retry means.
RetrySettles(limited, outcome) ==
    \/ outcome = "value" /\ Over("recovered")
    \/ outcome = "terminal" /\ Over("failed")
    \/ /\ outcome = "recoverable"
       /\ IF limited /\ Remaining = 0 THEN Over("outage_expired")
          ELSE Schedule(limited)
=============================================================================
