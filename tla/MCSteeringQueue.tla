-------------------------- MODULE MCSteeringQueue --------------------------
(* Small instances of SteeringQueue for TLC. *)
EXTENDS SteeringQueue

CONSTANTS p1, p2, w1, w2

TwoProcessors == {p1, p2}
OneProcessor == {p1}
TwoWaiters == {w1, w2}
=============================================================================
