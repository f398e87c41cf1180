-------------------------- MODULE MCCircuitBreaker --------------------------
(* Instances of CircuitBreaker for TLC. *)
EXTENDS CircuitBreaker

CONSTANTS r1, r2, g1

TwoRequests == {r1, r2}
OneGossip == {g1}
=============================================================================
