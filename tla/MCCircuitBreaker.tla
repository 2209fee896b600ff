--------------------------- MODULE MCCircuitBreaker ---------------------------
(***************************************************************************)
(* CircuitBreaker for TLC: three requests, two successes to close, a       *)
(* window of three samples, two needed for p99.                              *)
(***************************************************************************)
EXTENDS CircuitBreaker

CONSTANTS r1, r2, r3

MCRequests == {r1, r2, r3}
==============================================================================
