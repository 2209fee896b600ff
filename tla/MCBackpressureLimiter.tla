------------------------- MODULE MCBackpressureLimiter -------------------------
(***************************************************************************)
(* BackpressureLimiter for TLC: five requests on two slots and one place,  *)
(* so that one waits and others find the queue full.                       *)
(***************************************************************************)
EXTENDS BackpressureLimiter

CONSTANTS r1, r2, r3, r4, r5

MCRequests == {r1, r2, r3, r4, r5}
==============================================================================
