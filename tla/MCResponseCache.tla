---------------------------- MODULE MCResponseCache ----------------------------
(***************************************************************************)
(* ResponseCache for TLC: two requests, racing on one key or on two, and   *)
(* data that changes once.                                                 *)
(***************************************************************************)
EXTENDS ResponseCache

CONSTANTS r1, r2, k1, k2

MCRequests == {r1, r2}
MCKeys     == {k1, k2}
==============================================================================
