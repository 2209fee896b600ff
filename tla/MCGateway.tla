------------------------------ MODULE MCGateway ------------------------------
(***************************************************************************)
(* Gateway for TLC.  The breaker trips and recovers within one answer and  *)
(* one tick, so that open, half-open and closed targets all occur; one     *)
(* target is proxied, the other a bridge to the queue.                     *)
(***************************************************************************)
EXTENDS Gateway, TLC

CONSTANTS r1, r2, t1, t2

MCRequests == {r1, r2}
MCTargets  == <<t1, t2>>
MCBridged  == {t2}
MCLoads    == {-1, 1}
Symmetry   == Permutations(MCRequests)
==============================================================================
