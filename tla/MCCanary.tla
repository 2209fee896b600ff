------------------------------- MODULE MCCanary -------------------------------
(***************************************************************************)
(* Canary for TLC: two requests, a step larger than what is left to 100    *)
(* percent, and a second deployment of the same canary.  The weights first *)
(* configured split 100 percent, or leave nothing to the stable target,    *)
(* with or without a third target.                                         *)
(***************************************************************************)
EXTENDS Canary

CONSTANTS r1, r2

MCRequests == {r1, r2}

MCConfigured == {[stable |-> 1, canary |-> 1, others |-> 0],
                 [stable |-> 0, canary |-> 1, others |-> 1],
                 [stable |-> 0, canary |-> 1, others |-> 0]}

MCReconfigured == {[stable |-> 1, canary |-> 1, others |-> 0]}
==============================================================================
