------------------------------ MODULE MCWasmPool ------------------------------
(***************************************************************************)
(* WasmPool for TLC: a pool of one, so that it can be full, and three      *)
(* Registers, so that a Run may be two behind.                             *)
(***************************************************************************)
EXTENDS WasmPool

CONSTANTS g1, g2, i1, i2, i3

MCRuns      == {g1, g2}
MCInstances == {i1, i2, i3}
==============================================================================
