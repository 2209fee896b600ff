----------------------------- MODULE MCRouteAdmin -----------------------------
(***************************************************************************)
(* RouteAdmin for TLC: two handlers and two prefixes.                      *)
(***************************************************************************)
EXTENDS RouteAdmin

CONSTANTS w1, w2, p, q

MCWorkers   == {w1, w2}
MCPrefixes  == {p, q}
MCPosts     == {q}
MCDeletes   == {p}
MCPayloads  == {{q}}
MCPublished == {{}, {p}}
==============================================================================
