------------------------------- MODULE MCGates -------------------------------
(***************************************************************************)
(* Gates for TLC: either authentication without a rate limit or a rate     *)
(* limit without authentication; a policy may deny or set a rate.          *)
(***************************************************************************)
EXTENDS Gates, TLC

CONSTANTS r1, r2, m1, m2, m3, p1, p2, a1, a2

MCRequests == {r1, r2}
MCMembers  == {m1, m2, m3}
MCPlaces   == {p1, p2}
MCAdmins   == {a1, a2}
MCConfigs  ==
    {[auth |-> TRUE, rpm |-> 0, reloads |-> 2,
      verdicts |-> {Unmatched, [deny |-> TRUE, rpm |-> 0]}],
     [auth |-> FALSE, rpm |-> 0, reloads |-> 1, verdicts |-> {[deny |-> FALSE, rpm |-> 1]}]}
Symmetry   == UNION {Permutations(S) : S \in {MCRequests, MCMembers, MCPlaces, MCAdmins}}
==============================================================================
