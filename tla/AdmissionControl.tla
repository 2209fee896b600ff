--------------------------- MODULE AdmissionControl ---------------------------
(***************************************************************************)
(* What a BackpressureLimiter promises, with no channels: a room that      *)
(* holds MaxConcurrent requests and a lobby that holds MaxQueue.  A        *)
(* request that was let in from the lobby keeps its lobby place until it   *)
(* gives it back, and it leaves the room only after that.                  *)
(***************************************************************************)
EXTENDS Integers, FiniteSets

CONSTANTS Requests, MaxConcurrent, MaxQueue

VARIABLES inside, lobby

vars == <<inside, lobby>>

Init == inside = {} /\ lobby = {}

Enter(r) ==
    /\ r \notin inside
    /\ Cardinality(inside) < MaxConcurrent
    /\ inside' = inside \cup {r}
    /\ UNCHANGED lobby

Wait(r) ==
    /\ r \notin inside \cup lobby
    /\ Cardinality(lobby) < MaxQueue
    /\ lobby' = lobby \cup {r}
    /\ UNCHANGED inside

LeaveLobby(r) ==
    /\ r \in lobby
    /\ lobby' = lobby \ {r}
    /\ UNCHANGED inside

Exit(r) ==
    /\ r \in inside \ lobby
    /\ inside' = inside \ {r}
    /\ UNCHANGED lobby

Next == \E r \in Requests : Enter(r) \/ Wait(r) \/ LeaveLobby(r) \/ Exit(r)

Spec == Init /\ [][Next]_vars
==============================================================================
