----------------------------- MODULE ResponseCache -----------------------------
(***************************************************************************)
(* The response cache of a route (src/pkg/proxy/cache.go) and the requests *)
(* of ServeHTTP that use it: look up, and on a miss fetch from the target  *)
(* and store.  Get reads under the read lock, compares times without a     *)
(* lock and deletes under the write lock, so an entry that was replaced in *)
(* between is deleted in place of the one it looked at.                    *)
(*                                                                         *)
(* An entry is its age since Set and what it says: the version of the      *)
(* target's data when the target answered.  It expires when the age        *)
(* exceeds the TTL, and ages saturate just beyond.                         *)
(***************************************************************************)
EXTENDS Integers

CONSTANTS Requests,  \* goroutines serving requests
          Keys,      \* cache keys: digests of method, path and sorted query
          TTL,       \* in ticks
          MaxVersion,
          None

ASSUME CacheAssumption ==
    /\ TTL \in Nat
    /\ MaxVersion \in Nat
    /\ None \notin [age : 0..TTL + 1, says : 0..MaxVersion, late : BOOLEAN]

VARIABLES
    entries,   \* entries[k]: the entry, or None
    pc,        \* pc[r]: where the request of goroutine r is
    key,       \* key[r]: its cache key
    got,       \* got[r]: the entry Get read, or None
    version,   \* of the data at the target, 0..MaxVersion
    says,      \* says[r]: the version of the answer r got
    late,      \* history: the key was stored or invalidated during r's fetch
    floor,     \* history: the newest version stored, or current when
               \* invalidated, of each key
    swapped    \* history: swapped[r], r's key was stored since r's Get read it

fetch   == <<says, late>>
history == <<floor, swapped>>
vars    == <<entries, pc, key, got, version, fetch, history>>

(* late: the fetch that filled the entry was overtaken. *)
Entry == [age : 0..TTL + 1, says : 0..MaxVersion, late : BOOLEAN]

PC == {"idle", "reading", "checking", "removing", "missed", "fetching", "fetched", "served"}

TypeOK ==
    /\ entries \in [Keys -> Entry \cup {None}]
    /\ pc \in [Requests -> PC]
    /\ key \in [Requests -> Keys]
    /\ got \in [Requests -> Entry \cup {None}]
    /\ version \in 0..MaxVersion
    /\ says \in [Requests -> 0..version]
    /\ late \in [Requests -> BOOLEAN]
    /\ floor \in [Keys -> 0..version]
    /\ swapped \in [Requests -> BOOLEAN]

Init ==
    /\ entries = [k \in Keys |-> None]
    /\ pc = [r \in Requests |-> "idle"]
    /\ key \in [Requests -> Keys]
    /\ got = [r \in Requests |-> None]
    /\ version = 0
    /\ says = [r \in Requests |-> 0]
    /\ late = [r \in Requests |-> FALSE]
    /\ floor = [k \in Keys |-> 0]
    /\ swapped = [r \in Requests |-> FALSE]

Goto(r, from, to) ==
    /\ pc[r] = from
    /\ pc' = [pc EXCEPT ![r] = to]

(* time.Now().After(entry.ExpiresAt) *)
Expired(e) == e.age > TTL

Fresh(k) == entries[k] # None /\ ~Expired(entries[k])

------------------------------------------------------------------------------
(* ServeHTTP and Get *)

(* A cacheable request for key k gets to the lookup. *)
Arrive(r, k) ==
    /\ Goto(r, "idle", "reading")
    /\ key' = [key EXCEPT ![r] = k]
    /\ UNCHANGED <<entries, got, version, fetch, history>>

(* RLock; entry, ok := rc.entries[key]; RUnlock *)
Read(r) ==
    /\ Goto(r, "reading", IF entries[key[r]] = None THEN "missed" ELSE "checking")
    /\ got' = [got EXCEPT ![r] = entries[key[r]]]
    /\ UNCHANGED <<entries, key, version, fetch, history>>

(* The history of a lookup ends with it. *)
LookedUp(r) == swapped' = [swapped EXCEPT ![r] = FALSE]

Hit(r) ==
    /\ Goto(r, "checking", "served")
    /\ ~Expired(got[r])
    /\ LookedUp(r)
    /\ UNCHANGED <<entries, key, got, version, fetch, floor>>

(* Mutant: an entry in its last tick counts as expired. *)
FindExpiring(r) ==
    /\ Goto(r, "checking", "removing")
    /\ got[r].age >= TTL
    /\ got' = [got EXCEPT ![r] = None]
    /\ UNCHANGED <<entries, key, version, fetch, history>>

FindExpired(r) ==
    /\ Goto(r, "checking", "removing")
    /\ Expired(got[r])
    /\ got' = [got EXCEPT ![r] = None]
    /\ UNCHANGED <<entries, key, version, fetch, history>>

(* Lock; delete(rc.entries, key); Unlock *)
Remove(r) ==
    /\ Goto(r, "removing", "missed")
    /\ entries' = [entries EXCEPT ![key[r]] = None]
    /\ LookedUp(r)
    /\ UNCHANGED <<key, got, version, fetch, floor>>

Looking(k) == {r \in Requests : pc[r] \in {"checking", "removing"} /\ key[r] = k}

Fetching(k) == {r \in Requests : pc[r] \in {"fetching", "fetched"} /\ key[r] = k}

(* The request goes on to the target. *)
Fetch(r) ==
    /\ Goto(r, "missed", "fetching")
    /\ UNCHANGED <<entries, key, got, version, fetch, history>>

(* The target's answer is written: a 2xx is stored, any other is not. *)
FetchOK(r) ==
    /\ Goto(r, "fetching", "fetched")
    /\ says' = [says EXCEPT ![r] = version]
    /\ UNCHANGED <<entries, key, got, version, late, history>>

(* The history of a request ends with it. *)
Forget(r) == says' = [says EXCEPT ![r] = 0]

FetchOther(r) ==
    /\ pc[r] \in {"missed", "fetching"}
    /\ pc' = [pc EXCEPT ![r] = "idle"]
    /\ late' = [late EXCEPT ![r] = FALSE]
    /\ UNCHANGED <<entries, key, got, version, says, history>>

(* Answer a of request r is stored, later than what others are fetching    *)
(* and in place of what others have read.                                  *)
Stored(r, a) ==
    /\ entries' = [entries EXCEPT ![key[r]] = a]
    /\ floor' = [floor EXCEPT ![key[r]] = IF a.says > @ THEN a.says ELSE @]
    /\ late' = [s \in Requests |-> s # r /\ (late[s] \/ s \in Fetching(key[r]))]
    /\ swapped' = [s \in Requests |-> swapped[s] \/ s \in Looking(key[r])]

(* Mutant: the entry lives a tick longer than the TTL. *)
SetTooLong(r) ==
    /\ Goto(r, "fetched", "idle")
    /\ Stored(r, [age |-> -1, says |-> says[r], late |-> late[r]])
    /\ Forget(r)
    /\ UNCHANGED <<key, got, version>>

(* routeCache.Set.  ExpiresAt is computed before the lock is taken, so the *)
(* entry may have any age when it gets into the map.                       *)
Set(r) ==
    /\ Goto(r, "fetched", "idle")
    /\ \E waited \in 0..TTL + 1 :
          Stored(r, [age |-> waited, says |-> says[r], late |-> late[r]])
    /\ Forget(r)
    /\ UNCHANGED <<key, got, version>>

Return(r) ==
    /\ Goto(r, "served", "idle")
    /\ got' = [got EXCEPT ![r] = None]
    /\ UNCHANGED <<entries, key, version, fetch, history>>

------------------------------------------------------------------------------
(* The admin endpoint, the eviction goroutine, the target and the clock *)

(* Mutant: one entry is overlooked. *)
InvalidateSome ==
    /\ \E k \in Keys : entries' = [l \in Keys |-> IF l = k THEN entries[l] ELSE None]
    /\ floor' = [k \in Keys |-> version]
    /\ late' = [r \in Requests |-> pc[r] \in {"fetching", "fetched"}]
    /\ UNCHANGED <<pc, key, got, version, says, swapped>>

(* InvalidateCache(prefix, "") clears the route's cache. *)
Invalidate ==
    /\ entries' = [k \in Keys |-> None]
    /\ floor' = [k \in Keys |-> version]
    /\ late' = [r \in Requests |-> pc[r] \in {"fetching", "fetched"}]
    /\ UNCHANGED <<pc, key, got, version, says, swapped>>

(* Mutant: keeps what it should evict. *)
evictInverted ==
    /\ entries' = [k \in Keys |-> IF Fresh(k) THEN None ELSE entries[k]]
    /\ UNCHANGED <<pc, key, got, version, fetch, history>>

evictExpired ==
    /\ entries' = [k \in Keys |-> IF Fresh(k) THEN entries[k] ELSE None]
    /\ UNCHANGED <<pc, key, got, version, fetch, history>>

(* The target's data changes; MaxVersion bounds how often. *)
Change ==
    /\ version < MaxVersion
    /\ version' = version + 1
    /\ UNCHANGED <<entries, pc, key, got, fetch, history>>

Older(e) == IF e = None \/ Expired(e) THEN e ELSE [e EXCEPT !.age = @ + 1]

Tick ==
    /\ entries' = [k \in Keys |-> Older(entries[k])]
    /\ got' = [r \in Requests |-> Older(got[r])]
    /\ UNCHANGED <<pc, key, version, fetch, history>>

Serve(r) ==
    \/ \E k \in Keys : Arrive(r, k)
    \/ Read(r) \/ Hit(r) \/ FindExpired(r) \/ Remove(r)
    \/ Fetch(r) \/ FetchOK(r) \/ FetchOther(r) \/ Set(r) \/ Return(r)

Next == Invalidate \/ evictExpired \/ Change \/ Tick \/ \E r \in Requests : Serve(r)

Spec == Init /\ [][Next]_vars

(* The ticker of NewResponseCache fires and time passes; requests may stop *)
(* anywhere.                                                               *)
FairSpec == Spec /\ WF_vars(evictExpired) /\ WF_vars(Tick)

------------------------------------------------------------------------------
(* Properties *)

(* Get compares the time of the entry it read without a lock and then      *)
(* deletes by key.  A fresh entry goes only when the cache is invalidated, *)
(* or by the delete of a Get between whose read and delete the key was     *)
(* stored: what Get deletes is never the fresh entry it read, or one that  *)
(* stood there unchanged since, and the eviction goroutine takes none.     *)
FreshSurvives ==
    [][\A k \in Keys : Fresh(k) /\ entries'[k] = None =>
          \/ Invalidate
          \/ \E r \in Requests : Remove(r) /\ key[r] = k /\ swapped[r]]_vars

(* No entry outlives its TTL for good, whether anyone asks for it or not:  *)
(* the cache does not grow without bound by dead entries.                  *)
ExpiredGoes ==
    \A k \in Keys : (entries[k] # None /\ ~Fresh(k)) ~> (entries[k] = None \/ Fresh(k))

(* The cache of a key goes back to an older answer than it has held, or    *)
(* than the data was when it was invalidated, only through a request whose *)
(* fetch was under way at that Set or Invalidate: neither locks out the    *)
(* late Set, but every later fetch brings newer data.                      *)
NoOlderAnswer ==
    \A k \in Keys :
        entries[k] # None => entries[k].late \/ entries[k].says >= floor[k]

(* What makes NoOlderAnswer inductive: an answer that is about to be       *)
(* stored is as new as its key, unless it was overtaken.                   *)
AnswersAreNew ==
    \A r \in Requests :
        pc[r] = "fetched" => late[r] \/ says[r] >= floor[key[r]]

(* What makes FreshSurvives inductive: between Get's read and its delete   *)
(* the key holds what was read or nothing, unless it was stored; so when   *)
(* Get found it expired it still is.                                       *)
ReadStands ==
    \A r \in Requests :
        ~swapped[r] =>
            /\ pc[r] = "checking" => entries[key[r]] \in {got[r], None}
            /\ pc[r] = "removing" => ~Fresh(key[r])

(* The inductive invariant: types, no answer, stored or about to be, older *)
(* than its key has held unless it was overtaken, and no entry but a newly *)
(* stored one in the place of what a Get has read (Get, Set, Invalidate).  *)
IInv == TypeOK /\ NoOlderAnswer /\ AnswersAreNew /\ ReadStands
==============================================================================
