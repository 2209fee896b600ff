-------------------------- MODULE ResponseCacheProofs --------------------------
(***************************************************************************)
(* Proofs about ResponseCache for any requests, keys, TTL and number of    *)
(* changes of the data.                                                    *)
(***************************************************************************)
EXTENDS ResponseCache, TLAPS

(* An entry is none of the things that stand for no entry, and ages within *)
(* its type.                                                               *)
LEMMA EntryFacts ==
    /\ None \notin Entry
    /\ \A e \in Entry \cup {None} : Older(e) \in Entry \cup {None}
    /\ \A w \in 0..TTL + 1, n \in 0..MaxVersion, b \in BOOLEAN :
          [age |-> w, says |-> n, late |-> b] \in Entry
<1> USE CacheAssumption DEF CacheAssumption
<1>1. None \notin Entry
  BY DEF Entry
<1>2. ASSUME NEW e \in Entry PROVE Older(e) \in Entry
  BY DEF Entry, Older, Expired
<1>3. \A w \in 0..TTL + 1, n \in 0..MaxVersion, b \in BOOLEAN :
         [age |-> w, says |-> n, late |-> b] \in Entry
  BY DEF Entry
<1> QED
  BY <1>1, <1>2, <1>3 DEF Older

(* Every step keeps the types. *)
LEMMA TypeStep == TypeOK /\ [Next]_vars => TypeOK'
<1> SUFFICES ASSUME TypeOK, [Next]_vars PROVE TypeOK'
  OBVIOUS
<1> USE DEF TypeOK, PC
<1>1. CASE Invalidate
  BY <1>1, CacheAssumption DEF Invalidate, CacheAssumption
<1>2. CASE evictExpired
  BY <1>2 DEF evictExpired, fetch, history
<1>3. CASE Change
  BY <1>3, CacheAssumption DEF Change, fetch, history, CacheAssumption
<1>4. CASE Tick
  BY <1>4, EntryFacts DEF Tick, fetch, history
<1>5. ASSUME NEW r \in Requests, Serve(r) PROVE TypeOK'
  <2>1. CASE \E k \in Keys : Arrive(r, k)
    BY <2>1 DEF Arrive, Goto, fetch, history
  <2>2. CASE Read(r)
    BY <2>2 DEF Read, Goto, fetch, history
  <2>3. CASE Hit(r)
    BY <2>3 DEF Hit, Goto, LookedUp, fetch
  <2>4. CASE FindExpired(r)
    BY <2>4 DEF FindExpired, Goto, fetch, history
  <2>5. CASE Remove(r)
    BY <2>5 DEF Remove, Goto, LookedUp, fetch
  <2>6. CASE Fetch(r)
    BY <2>6 DEF Fetch, Goto, fetch, history
  <2>7. CASE FetchOK(r)
    BY <2>7 DEF FetchOK, Goto, history
  <2>8. CASE FetchOther(r)
    BY <2>8 DEF FetchOther, history
  <2>9. CASE Set(r)
    <3>0. PICK w \in 0..TTL + 1 : Stored(r, [age |-> w, says |-> says[r], late |-> late[r]])
      BY <2>9 DEF Set
    <3> DEFINE a == [age |-> w, says |-> says[r], late |-> late[r]]
    <3>1. says[r] \in 0..version /\ says[r] \in 0..MaxVersion /\ key[r] \in Keys
      BY CacheAssumption DEF CacheAssumption
    <3>2. a \in Entry /\ a.says = says[r]
      BY <3>1, EntryFacts
    <3> HIDE DEF a
    <3>3. /\ pc' = [pc EXCEPT ![r] = "idle"]
          /\ Stored(r, a)
          /\ says' = [says EXCEPT ![r] = 0]
          /\ UNCHANGED <<key, got, version>>
      BY <2>9, <3>0 DEF Set, Goto, Forget, a
    <3>4. entries' \in [Keys -> Entry \cup {None}]
      BY <3>2, <3>3 DEF Stored
    <3>5. floor' \in [Keys -> 0..version]
      BY <3>1, <3>2, <3>3 DEF Stored
    <3>6. late' \in [Requests -> BOOLEAN] /\ swapped' \in [Requests -> BOOLEAN]
      BY <3>3 DEF Stored
    <3>7. version \in 0..MaxVersion /\ 0 \in 0..version
      BY CacheAssumption DEF CacheAssumption
    <3>8. says' \in [Requests -> 0..version]
      BY <3>3, <3>7
    <3>9. pc' \in [Requests -> PC]
      BY <3>3
    <3> QED
      BY <3>3, <3>4, <3>5, <3>6, <3>7, <3>8, <3>9
  <2>10. CASE Return(r)
    BY <2>10 DEF Return, Goto, fetch, history
  <2> QED
    BY <1>5, <2>1, <2>2, <2>3, <2>4, <2>5, <2>6, <2>7, <2>8, <2>9, <2>10 DEF Serve
<1>6. CASE UNCHANGED vars
  BY <1>6 DEF vars, fetch, history
<1> QED
  BY <1>1, <1>2, <1>3, <1>4, <1>5, <1>6 DEF Next

(* Every step keeps answers, stored or about to be, as new as their key    *)
(* unless they were overtaken.                                             *)
LEMMA NewStep == IInv /\ [Next]_vars => NoOlderAnswer' /\ AnswersAreNew'
<1> SUFFICES ASSUME TypeOK, NoOlderAnswer, AnswersAreNew, [Next]_vars
             PROVE  NoOlderAnswer' /\ AnswersAreNew'
  BY DEF IInv
<1> USE DEF NoOlderAnswer, AnswersAreNew
<1>1. CASE Invalidate
  BY <1>1 DEF Invalidate, TypeOK
<1>2. CASE evictExpired
  BY <1>2 DEF evictExpired, fetch, history
<1>3. CASE Change
  BY <1>3 DEF Change, fetch, history
<1>4. CASE Tick
  <2>1. ASSUME NEW e \in Entry
        PROVE  Older(e).says = e.says /\ Older(e).late = e.late
    BY DEF Older, Entry
  <2>2. ASSUME NEW k \in Keys, entries'[k] # None
        PROVE  entries[k] \in Entry /\ entries'[k] = Older(entries[k])
    BY <1>4, <2>2 DEF Tick, TypeOK, Older
  <2>3. NoOlderAnswer'
    <3> SUFFICES ASSUME NEW k \in Keys, entries'[k] # None
                 PROVE  entries'[k].late \/ entries'[k].says >= floor'[k]
      OBVIOUS
    <3>1. entries[k] \in Entry /\ entries'[k] = Older(entries[k]) /\ floor' = floor
      BY <1>4, <2>2 DEF Tick, history
    <3>2. entries'[k].says = entries[k].says /\ entries'[k].late = entries[k].late
      BY <2>1, <3>1
    <3>3. entries[k] # None
      BY <3>1, EntryFacts
    <3>4. entries[k].late \/ entries[k].says >= floor[k]
      BY <3>3
    <3> QED
      BY <3>1, <3>2, <3>4
  <2>4. AnswersAreNew'
    BY <1>4 DEF Tick, fetch, history
  <2> QED
    BY <2>3, <2>4
<1>5. ASSUME NEW r \in Requests, Serve(r) PROVE NoOlderAnswer' /\ AnswersAreNew'
  <2> USE DEF TypeOK
  <2>1. CASE \E k \in Keys : Arrive(r, k)
    BY <2>1 DEF Arrive, Goto, fetch, history
  <2>2. CASE Read(r)
    BY <2>2 DEF Read, Goto, fetch, history
  <2>3. CASE Hit(r)
    BY <2>3 DEF Hit, Goto, LookedUp, fetch
  <2>4. CASE FindExpired(r)
    BY <2>4 DEF FindExpired, Goto, fetch, history
  <2>5. CASE Remove(r)
    BY <2>5 DEF Remove, Goto, LookedUp, fetch
  <2>6. CASE Fetch(r)
    BY <2>6 DEF Fetch, Goto, fetch, history
  <2>7. CASE FetchOK(r)
    BY <2>7 DEF FetchOK, Goto, history
  <2>8. CASE FetchOther(r)
    BY <2>8 DEF FetchOther, history
  <2>9. CASE Set(r)
    <3>0. PICK w \in 0..TTL + 1 : Stored(r, [age |-> w, says |-> says[r], late |-> late[r]])
      BY <2>9 DEF Set
    <3> DEFINE a == [age |-> w, says |-> says[r], late |-> late[r]]
    <3>1. a.says = says[r] /\ a.late = late[r] /\ says[r] \in Nat
      OBVIOUS
    <3> HIDE DEF a
    <3>2. /\ pc[r] = "fetched"
          /\ pc' = [pc EXCEPT ![r] = "idle"]
          /\ entries' = [entries EXCEPT ![key[r]] = a]
          /\ floor' = [floor EXCEPT ![key[r]] = IF a.says > @ THEN a.says ELSE @]
          /\ late' = [s \in Requests |-> s # r /\ (late[s] \/ s \in Fetching(key[r]))]
          /\ says' = [says EXCEPT ![r] = 0]
          /\ key' = key
      BY <2>9, <3>0 DEF Set, Goto, Stored, Forget, a
    <3>3. a.late \/ a.says >= floor'[key[r]]
      <4>1. late[r] \/ says[r] >= floor[key[r]]
        BY <3>2
      <4>2. /\ floor[key[r]] \in Nat
            /\ floor'[key[r]] = IF a.says > floor[key[r]] THEN a.says ELSE floor[key[r]]
        BY <3>2
      <4> QED
        BY <3>1, <4>1, <4>2
    <3>4. NoOlderAnswer'
      <4> SUFFICES ASSUME NEW k \in Keys, entries'[k] # None
                   PROVE  entries'[k].late \/ entries'[k].says >= floor'[k]
        OBVIOUS
      <4>1. CASE k = key[r]
        BY <3>2, <3>3, <4>1
      <4>2. CASE k # key[r]
        <5>1. entries'[k] = entries[k] /\ floor'[k] = floor[k]
          BY <3>2, <4>2
        <5> QED
          BY <5>1
      <4> QED
        BY <4>1, <4>2
    <3>5. AnswersAreNew'
      <4> SUFFICES ASSUME NEW s \in Requests, pc'[s] = "fetched"
                   PROVE  late'[s] \/ says'[s] >= floor'[key'[s]]
        OBVIOUS
      <4>1. s # r /\ pc[s] = "fetched" /\ says'[s] = says[s] /\ key'[s] = key[s]
        BY <3>2
      <4>2. CASE key[s] = key[r]
        BY <3>2, <4>1, <4>2 DEF Fetching
      <4>3. CASE key[s] # key[r]
        BY <3>2, <4>1, <4>3
      <4> QED
        BY <4>2, <4>3
    <3> QED
      BY <3>4, <3>5
  <2>10. CASE Return(r)
    BY <2>10 DEF Return, Goto, fetch, history
  <2> QED
    BY <1>5, <2>1, <2>2, <2>3, <2>4, <2>5, <2>6, <2>7, <2>8, <2>9, <2>10 DEF Serve
<1>6. CASE UNCHANGED vars
  BY <1>6 DEF vars, fetch, history
<1> QED
  BY <1>1, <1>2, <1>3, <1>4, <1>5, <1>6 DEF Next

(* Every step keeps what a Get has read in its place, unless the key is    *)
(* stored.                                                                 *)
LEMMA ReadStep == IInv /\ [Next]_vars => ReadStands'
<1> SUFFICES ASSUME TypeOK, ReadStands, [Next]_vars,
                    NEW s \in Requests, ~swapped'[s]
             PROVE  /\ pc'[s] = "checking" => entries'[key'[s]] \in {got'[s], None}
                    /\ pc'[s] = "removing" => ~Fresh(key[s])'
  BY DEF IInv, ReadStands
<1>0. ~swapped[s] => /\ pc[s] = "checking" => entries[key[s]] \in {got[s], None}
                     /\ pc[s] = "removing" => ~Fresh(key[s])
  BY DEF ReadStands
<1> USE DEF TypeOK, Fresh
<1>1. CASE Invalidate
  BY <1>0, <1>1 DEF Invalidate
<1>2. CASE evictExpired
  BY <1>0, <1>2 DEF evictExpired, history
<1>3. CASE Change
  BY <1>0, <1>3 DEF Change, history
<1>4. CASE Tick
  <2>1. /\ pc' = pc /\ key' = key /\ swapped' = swapped
        /\ entries'[key[s]] = Older(entries[key[s]])
        /\ got'[s] = Older(got[s])
    BY <1>4 DEF Tick, history
  <2>2. Older(None) = None
    BY DEF Older
  <2>3. ASSUME NEW e \in Entry \cup {None}, ~(e # None /\ ~Expired(e)) PROVE Older(e) = e
    BY <2>3 DEF Older
  <2> QED
    BY <1>0, <2>1, <2>2, <2>3
<1>5. ASSUME NEW r \in Requests, Serve(r)
      PROVE  /\ pc'[s] = "checking" => entries'[key'[s]] \in {got'[s], None}
             /\ pc'[s] = "removing" => ~Fresh(key[s])'
  <2>1. CASE \E k \in Keys : Arrive(r, k)
    BY <1>0, <2>1 DEF Arrive, Goto, history
  <2>2. CASE Read(r)
    BY <1>0, <2>2 DEF Read, Goto, history
  <2>3. CASE Hit(r)
    BY <1>0, <2>3 DEF Hit, Goto, LookedUp
  <2>4. CASE FindExpired(r)
    BY <1>0, <2>4 DEF FindExpired, Goto, history
  <2>5. CASE Remove(r)
    BY <1>0, <2>5 DEF Remove, Goto, LookedUp
  <2>6. CASE Fetch(r)
    BY <1>0, <2>6 DEF Fetch, Goto, history
  <2>7. CASE FetchOK(r)
    BY <1>0, <2>7 DEF FetchOK, Goto, history
  <2>8. CASE FetchOther(r)
    BY <1>0, <2>8 DEF FetchOther, history
  <2>9. CASE Set(r)
    <3>1. PICK w \in 0..TTL + 1 : Stored(r, [age |-> w, says |-> says[r], late |-> late[r]])
      BY <2>9 DEF Set
    <3>2. /\ pc' = [pc EXCEPT ![r] = "idle"]
          /\ key' = key /\ got' = got
          /\ swapped' = [q \in Requests |-> swapped[q] \/ q \in Looking(key[r])]
          /\ \A k \in Keys : k # key[r] => entries'[k] = entries[k]
      BY <2>9, <3>1 DEF Set, Stored, Goto
    <3>3. ~swapped[s] /\ s \notin Looking(key[r])
      BY <3>2
    <3> QED
      BY <1>0, <3>2, <3>3 DEF Looking
  <2>10. CASE Return(r)
    BY <1>0, <2>10 DEF Return, Goto, history
  <2> QED
    BY <1>5, <2>1, <2>2, <2>3, <2>4, <2>5, <2>6, <2>7, <2>8, <2>9, <2>10 DEF Serve
<1>6. CASE UNCHANGED vars
  BY <1>0, <1>6 DEF vars, history
<1> QED
  BY <1>1, <1>2, <1>3, <1>4, <1>5, <1>6 DEF Next

(* The types, the age of answers and what a Get finds when it deletes hold *)
(* in every reachable state                                                *)
(* (ResponseCache in src/pkg/proxy/cache.go and its use in ServeHTTP).     *)
THEOREM CacheInvariant == Spec => []IInv
<1>1. Init => IInv
  BY CacheAssumption DEF Init, IInv, TypeOK, AnswersAreNew, NoOlderAnswer, ReadStands, PC,
                         CacheAssumption
<1>2. IInv /\ [Next]_vars => IInv'
  BY TypeStep, NewStep, ReadStep DEF IInv
<1> QED
  BY <1>1, <1>2, PTL DEF Spec

(* An answer older than what its key has held comes back only through a    *)
(* fetch that a Set or an Invalidate overtook.                             *)
THEOREM OnlyOvertakenAreOlder == Spec => []NoOlderAnswer
<1>1. IInv => NoOlderAnswer
  BY DEF IInv
<1> QED
  BY <1>1, CacheInvariant, PTL

(* A fresh entry goes only by an Invalidate, or by the delete of a Get     *)
(* between whose read and delete its key was stored; neither evictExpired, *)
(* nor the clock, nor any other Get takes one (Get, evictExpired): the     *)
(* invariant ReadStands says what stands in the cache between the two.     *)
THEOREM FreshAreKept == Spec => FreshSurvives
<1>1. IInv /\ [Next]_vars =>
         [\A k \in Keys : Fresh(k) /\ entries'[k] = None =>
             \/ Invalidate
             \/ \E r \in Requests : Remove(r) /\ key[r] = k /\ swapped[r]]_vars
  <2> SUFFICES ASSUME IInv, Next, NEW k \in Keys, Fresh(k), entries'[k] = None
               PROVE  Invalidate \/ \E r \in Requests : Remove(r) /\ key[r] = k /\ swapped[r]
    OBVIOUS
  <2>1. entries \in [Keys -> Entry \cup {None}] /\ key \in [Requests -> Keys] /\ entries[k] # None
    BY DEF IInv, TypeOK, Fresh
  <2>2. None \notin Entry
    BY CacheAssumption DEF CacheAssumption, Entry
  <2>3. CASE Invalidate
    BY <2>3
  <2>4. CASE evictExpired
    BY <2>1, <2>4 DEF evictExpired, Fresh
  <2>5. CASE Change
    BY <2>1, <2>5 DEF Change
  <2>6. CASE Tick
    <3>1. Older(entries[k]) = None
      BY <2>6 DEF Tick
    <3>2. Older(entries[k]) \in Entry
      <4>1. entries[k] \in Entry /\ ~Expired(entries[k])
        BY <2>1 DEF Fresh
      <4>2. entries[k].age \in 0..TTL + 1 /\ ~(entries[k].age > TTL)
        BY <4>1 DEF Entry, Expired
      <4>3. entries[k].age + 1 \in 0..TTL + 1
        BY <4>2, CacheAssumption DEF CacheAssumption
      <4> QED
        BY <2>1, <4>1, <4>3 DEF Older, Entry
    <3> QED
      BY <2>2, <3>1, <3>2
  <2>7. ASSUME NEW r \in Requests, Serve(r)
        PROVE  \E s \in Requests : Remove(s) /\ key[s] = k /\ swapped[s]
    <3>1. CASE Remove(r)
      <4>1. entries' = [entries EXCEPT ![key[r]] = None]
        BY <3>1 DEF Remove
      <4>2. key[r] = k
        BY <2>1, <4>1
      <4>3. pc[r] = "removing"
        BY <3>1 DEF Remove, Goto
      <4>4. swapped[r]
        BY <4>2, <4>3 DEF IInv, ReadStands
      <4> QED
        BY <3>1, <4>2, <4>4
    <3>2. CASE Set(r)
      <4>1. PICK w \in 0..TTL + 1 :
              entries' = [entries EXCEPT ![key[r]] = [age |-> w, says |-> says[r], late |-> late[r]]]
        BY <3>2 DEF Set, Stored
      <4>2. [age |-> w, says |-> says[r], late |-> late[r]] \in Entry
        BY CacheAssumption DEF CacheAssumption, Entry, IInv, TypeOK
      <4> QED
        BY <2>1, <2>2, <4>1, <4>2
    <3>3. CASE UNCHANGED entries
      BY <2>1, <3>3
    <3> QED
      BY <2>7, <3>1, <3>2, <3>3 DEF Serve, Arrive, Read, Hit, FindExpired, Fetch, FetchOK,
                                    FetchOther, Return
  <2> QED
    BY <2>3, <2>4, <2>5, <2>6, <2>7 DEF Next
<1> QED
  BY <1>1, CacheInvariant, PTL DEF Spec, FreshSurvives
==============================================================================
