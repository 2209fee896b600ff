----------------------------- MODULE GatesProofs -----------------------------
(***************************************************************************)
(* Proofs about the gates, for any number of requests, admins and members, *)
(* any limits and any window.                                              *)
(***************************************************************************)
EXTENDS Gates, FiniteSetTheorems, TLAPS

------------------------------------------------------------------------------
(* The rate limiter *)

(* The sets counted are finite, and so are counts of parts of them. *)
LEMMA Counts ==
    /\ \A S : S \in SUBSET Members \/ S \in SUBSET Places =>
          IsFiniteSet(S) /\ Cardinality(S) \in Nat
    /\ \A S \in SUBSET Requests : IsFiniteSet(S) /\ Cardinality(S) \in Nat
                                  /\ Cardinality(S) <= Cardinality(Requests)
    /\ \A S, T : (T \in SUBSET Members \/ T \in SUBSET Places \/ T \in SUBSET Requests)
                 /\ S \subseteq T => Cardinality(S) <= Cardinality(T)
<1> USE RateLimiterAssumption DEF RateLimiterAssumption
<1>1. ASSUME NEW S, S \in SUBSET Members \/ S \in SUBSET Places
      PROVE  IsFiniteSet(S) /\ Cardinality(S) \in Nat
  BY <1>1, FS_Subset, FS_CardinalityType
<1>2. \A S \in SUBSET Requests : IsFiniteSet(S) /\ Cardinality(S) \in Nat
                                 /\ Cardinality(S) <= Cardinality(Requests)
  BY FS_Subset, FS_CardinalityType
<1>3. ASSUME NEW S, NEW T,
             T \in SUBSET Members \/ T \in SUBSET Places \/ T \in SUBSET Requests, S \subseteq T
      PROVE  Cardinality(S) <= Cardinality(T)
  <2>1. IsFiniteSet(T)
    BY <1>1, <1>2, <1>3
  <2> QED
    BY <1>3, <2>1, FS_Subset
<1> QED
  BY <1>1, <1>2, <1>3

(* Adding one to a finite set adds at most one to its count. *)
LEMMA OneMore ==
    ASSUME NEW S, IsFiniteSet(S), NEW x
    PROVE  Cardinality(S \cup {x}) <= Cardinality(S) + 1
<1>1. Cardinality(S) \in Nat
  BY FS_CardinalityType
<1>2. Cardinality(S \cup {x}) = IF x \in S THEN Cardinality(S) ELSE Cardinality(S) + 1
  BY FS_AddElement
<1> QED
  BY <1>1, <1>2

(* Pruning takes away only what is outside the window, and ageing brings   *)
(* nothing into it.                                                        *)
LEMMA LogFacts ==
    ASSUME NEW S, NEW log \in [S -> Ages], NEW s \in 0..RedisTimeout
    PROVE  /\ InWindow(log) \subseteq S
           /\ Kept(log, s) \subseteq S
           /\ Pruned(log, s) \in [S -> Ages]
           /\ InWindow(Pruned(log, s)) = InWindow(log)
           /\ InWindow(log) \subseteq Kept(log, s)
           /\ Kept(log, 0) = InWindow(log)
           /\ Older(log) \in [S -> Ages]
           /\ InWindow(Older(log)) \subseteq InWindow(log)
<1> USE RateLimiterAssumption DEF RateLimiterAssumption, Ages, Absent, Oldest
<1>0. DOMAIN log = S
  OBVIOUS
<1>1. Pruned(log, s) \in [S -> Ages]
  BY <1>0 DEF Pruned
<1>2. InWindow(log) \subseteq Kept(log, s) /\ InWindow(log) \subseteq S /\ Kept(log, s) \subseteq S
  BY <1>0 DEF InWindow, Kept
<1>3. InWindow(Pruned(log, s)) = InWindow(log)
  <2>1. \A m \in S : Pruned(log, s)[m] = IF m \in Kept(log, s) THEN log[m] ELSE Absent
    BY <1>0 DEF Pruned
  <2>2. DOMAIN Pruned(log, s) = S
    BY <1>1
  <2> QED
    BY <1>0, <1>2, <2>1, <2>2 DEF InWindow
<1>4. Kept(log, 0) = InWindow(log)
  BY <1>0 DEF InWindow, Kept
<1>5. Older(log) \in [S -> Ages]
  BY <1>0 DEF Older
<1>6. InWindow(Older(log)) \subseteq InWindow(log)
  <2>1. \A m \in S : Older(log)[m] = IF log[m] \in {Absent, Oldest} THEN log[m] ELSE log[m] + 1
    BY <1>0 DEF Older
  <2>2. DOMAIN Older(log) = S
    BY <1>5
  <2> QED
    BY <1>0, <2>1, <2>2 DEF InWindow
<1> QED
  BY <1>1, <1>2, <1>3, <1>4, <1>5, <1>6

(* One step of the limiter: a call begins or goes on, Redis executes or    *)
(* loses a ZADD, a verdict is taken away, time passes, the process         *)
(* restarts, or nothing happens.                                           *)
Collect(r) ==
    /\ rl[r] \in {"limited", "pass"}
    /\ rl' = [rl EXCEPT ![r] = "out"]
    /\ UNCHANGED <<redis, adds, history, lim, since>>

LimiterNext ==
    \/ LimiterTick \/ LimiterRestart \/ Redis
    \/ \E r \in Requests : isRateLimited(r) \/ Collect(r) \/ \E l \in Limits : Enter(r, l)

(* The members of the last minute whose call waited for them. *)
Awaited == InWindow(redis) \ astray

(* Forgetting changes nothing of the last minute. *)
LEMMA ForgetFacts ==
    ASSUME Forget, LimiterTypeOK
    PROVE  /\ astray' \in SUBSET Members
           /\ Awaited' = InWindow(redis') \ astray
           /\ \A m \in InWindow(sent') : m \notin astray' => m \notin astray
BY DEF Forget, Awaited, InWindow, LimiterTypeOK

(* Counts of this state and the next are numbers. *)
LEMMA CountTypes ==
    ASSUME LimiterTypeOK, LimiterTypeOK'
    PROVE  /\ Cardinality(Awaited) \in Nat /\ Cardinality(Awaited') \in Nat
           /\ Cardinality(InWindow(history)) \in Nat /\ Cardinality(InWindow(history')) \in Nat
           /\ Cardinality(Waiting) \in Nat /\ Cardinality(Waiting') \in Nat
           /\ Cardinality(Waiting') <= Cardinality(Requests)
           /\ Cardinality(Requests) \in Nat
<1>1. Awaited \in SUBSET Members /\ Awaited' \in SUBSET Members
  BY DEF Awaited, InWindow, LimiterTypeOK
<1>2. InWindow(history) \in SUBSET Places /\ InWindow(history') \in SUBSET Places
  BY DEF InWindow, LimiterTypeOK
<1>3. Waiting \in SUBSET Requests /\ Waiting' \in SUBSET Requests
  BY DEF Waiting
<1>4. Cardinality(Requests) \in Nat
  BY Counts
<1> QED
  BY <1>1, <1>2, <1>3, <1>4, Counts

(* A call that returns keeps the types of its locals. *)
LEMMA VerdictFacts ==
    ASSUME LimiterTypeOK, NEW r \in Requests, NEW from, NEW v \in {"pass", "limited"},
           Verdict(r, from, v)
    PROVE  /\ rl' \in [Requests -> RL]
           /\ lim' \in [Requests -> 0..MaxLimit]
           /\ since' \in [Requests -> 0..RedisTimeout]
BY RateLimiterAssumption DEF LimiterTypeOK, Verdict, RL, RateLimiterAssumption

(* A step after which neither log holds more of the last minute, and       *)
(* nobody else waits.                                                      *)
LEMMA CountsKept ==
    ASSUME LimiterInv, LimiterTypeOK', InWindow(history') \subseteq InWindow(history),
           Awaited' \subseteq Awaited, Waiting' \subseteq Waiting
    PROVE  RedisAccounted' /\ LocalBounded'
<1>1. Awaited \in SUBSET Members /\ InWindow(history) \in SUBSET Places
      /\ Waiting \in SUBSET Requests
  BY DEF LimiterInv, LimiterTypeOK, Awaited, InWindow, Waiting
<1>2. /\ Cardinality(Awaited') <= Cardinality(Awaited)
      /\ Cardinality(InWindow(history')) <= Cardinality(InWindow(history))
      /\ Cardinality(Waiting') <= Cardinality(Waiting)
  BY <1>1, Counts
<1>3. /\ Cardinality(Awaited) + Cardinality(Waiting) <= MaxLimit + Cardinality(Requests) - 1
      /\ Cardinality(InWindow(history)) <= MaxLimit
  BY DEF LimiterInv, RedisAccounted, LocalBounded, Awaited
<1>4. /\ Cardinality(Awaited') + Cardinality(Waiting') <= MaxLimit + Cardinality(Requests) - 1
      /\ Cardinality(InWindow(history')) <= MaxLimit
  BY <1>2, <1>3, CountTypes, RateLimiterAssumption DEF LimiterInv, RateLimiterAssumption
<1> QED
  BY <1>4 DEF RedisAccounted, LocalBounded, Awaited

(* A count that lets a call add, or turns it away. *)
LEMMA CountInv ==
    ASSUME LimiterInv, NEW r \in Requests, RedisCount(r)
    PROVE  LimiterInv'
<1> USE RateLimiterAssumption DEF RateLimiterAssumption, LimiterInv
<1>0. /\ since[r] \in 0..RedisTimeout /\ lim[r] \in 0..MaxLimit
      /\ redis \in [Members -> Ages] /\ sent \in [Members -> Ages]
      /\ since[r] \in Ages
  BY DEF LimiterTypeOK, Ages, Absent, Oldest
<1>1. /\ redis' \in [Members -> Ages] /\ history' = history
      /\ InWindow(redis') = InWindow(redis)
      /\ InWindow(redis) \subseteq Kept(redis, since[r])
      /\ Kept(redis, since[r]) \subseteq Members
  BY <1>0, LogFacts DEF RedisCount
<1>2. /\ astray' \in SUBSET Members
      /\ Awaited' = Awaited
      /\ \A m \in InWindow(sent') : m \notin astray' => m \notin astray
  BY <1>1, ForgetFacts DEF RedisCount, Awaited
<1>3. CASE Verdict(r, "counting", "limited") /\ UNCHANGED <<sent, member>>
  <2>1. LimiterTypeOK'
    BY <1>1, <1>2, <1>3, VerdictFacts DEF LimiterTypeOK
  <2>2. SentIsAwaited'
    BY <1>2, <1>3 DEF SentIsAwaited, InWindow
  <2>3. OnlyAddersWait'
    BY <1>3 DEF OnlyAddersWait, Verdict, LimiterTypeOK
  <2>4. Waiting' = Waiting
    BY <1>3 DEF Waiting
  <2> QED
    BY <1>1, <1>2, <2>1, <2>2, <2>3, <2>4, CountsKept
<1>4. CASE SendAdd(r) /\ ~(Cardinality(Kept(redis, since[r])) >= lim[r])
  <2>1. PICK m \in Members : /\ sent' = [sent EXCEPT ![m] = since[r]]
                             /\ member' = [member EXCEPT ![r] = {m}]
    BY <1>4 DEF SendAdd, Unused
  <2>2. /\ rl[r] = "counting" /\ rl' = [rl EXCEPT ![r] = "adding"]
        /\ UNCHANGED <<lim, since>>
    BY <1>4 DEF SendAdd
  <2>3. LimiterTypeOK'
    BY <1>0, <1>1, <1>2, <2>1, <2>2 DEF LimiterTypeOK, RL
  <2>4. SentIsAwaited'
    <3> SUFFICES ASSUME NEW n \in InWindow(sent'), n \notin astray'
                 PROVE  \E q \in Requests : member'[q] = {n}
      BY DEF SentIsAwaited, InWindow
    <3>1. CASE n = m
      BY <2>1, <3>1 DEF LimiterTypeOK
    <3>2. CASE n # m
      <4>1. n \in InWindow(sent) /\ n \notin astray
        BY <1>0, <1>2, <2>1, <3>2 DEF InWindow
      <4>2. PICK q \in Requests : member[q] = {n}
        BY <4>1 DEF SentIsAwaited
      <4>3. rl[q] = "adding"
        BY <4>2 DEF OnlyAddersWait
      <4>4. q # r
        BY <2>2, <4>3
      <4> QED
        BY <2>1, <4>2, <4>4 DEF LimiterTypeOK
    <3> QED
      BY <3>1, <3>2
  <2>5. OnlyAddersWait'
    BY <2>1, <2>2 DEF OnlyAddersWait, LimiterTypeOK
  <2>6. Cardinality(Awaited') < lim[r]
    <3>1. Awaited \subseteq Kept(redis, since[r])
      BY <1>1 DEF Awaited
    <3>2. /\ Cardinality(Awaited) <= Cardinality(Kept(redis, since[r]))
          /\ Cardinality(Kept(redis, since[r])) \in Nat
      BY <1>1, <3>1, Counts
    <3> QED
      BY <1>0, <1>2, <1>4, <2>3, <3>2, CountTypes
  <2>7. RedisAccounted'
    <3>1. Cardinality(Awaited') + Cardinality(Waiting') <= MaxLimit + Cardinality(Requests) - 1
      BY <1>0, <2>3, <2>6, CountTypes
    <3> QED
      BY <3>1 DEF RedisAccounted, Awaited
  <2>8. LocalBounded'
    BY <1>1 DEF LocalBounded, InWindow
  <2> QED
    BY <2>3, <2>4, <2>5, <2>7, <2>8
<1> QED
  BY <1>3, <1>4 DEF RedisCount

(* Redis executes a ZADD: the call that waits for it, if one does, is      *)
(* counted in the log instead; an astray one is not counted.               *)
LEMMA ExecutesInv ==
    ASSUME LimiterInv, NEW m \in Members, RedisExecutes(m)
    PROVE  LimiterInv'
<1> USE RateLimiterAssumption DEF RateLimiterAssumption, LimiterInv
<1>1. LimiterTypeOK'
  BY DEF LimiterTypeOK, RedisExecutes, Answered, Ages, Absent, Oldest
<1>2. SentIsAwaited'
  <2> SUFFICES ASSUME NEW n \in InWindow(sent'), n \notin astray'
               PROVE  \E q \in Requests : member'[q] = {n}
    BY DEF SentIsAwaited, InWindow
  <2>1. n \in InWindow(sent) /\ n # m /\ n \notin astray
    BY DEF RedisExecutes, InWindow, LimiterTypeOK
  <2>2. PICK q \in Requests : member[q] = {n}
    BY <2>1 DEF SentIsAwaited
  <2>3. member'[q] = {n}
    BY <2>1, <2>2 DEF RedisExecutes, Answered
  <2> QED
    BY <2>3
<1>3. OnlyAddersWait'
  BY DEF OnlyAddersWait, RedisExecutes, Answered
<1>4. Waiting' \subseteq Waiting
  BY DEF Waiting, RedisExecutes, Answered
<1>5. InWindow(history') = InWindow(history)
  BY DEF RedisExecutes
<1>6. CASE Awaited' \subseteq Awaited
  BY <1>1, <1>2, <1>3, <1>4, <1>5, <1>6, CountsKept
<1>7. CASE ~(Awaited' \subseteq Awaited)
  <2>1. Awaited' \subseteq Awaited \cup {m}
    BY DEF RedisExecutes, Awaited, InWindow, LimiterTypeOK
  <2>2. m \in InWindow(sent) /\ m \notin astray
    BY <1>7, <2>1 DEF RedisExecutes, Awaited, InWindow, LimiterTypeOK
  <2>3. PICK q \in Requests : member[q] = {m}
    BY <2>2 DEF SentIsAwaited
  <2>4. q \in Waiting /\ Waiting' \subseteq Waiting \ {q}
    BY <1>4, <2>3 DEF Waiting, RedisExecutes, Answered
  <2>5. /\ Cardinality(Awaited \cup {m}) <= Cardinality(Awaited) + 1
        /\ Cardinality(Awaited') <= Cardinality(Awaited \cup {m})
        /\ Cardinality(Awaited \cup {m}) \in Nat
    <3>1. Awaited \in SUBSET Members /\ Awaited \cup {m} \in SUBSET Members
      BY DEF Awaited, InWindow, LimiterTypeOK
    <3>2. IsFiniteSet(Awaited) /\ Cardinality(Awaited) \in Nat
      BY <3>1, Counts
    <3>3. Cardinality(Awaited \cup {m}) <= Cardinality(Awaited) + 1
      BY <3>2, OneMore
    <3> QED
      BY <2>1, <3>1, <3>3, Counts
  <2>6. /\ Cardinality(Waiting \ {q}) = Cardinality(Waiting) - 1
        /\ Cardinality(Waiting') <= Cardinality(Waiting \ {q})
    <3>1. Waiting \in SUBSET Requests /\ Waiting \ {q} \in SUBSET Requests
      BY DEF Waiting
    <3>2. Cardinality(Waiting \ {q}) = Cardinality(Waiting) - 1
      BY <2>4, <3>1, Counts, FS_RemoveElement
    <3> QED
      BY <2>4, <3>1, <3>2, Counts
  <2>7. Cardinality(Awaited) + Cardinality(Waiting) <= MaxLimit + Cardinality(Requests) - 1
    BY DEF RedisAccounted, Awaited
  <2>8. Cardinality(Awaited') + Cardinality(Waiting') <= MaxLimit + Cardinality(Requests) - 1
    BY <1>1, <2>5, <2>6, <2>7, CountTypes
  <2>9. RedisAccounted' /\ LocalBounded'
    BY <1>5, <2>8 DEF RedisAccounted, LocalBounded, Awaited
  <2> QED
    BY <1>1, <1>2, <1>3, <2>9
<1> QED
  BY <1>6, <1>7

(* Every step of the limiter keeps its invariant. *)
LEMMA LimiterStep == LimiterInv /\ [LimiterNext]_limiterVars => LimiterInv'
<1> SUFFICES ASSUME LimiterInv, [LimiterNext]_limiterVars PROVE LimiterInv'
  OBVIOUS
<1> USE RateLimiterAssumption DEF RateLimiterAssumption, LimiterInv
<1>1. CASE LimiterTick
  <2>0. 0 \in 0..RedisTimeout
    OBVIOUS
  <2>1. /\ redis' = Older(redis) /\ sent' = Older(sent) /\ history' = Older(history)
        /\ redis \in [Members -> Ages] /\ sent \in [Members -> Ages] /\ history \in [Places -> Ages]
        /\ member' = member /\ rl' = rl /\ lim' = lim
    BY <1>1 DEF LimiterTick, LimiterTypeOK
  <2>2. /\ redis' \in [Members -> Ages] /\ InWindow(redis') \subseteq InWindow(redis)
        /\ sent' \in [Members -> Ages] /\ InWindow(sent') \subseteq InWindow(sent)
        /\ history' \in [Places -> Ages] /\ InWindow(history') \subseteq InWindow(history)
    BY <2>0, <2>1, LogFacts
  <2>3. /\ astray' \in SUBSET Members
        /\ Awaited' \subseteq Awaited
        /\ \A m \in InWindow(sent') : m \notin astray' => m \notin astray
    BY <1>1, <2>2, ForgetFacts DEF LimiterTick, Awaited
  <2>4. LimiterTypeOK'
    BY <1>1, <2>1, <2>2, <2>3 DEF LimiterTypeOK, LimiterTick, InRedis
  <2>5. SentIsAwaited'
    BY <2>1, <2>2, <2>3 DEF SentIsAwaited, InWindow
  <2>6. OnlyAddersWait' /\ Waiting' = Waiting
    BY <2>1 DEF OnlyAddersWait, Waiting
  <2> QED
    BY <2>2, <2>3, <2>4, <2>5, <2>6, CountsKept
<1>2. CASE LimiterRestart
  <2>1. LimiterTypeOK'
    BY <1>2 DEF LimiterTypeOK, LimiterRestart, RL, Ages, Absent, Oldest, InWindow
  <2>2. InWindow(history') = {} /\ Awaited' \subseteq Awaited /\ Waiting' = {}
    BY <1>2 DEF LimiterRestart, InWindow, Awaited, Waiting
  <2>3. SentIsAwaited' /\ OnlyAddersWait'
    BY <1>2 DEF LimiterRestart, SentIsAwaited, OnlyAddersWait, InWindow
  <2> QED
    BY <2>1, <2>2, <2>3, CountsKept
<1>3. ASSUME NEW r \in Requests, RedisFails(r) PROVE LimiterInv'
  <2>0. since[r] \in 0..RedisTimeout /\ redis \in [Members -> Ages] /\ 0 \in 0..RedisTimeout
    BY DEF LimiterTypeOK
  <2>1. redis' \in [Members -> Ages] /\ InWindow(redis') = InWindow(redis)
    BY <1>3, <2>0, LogFacts DEF RedisFails
  <2>2. /\ astray' \in SUBSET Members
        /\ Awaited' = Awaited
        /\ \A m \in InWindow(sent') : m \notin astray' => m \notin astray
    BY <1>3, <2>1, ForgetFacts DEF RedisFails, Awaited
  <2>3. LimiterTypeOK'
    BY <1>3, <2>0, <2>1, <2>2 DEF LimiterTypeOK, RedisFails, RL
  <2>4. SentIsAwaited'
    BY <1>3, <2>2 DEF SentIsAwaited, InWindow, RedisFails
  <2>5. OnlyAddersWait' /\ Waiting' = Waiting /\ history' = history
    BY <1>3 DEF OnlyAddersWait, Waiting, RedisFails, LimiterTypeOK
  <2> QED
    BY <2>2, <2>3, <2>4, <2>5, CountsKept
<1>4. ASSUME NEW r \in Requests, RedisAdd(r) PROVE LimiterInv'
  <2>1. /\ Verdict(r, "adding", "pass")
        /\ member' = [member EXCEPT ![r] = {}]
        /\ astray' = astray \cup (member[r] \cap InWindow(sent))
        /\ redis' = redis /\ sent' = sent /\ history' = history
    BY <1>4 DEF RedisAdd
  <2>2. LimiterTypeOK'
    BY <2>1, VerdictFacts DEF LimiterTypeOK, InWindow
  <2>3. SentIsAwaited'
    <3> SUFFICES ASSUME NEW n \in InWindow(sent), n \notin astray'
                 PROVE  \E q \in Requests : member'[q] = {n}
      BY <2>1 DEF SentIsAwaited, InWindow
    <3>1. PICK q \in Requests : member[q] = {n}
      BY <2>1 DEF SentIsAwaited
    <3>2. q # r
      BY <2>1, <3>1
    <3> QED
      BY <2>1, <3>1, <3>2 DEF LimiterTypeOK
  <2>4. OnlyAddersWait' /\ Waiting' \subseteq Waiting
    BY <2>1 DEF OnlyAddersWait, Waiting, Verdict, LimiterTypeOK
  <2>5. Awaited' \subseteq Awaited
    BY <2>1 DEF Awaited
  <2> QED
    BY <2>1, <2>2, <2>3, <2>4, <2>5, CountsKept
<1>5. ASSUME NEW r \in Requests, Local(r) PROVE LimiterInv'
  <2>0. /\ 0 \in 0..RedisTimeout /\ lim[r] \in 0..MaxLimit /\ 0 \in Ages
        /\ history \in [Places -> Ages]
    BY DEF LimiterTypeOK, Ages, Absent, Oldest
  <2>1. redis' = redis /\ sent' = sent /\ member' = member /\ astray' = astray
    BY <1>5 DEF Local, adds
  <2>2. /\ Pruned(history, 0) \in [Places -> Ages]
        /\ Kept(history, 0) = InWindow(history)
        /\ InWindow(Pruned(history, 0)) = InWindow(history)
        /\ InWindow(history) \in SUBSET Places
    BY <2>0, LogFacts
  <2>3. Verdict(r, "falling", "limited") \/ Verdict(r, "falling", "pass")
    BY <1>5 DEF Local
  <2>4. LimiterTypeOK'
    <3>1. history' \in [Places -> Ages]
      BY <1>5, <2>0, <2>2 DEF Local
    <3> QED
      BY <2>1, <2>3, <3>1, VerdictFacts DEF LimiterTypeOK
  <2>5. SentIsAwaited' /\ Awaited' = Awaited /\ Waiting' = Waiting
    BY <2>1 DEF SentIsAwaited, Awaited, Waiting
  <2>6. OnlyAddersWait'
    BY <2>1, <2>3 DEF OnlyAddersWait, Verdict, LimiterTypeOK
  <2>7. CASE Cardinality(Kept(history, 0)) >= lim[r]
    <3>1. InWindow(history') = InWindow(history)
      BY <1>5, <2>2, <2>7 DEF Local
    <3> QED
      BY <2>4, <2>5, <2>6, <3>1, CountsKept
  <2>8. CASE ~(Cardinality(Kept(history, 0)) >= lim[r])
    <3>1. PICK p \in Places : history' = [Pruned(history, 0) EXCEPT ![p] = 0]
      BY <1>5, <2>8 DEF Local
    <3>2. InWindow(history') \subseteq InWindow(history) \cup {p}
      BY <2>2, <3>1 DEF InWindow
    <3>3. /\ Cardinality(InWindow(history) \cup {p}) <= Cardinality(InWindow(history)) + 1
          /\ Cardinality(InWindow(history')) <= Cardinality(InWindow(history) \cup {p})
          /\ Cardinality(InWindow(history) \cup {p}) \in Nat
      <4>1. IsFiniteSet(InWindow(history)) /\ Cardinality(InWindow(history)) \in Nat
        BY <2>2, Counts
      <4>2. InWindow(history) \cup {p} \in SUBSET Places
        BY <2>2
      <4>3. Cardinality(InWindow(history) \cup {p}) <= Cardinality(InWindow(history)) + 1
        BY <4>1, OneMore
      <4> QED
        BY <3>2, <4>2, <4>3, Counts
    <3>4. Cardinality(InWindow(history')) <= MaxLimit
      BY <2>0, <2>2, <2>4, <2>8, <3>3, CountTypes
    <3>5. LocalBounded'
      BY <3>4 DEF LocalBounded
    <3>6. RedisAccounted'
      BY <2>1 DEF RedisAccounted, Waiting
    <3> QED
      BY <2>4, <2>5, <2>6, <3>5, <3>6
  <2> QED
    BY <2>7, <2>8
<1>6. ASSUME NEW m \in Members, RedisAddLost(m) PROVE LimiterInv'
  <2>1. /\ redis' = redis /\ history' = history /\ rl' = rl /\ lim' = lim /\ since' = since
        /\ sent' = [sent EXCEPT ![m] = Absent]
        /\ member' = [q \in Requests |-> member[q] \ {m}]
        /\ InWindow(sent') \subseteq InWindow(sent) \ {m}
    BY <1>6 DEF RedisAddLost, Answered, InWindow, LimiterTypeOK
  <2>2. /\ astray' \in SUBSET Members
        /\ Awaited' = Awaited
        /\ \A n \in InWindow(sent') : n \notin astray' => n \notin astray
    BY <1>6, <2>1, ForgetFacts DEF RedisAddLost, Awaited
  <2>3. LimiterTypeOK'
    BY <2>1, <2>2 DEF LimiterTypeOK, Ages, Absent, Oldest
  <2>4. SentIsAwaited'
    <3> SUFFICES ASSUME NEW n \in InWindow(sent'), n \notin astray'
                 PROVE  \E q \in Requests : member'[q] = {n}
      BY DEF SentIsAwaited, InWindow
    <3>1. n \in InWindow(sent) /\ n # m /\ n \notin astray
      BY <2>1, <2>2
    <3>2. PICK q \in Requests : member[q] = {n}
      BY <3>1 DEF SentIsAwaited
    <3>3. member'[q] = {n}
      BY <2>1, <3>1, <3>2
    <3> QED
      BY <3>3
  <2>5. OnlyAddersWait' /\ Waiting' \subseteq Waiting
    BY <2>1 DEF OnlyAddersWait, Waiting
  <2> QED
    BY <2>1, <2>2, <2>3, <2>4, <2>5, CountsKept
<1>7. ASSUME NEW r \in Requests, Collect(r) \/ \E l \in Limits : Enter(r, l) PROVE LimiterInv'
  <2>1. /\ redis' = redis /\ sent' = sent /\ member' = member /\ astray' = astray
        /\ history' = history /\ rl[r] # "adding"
    BY <1>7 DEF Collect, Enter, adds
  <2>2. LimiterTypeOK'
    BY <1>7, <2>1 DEF LimiterTypeOK, Collect, Enter, RL
  <2>3. SentIsAwaited' /\ Awaited' = Awaited /\ Waiting' = Waiting
    BY <2>1 DEF SentIsAwaited, Awaited, Waiting
  <2>4. OnlyAddersWait'
    BY <1>7, <2>1 DEF OnlyAddersWait, Collect, Enter, LimiterTypeOK
  <2> QED
    BY <2>1, <2>2, <2>3, <2>4, CountsKept
<1>8. CASE UNCHANGED limiterVars
  BY <1>8 DEF limiterVars, adds, LimiterTypeOK, RedisAccounted, SentIsAwaited, OnlyAddersWait,
              LocalBounded, Waiting, InWindow
<1> QED
  BY <1>1, <1>2, <1>3, <1>4, <1>5, <1>6, <1>7, <1>8, CountInv, ExecutesInv
     DEF LimiterNext, isRateLimited, Redis

------------------------------------------------------------------------------
(* The gates *)

(* A policy or a route calls the limiter with one of the limits. *)
LEMMA JudgeEnters ==
    ASSUME config \in Configs, NEW r \in Requests, Judge(r)
    PROVE  \E l \in Limits : Enter(r, l)
<1>1. PICK v \in IF policySchema = 0 THEN {Unmatched} ELSE config.verdicts :
          Enter(r, IF v.rpm > 0 THEN v.rpm ELSE config.rpm)
  BY DEF Judge
<1>2. config.rpm \in Limits /\ config.verdicts \subseteq [deny : BOOLEAN, rpm : Limits]
  BY GatesAssumption DEF GatesAssumption
<1>3. (IF v.rpm > 0 THEN v.rpm ELSE config.rpm) \in Limits
  BY <1>1, <1>2 DEF Unmatched
<1> QED
  BY <1>1, <1>3

(* Every step of the gates is one of the limiter, or none. *)
LEMMA GatesStepLimiter == config \in Configs /\ [Next]_vars => [LimiterNext]_limiterVars
<1> SUFFICES ASSUME config \in Configs, [Next]_vars PROVE [LimiterNext]_limiterVars
  OBVIOUS
<1>1. CASE Tick \/ Restart
  BY <1>1 DEF Tick, Restart, LimiterNext
<1>2. CASE Revoke \/ \E a \in Admins : InstallSchema(a) \/ IncrementPolicyVersion(a)
  BY <1>2 DEF Revoke, InstallSchema, IncrementPolicyVersion
<1>5. CASE Arrival
  BY <1>5 DEF Arrival, LimiterNext
<1>3. ASSUME NEW r \in Requests, Serve(r) PROVE [LimiterNext]_limiterVars
  <2>1. CASE Begin(r) \/ Authenticate(r) \/ Unauthorized(r) \/ ReadVersion(r) \/ Route(r)
             \/ Deny(r) \/ Leave(r)
    BY <2>1 DEF Begin, Authenticate, Unauthorized, ReadVersion, Route, Deny, Leave
  <2>2. CASE Judge(r)
    BY <2>2, JudgeEnters DEF LimiterNext
  <2>3. CASE Limit(r)
    BY <2>3 DEF Limit, LimiterNext
  <2>4. CASE TooMany(r) \/ Pass(r)
    BY <2>4 DEF TooMany, Pass, LimiterNext, Collect
  <2> QED
    BY <1>3, <2>1, <2>2, <2>3, <2>4 DEF Serve
<1>4. CASE UNCHANGED vars
  BY <1>4 DEF vars
<1> QED
  BY <1>1, <1>2, <1>3, <1>4, <1>5 DEF Next

(* A schema counts as settled only once it is installed. *)
LEMMA SchemaStep == SchemaInForce /\ [Next]_vars => SchemaInForce'
<1> SUFFICES ASSUME SchemaInForce, [Next]_vars PROVE SchemaInForce'
  OBVIOUS
<1> USE DEF SchemaInForce
<1>1. CASE Tick \/ Revoke \/ Arrival
  BY <1>1 DEF Tick, Revoke, Arrival, policy, request
<1>2. CASE Restart
  BY <1>2 DEF Restart
<1>3. ASSUME NEW a \in Admins, InstallSchema(a) PROVE SchemaInForce'
  BY <1>3 DEF InstallSchema, request
<1>4. ASSUME NEW a \in Admins, IncrementPolicyVersion(a) PROVE SchemaInForce'
  BY <1>4 DEF IncrementPolicyVersion, request
<1>5. ASSUME NEW r \in Requests, Serve(r) PROVE SchemaInForce'
  <2>1. CASE Begin(r) \/ ReadVersion(r)
    BY <2>1 DEF Begin, ReadVersion, policy
  <2>2. CASE Authenticate(r) \/ Limit(r) \/ Pass(r)
    BY <2>2 DEF Authenticate, Limit, Pass, policy, request
  <2>3. CASE Unauthorized(r) \/ Route(r) \/ Judge(r) \/ Deny(r) \/ TooMany(r) \/ Leave(r)
    BY <2>3 DEF Unauthorized, Route, Judge, Deny, TooMany, Leave, End, policy
  <2> QED
    BY <1>5, <2>1, <2>2, <2>3 DEF Serve
<1>6. CASE UNCHANGED vars
  BY <1>6 DEF vars, policy, request
<1> QED
  BY <1>1, <1>2, <1>3, <1>4, <1>5, <1>6 DEF Next

(* The beginning of a second is no younger than any time in it. *)
LEMMA SecondOfOlder == \A n \in Nat : phase \in Nat => SecondOf(n) >= n
<1> SUFFICES ASSUME NEW n \in Nat, phase \in Nat PROVE SecondOf(n) >= n
  OBVIOUS
<1>1. (phase - n) % Second \in 0..Second - 1
  BY GatesAssumption DEF GatesAssumption
<1> QED
  BY <1>1, GatesAssumption DEF SecondOf, GatesAssumption

(* Seconds begin a whole number of seconds apart: one that began no later  *)
(* than a moment began no later than that moment's second.                 *)
LEMMA SecondsApart ==
    ASSUME phase \in Nat, NEW a \in Nat, NEW b \in Nat, SecondOf(a) >= b
    PROVE  SecondOf(a) >= SecondOf(b)
<1> DEFINE S == Second
           x == phase - a
           y == phase - b
<1>0. S \in Nat \ {0} /\ x \in Int /\ y \in Int
  BY GatesAssumption DEF GatesAssumption
<1>1. /\ SecondOf(a) = a + (x % S)
      /\ SecondOf(b) = b + (y % S)
      /\ x = phase - a /\ y = phase - b
  BY DEF SecondOf
<1> HIDE DEF S, x, y
<1>2. PICK m \in Int : x = S * m + (x % S)
  <2>1. x = S * (x \div S) + (x % S) /\ x \div S \in Int
    BY <1>0
  <2> QED
    BY <2>1
<1>3. PICK n \in Int : y = S * n + (y % S)
  <2>1. y = S * (y \div S) + (y % S) /\ y \div S \in Int
    BY <1>0
  <2> QED
    BY <2>1
<1>4. y % S \in 0..S - 1 /\ x % S \in 0..S - 1
  BY <1>0
<1>5. SecondOf(a) = phase - S * m /\ SecondOf(b) = phase - S * n
  <2>1. S * m \in Int /\ S * n \in Int
    BY <1>0
  <2> QED
    BY <1>0, <1>1, <1>2, <1>3, <1>4, <2>1
<1>6. CASE m <= n
  <2>1. S * m <= S * n
    BY <1>0, <1>6
  <2> QED
    BY <1>0, <1>5, <2>1
<1>7. CASE m >= n + 1
  <2>1. S * m >= S * n + S
    <3>1. S * m >= S * (n + 1)
      BY <1>0, <1>7
    <3>2. S * (n + 1) = S * n + S
      BY <1>0
    <3> QED
      BY <3>1, <3>2
  <2>2. SecondOf(b) - S < b
    BY <1>0, <1>1, <1>4
  <2>3. SecondOf(a) <= SecondOf(b) - S
    BY <1>0, <1>5, <2>1
  <2> QED
    BY <1>0, <1>1, <1>4, <2>2, <2>3
<1> QED
  BY <1>6, <1>7

(* What an answered request leaves behind says nothing of its credential. *)
LEMMA EndFacts ==
    ASSUME CredentialsTyped, BarredByToken, OutdatedByToken, NEW r \in Requests, End(r),
           UNCHANGED <<phase, revoked, policyVersion>>
    PROVE  CredentialsTyped' /\ BarredByToken' /\ OutdatedByToken'
<1>1. CredentialsTyped'
  BY DEF CredentialsTyped, End, PC, Token
<1>2. BarredByToken'
  BY DEF CredentialsTyped, BarredByToken, End
<1>3. OutdatedByToken'
  BY DEF CredentialsTyped, OutdatedByToken, End
<1> QED
  BY <1>1, <1>2, <1>3

(* Credentials go on to bar and to date their requests. *)
LEMMA CredentialStep ==
    CredentialsTyped /\ BarredByToken /\ OutdatedByToken /\ [Next]_vars
       => CredentialsTyped' /\ BarredByToken' /\ OutdatedByToken'
<1> SUFFICES ASSUME CredentialsTyped, BarredByToken, OutdatedByToken, [Next]_vars
             PROVE  CredentialsTyped' /\ BarredByToken' /\ OutdatedByToken'
  OBVIOUS
<1> USE GatesAssumption DEF GatesAssumption
<1>1. CASE Revoke
  <2>1. CredentialsTyped'
    BY <1>1 DEF CredentialsTyped, Revoke, request
  <2>2. BarredByToken'
    BY <1>1 DEF BarredByToken, Revoke, request, JWT
  <2>3. OutdatedByToken'
    BY <1>1 DEF OutdatedByToken, Revoke, request
  <2> QED
    BY <2>1, <2>2, <2>3
<1>2. CASE Tick
  <2>1. \A t \in JWT : t.age < MaxAge => [t EXCEPT !.age = @ + 1] \in JWT
    BY DEF JWT
  <2>2. \A t \in JWT : /\ [t EXCEPT !.age = @ + 1].age = t.age + 1
                       /\ [t EXCEPT !.age = @ + 1].iat = t.iat
                       /\ [t EXCEPT !.age = @ + 1].ver = t.ver
    BY DEF JWT
  <2>3. CredentialsTyped'
    <3>1. phase' \in Nat
      BY <1>2 DEF Tick, CredentialsTyped
    <3>2. revoked' \in Nat \cup {None}
      BY <1>2 DEF Tick, CredentialsTyped
    <3>3. token' \in [Requests -> Token]
      BY <1>2, <2>1 DEF Tick, CredentialsTyped, Token
    <3> QED
      BY <1>2, <3>1, <3>2, <3>3 DEF Tick, CredentialsTyped
  <2>4. BarredByToken'
    <3> SUFFICES ASSUME NEW r \in Requests, barred'[r]
                 PROVE  /\ pc'[r] = "validating" /\ token'[r] \in JWT /\ token'[r].iat
                        /\ revoked' # None /\ token'[r].age >= revoked'
      BY DEF BarredByToken
    <3>1. /\ pc[r] = "validating" /\ token[r] \in JWT /\ token[r].iat
          /\ revoked # None /\ token[r].age >= revoked
      BY <1>2 DEF Tick, BarredByToken
    <3>2. /\ token'[r] = [token[r] EXCEPT !.age = @ + 1] /\ token[r].age < MaxAge
          /\ pc'[r] = pc[r]
      BY <1>2, <3>1 DEF Tick, CredentialsTyped
    <3>3. revoked' = revoked + 1 /\ revoked \in Nat /\ token[r].age \in Nat
      BY <1>2, <3>1 DEF Tick, CredentialsTyped, JWT
    <3>4. token'[r] \in JWT /\ token'[r].iat /\ token'[r].age = token[r].age + 1
      BY <2>1, <2>2, <3>1, <3>2
    <3> QED
      BY <3>1, <3>2, <3>3, <3>4
  <2>5. OutdatedByToken'
    <3> SUFFICES ASSUME NEW r \in Requests, outdated'[r]
                 PROVE  \/ /\ pc'[r] \in {"validating", "versioning"} /\ token'[r] \in JWT
                           /\ token'[r].ver < policyVersion'
                        \/ pc'[r] \notin {"idle", "validating", "versioning"} /\ refresh'[r]
      BY DEF OutdatedByToken
    <3>1. CASE token[r] \in JWT
      <4>1. token'[r] = [token[r] EXCEPT !.age = @ + 1] /\ token[r].age < MaxAge
        BY <1>2, <3>1 DEF Tick, CredentialsTyped
      <4>2. token'[r] \in JWT /\ token'[r].ver = token[r].ver
        BY <2>1, <2>2, <3>1, <4>1
      <4> QED
        BY <1>2, <4>2 DEF Tick, OutdatedByToken
    <3>2. CASE token[r] \notin JWT
      BY <1>2, <3>2 DEF Tick, OutdatedByToken
    <3> QED
      BY <3>1, <3>2
  <2> QED
    BY <2>3, <2>4, <2>5
<1>3. CASE Restart
  <2>1. CredentialsTyped'
    BY <1>3 DEF CredentialsTyped, Restart, PC, Token
  <2>2. BarredByToken' /\ OutdatedByToken'
    BY <1>3 DEF BarredByToken, OutdatedByToken, Restart
  <2> QED
    BY <2>1, <2>2
<1>4. ASSUME NEW a \in Admins, InstallSchema(a) \/ IncrementPolicyVersion(a)
      PROVE  CredentialsTyped' /\ BarredByToken' /\ OutdatedByToken'
  <2>1. CredentialsTyped'
    BY <1>4 DEF CredentialsTyped, InstallSchema, IncrementPolicyVersion, request
  <2>2. BarredByToken'
    BY <1>4 DEF BarredByToken, InstallSchema, IncrementPolicyVersion, request
  <2>3. OutdatedByToken'
    BY <1>4 DEF OutdatedByToken, CredentialsTyped, InstallSchema, IncrementPolicyVersion, request,
                JWT
  <2> QED
    BY <2>1, <2>2, <2>3
<1>5. ASSUME NEW r \in Requests, Serve(r)
      PROVE  CredentialsTyped' /\ BarredByToken' /\ OutdatedByToken'
  <2>1. CASE Begin(r)
    <3>1. CredentialsTyped'
      <4>1. pc' \in [Requests -> PC] /\ token' \in [Requests -> Token]
        BY <2>1 DEF Begin, Goto, CredentialsTyped, PC, Token
      <4>2. \A f \in [Requests -> BOOLEAN], b \in BOOLEAN :
               [f EXCEPT ![r] = b] \in [Requests -> BOOLEAN]
        OBVIOUS
      <4>3. barred' \in [Requests -> BOOLEAN] /\ outdated' \in [Requests -> BOOLEAN]
        <5>1. CASE config.auth
          <6>1. PICK t : /\ barred' = [barred EXCEPT ![r] = t \in JWT /\ t.iat /\ revoked # None
                                                             /\ t.age >= revoked]
                         /\ outdated' = [outdated EXCEPT ![r] = t \in JWT /\ t.ver < policyVersion]
            BY <2>1, <5>1 DEF Begin
          <6>2. /\ (t \in JWT /\ t.iat /\ revoked # None /\ t.age >= revoked) \in BOOLEAN
                /\ (t \in JWT /\ t.ver < policyVersion) \in BOOLEAN
            OBVIOUS
          <6> QED
            BY <4>2, <6>1, <6>2, Zenon DEF CredentialsTyped
        <5>2. CASE ~config.auth
          BY <2>1, <5>2 DEF Begin, CredentialsTyped
        <5> QED
          BY <5>1, <5>2
      <4> QED
        BY <2>1, <4>1, <4>3 DEF Begin, policy, CredentialsTyped
    <3>2. BarredByToken'
      BY <2>1 DEF Begin, Goto, policy, CredentialsTyped, BarredByToken
    <3>3. OutdatedByToken'
      BY <2>1 DEF Begin, Goto, policy, CredentialsTyped, OutdatedByToken
    <3> QED
      BY <3>1, <3>2, <3>3
  <2>2. CASE Authenticate(r)
    <3>1. ~barred[r]
      <4>1. SUFFICES ASSUME barred[r] PROVE FALSE
        OBVIOUS
      <4>2. /\ token[r] \in JWT /\ token[r].iat /\ token[r].age \in Nat
            /\ revoked # None /\ token[r].age >= revoked /\ revoked \in Nat
        BY <4>1 DEF BarredByToken, CredentialsTyped, JWT
      <4>3. SecondOf(token[r].age) >= token[r].age /\ SecondOf(token[r].age) \in Int
        BY <4>2, SecondOfOlder DEF CredentialsTyped, SecondOf
      <4>4. Revoked(token[r])
        BY <4>2, <4>3 DEF Revoked
      <4> QED
        BY <2>2, <4>2, <4>4 DEF Authenticate
    <3>2. CredentialsTyped'
      BY <2>2 DEF Authenticate, Goto, policy, CredentialsTyped, PC, Token
    <3>3. BarredByToken'
      BY <2>2, <3>1 DEF Authenticate, Goto, policy, CredentialsTyped, BarredByToken
    <3>4. OutdatedByToken'
      BY <2>2 DEF Authenticate, Goto, policy, CredentialsTyped, OutdatedByToken
    <3> QED
      BY <3>2, <3>3, <3>4
  <2>3. CASE ReadVersion(r)
    <3>1. CredentialsTyped'
      BY <2>3 DEF ReadVersion, Goto, policy, CredentialsTyped, PC, Token
    <3>2. BarredByToken'
      BY <2>3 DEF ReadVersion, Goto, policy, CredentialsTyped, BarredByToken
    <3>3. OutdatedByToken'
      BY <2>3 DEF ReadVersion, Goto, policy, CredentialsTyped, OutdatedByToken
    <3> QED
      BY <3>1, <3>2, <3>3
  <2> DEFINE Onward == /\ \/ Goto(r, "routing", "judging", None)
                          \/ Goto(r, "judging", "limiting", None)
                          \/ Goto(r, "limiting", "passed", None)
                       /\ UNCHANGED <<policy, refresh, barred, outdated>>
  <2>4. CASE Onward
    <3>1. UNCHANGED <<phase, revoked, policyVersion, refresh, barred, outdated>>
      BY <2>4 DEF policy
    <3>2. CredentialsTyped'
      BY <2>4, <3>1 DEF Goto, CredentialsTyped, PC, Token
    <3>3. BarredByToken'
      BY <2>4, <3>1 DEF Goto, CredentialsTyped, BarredByToken
    <3>4. OutdatedByToken'
      BY <2>4, <3>1 DEF Goto, CredentialsTyped, OutdatedByToken
    <3> QED
      BY <3>2, <3>3, <3>4
  <2>5. CASE End(r) /\ UNCHANGED policy
    BY <2>5, EndFacts DEF policy
  <2>6. CASE Limit(r)
    BY <2>6 DEF Limit, policy, request, CredentialsTyped, BarredByToken, OutdatedByToken
  <2>7. \/ Begin(r) \/ Authenticate(r) \/ ReadVersion(r) \/ Limit(r)
        \/ Onward
        \/ End(r) /\ UNCHANGED policy
    BY <1>5 DEF Serve, Unauthorized, Route, Judge, Deny, TooMany, Pass, Leave
  <2> QED
    BY <2>1, <2>2, <2>3, <2>4, <2>5, <2>6, <2>7
<1>6. CASE UNCHANGED vars \/ Arrival
  BY <1>6 DEF vars, Arrival, policy, request, CredentialsTyped, BarredByToken, OutdatedByToken
<1> QED
  BY <1>1, <1>2, <1>3, <1>4, <1>5, <1>6 DEF Next

------------------------------------------------------------------------------
(* Theorems *)

(* The invariant of the gates holds in every reachable state: what the     *)
(* limiter accounts for, and what requests, revocation, version and schema *)
(* know of each other (ServeHTTP up to the limiter, isRateLimited,         *)
(* RevokeUserSession, UpdatePolicySchema, IncrementPolicyVersion).         *)
THEOREM GatesInvariant == Spec => []IInv
<1>1. Init => IInv
  <2> SUFFICES ASSUME Init PROVE IInv
    OBVIOUS
  <2>1. LimiterTypeOK
    BY RateLimiterAssumption
       DEF Init, LimiterInit, LimiterTypeOK, RateLimiterAssumption, RL, Ages, Absent, Oldest
  <2>2. InWindow(redis) \ astray = {} /\ InWindow(history) = {} /\ Waiting = {}
    BY DEF Init, LimiterInit, InWindow, Waiting
  <2>3. RedisAccounted /\ LocalBounded
    BY <2>2, FS_EmptySet, Counts, RateLimiterAssumption
       DEF RedisAccounted, LocalBounded, RateLimiterAssumption
  <2>5. SentIsAwaited /\ OnlyAddersWait
    BY DEF Init, LimiterInit, SentIsAwaited, OnlyAddersWait, InWindow
  <2>4. CredentialsTyped /\ BarredByToken /\ OutdatedByToken /\ SchemaInForce
    BY DEF Init, CredentialsTyped, BarredByToken, OutdatedByToken, SchemaInForce, PC, Token
  <2> QED
    BY <2>1, <2>3, <2>4, <2>5 DEF Init, IInv, LimiterInv
<1>2. IInv /\ [Next]_vars => IInv'
  <2> SUFFICES ASSUME IInv, [Next]_vars PROVE IInv'
    OBVIOUS
  <2>1. LimiterInv'
    BY GatesStepLimiter, LimiterStep DEF IInv
  <2>2. config' = config
    BY DEF Next, Revoke, Tick, Restart, Arrival, InstallSchema, IncrementPolicyVersion, Serve, Begin,
           Authenticate, Unauthorized, ReadVersion, Route, Judge, Deny, Limit, TooMany, Pass,
           Leave, policy, vars
  <2> QED
    BY <2>1, <2>2, SchemaStep, CredentialStep DEF IInv
<1> QED
  BY <1>1, <1>2, PTL DEF Spec

(* In any minute Redis records at most limit + requests - 1 of a client's  *)
(* requests that waited for their ZADD; the ones that gave up on it or     *)
(* were killed, whose ZADD may still arrive, come on top (isRateLimited).  *)
THEOREM RedisNeverFarOver == Spec => []RedisBounded
<1>1. IInv => RedisBounded
  <2> SUFFICES ASSUME IInv PROVE RedisBounded
    OBVIOUS
  <2>1. /\ InWindow(redis) \ astray \in SUBSET Members
        /\ Waiting \in SUBSET Requests
    BY DEF IInv, LimiterInv, LimiterTypeOK, InWindow, Waiting
  <2>2. /\ Cardinality(InWindow(redis) \ astray) \in Nat
        /\ Cardinality(Waiting) \in Nat /\ Cardinality(Requests) \in Nat
    BY <2>1, Counts
  <2> QED
    BY <2>2, RateLimiterAssumption
       DEF IInv, LimiterInv, RedisAccounted, RedisBounded, RateLimiterAssumption
<1> QED
  BY <1>1, GatesInvariant, PTL

(* In any minute the local limiter lets at most the limit pass             *)
(* (isRateLimited without Redis).                                          *)
THEOREM LocalNeverOver == Spec => []LocalBounded
<1>1. IInv => LocalBounded
  BY DEF IInv, LimiterInv
<1> QED
  BY <1>1, GatesInvariant, PTL

(* A request that begins after its token was revoked never gets past       *)
(* authentication (RevokeUserSession, ValidateJWTWithPolicy).              *)
THEOREM RevocationHolds == Spec => []RevokedStayOut
<1>1. IInv => RevokedStayOut
  BY DEF IInv, BarredByToken, RevokedStayOut
<1> QED
  BY <1>1, GatesInvariant, PTL

(* A request whose token is older than the policy version is told to       *)
(* refresh it (X-Token-Refresh in ServeHTTP).                              *)
THEOREM OutdatedTokensAreTold == Spec => []OutdatedAreTold
<1>1. IInv => OutdatedAreTold
  BY DEF IInv, OutdatedByToken, OutdatedAreTold
<1> QED
  BY <1>1, GatesInvariant, PTL

(* Every request is judged by a policy at least as new as the reloads      *)
(* answered when it began (UpdatePolicySchema, EvaluatePolicy).            *)
THEOREM CurrentPolicyJudges == Spec => JudgedByCurrent
<1>1. IInv /\ [Next]_vars =>
         [\A r \in Requests : Judge(r) \/ Deny(r) => policySchema >= base[r]]_vars
  BY DEF IInv, SchemaInForce
<1> QED
  BY <1>1, GatesInvariant, PTL DEF Spec, JudgedByCurrent

(* A valid token is turned away only if it is of the second of the         *)
(* revocation or older: no later login is locked out, although iat is in   *)
(* whole seconds and the revocation is not (ValidateJWTWithPolicy).        *)
THEOREM LaterLoginsEnter == Spec => NewTokensEnter
<1>1. IInv /\ [Next]_vars =>
         [\A r \in Requests : Unauthorized(r) /\ token[r] \in JWT =>
             revoked # None /\ SecondOf(token[r].age) >= SecondOf(revoked)]_vars
  <2> SUFFICES ASSUME IInv, NEW r \in Requests, Unauthorized(r), token[r] \in JWT
               PROVE  revoked # None /\ SecondOf(token[r].age) >= SecondOf(revoked)
    OBVIOUS
  <2>1. Revoked(token[r])
    BY GatesAssumption DEF Unauthorized, GatesAssumption
  <2>2. revoked # None /\ SecondOf(token[r].age) >= revoked
    BY <2>1 DEF Revoked
  <2>3. phase \in Nat /\ revoked \in Nat /\ token[r].age \in Nat
    BY <2>2 DEF IInv, CredentialsTyped, JWT
  <2> QED
    BY <2>2, <2>3, SecondsApart
<1> QED
  BY <1>1, GatesInvariant, PTL DEF Spec, NewTokensEnter
==============================================================================
