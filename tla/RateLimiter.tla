----------------------------- MODULE RateLimiter -----------------------------
(***************************************************************************)
(* isRateLimited (src/pkg/proxy/handler.go) for one key: one client, agent *)
(* or API key on one route.  With Redis it prunes and counts the key's     *)
(* sorted set in one transaction and adds to it in another; when the count *)
(* fails it goes on with a history in memory, under a lock.  Without Redis *)
(* every request takes the second path.  The error of the second           *)
(* transaction is ignored and its context ends after a second, so a call   *)
(* returns whether Redis has executed it, will execute it, or never does.  *)
(*                                                                         *)
(* An entry is its age in ticks since the request that made it entered the *)
(* limiter; ages saturate where every cutoff removes them.                 *)
(***************************************************************************)
EXTENDS Integers, FiniteSets

CONSTANTS Requests,      \* goroutines calling the limiter
          Members,       \* members of the sorted set: bounds how many are kept
          Places,        \* entries of the local history: likewise
          Window,        \* one minute, in ticks
          RedisTimeout,  \* deadline of the two transactions together
          Limits,        \* limits a call may be made with; 0 means none
          MaxLimit       \* the largest of them

ASSUME RateLimiterAssumption ==
    /\ IsFiniteSet(Requests)
    /\ IsFiniteSet(Members)
    /\ IsFiniteSet(Places)
    /\ Window \in Nat \ {0}
    /\ RedisTimeout \in Nat
    /\ MaxLimit \in Nat \ {0}
    /\ Limits \subseteq 0..MaxLimit

VARIABLES
    redis,    \* redis[m]: age of member m of the sorted set, or Absent
    sent,     \* sent[m]: age of member m of a ZADD on its way to Redis, or Absent
    member,   \* member[r]: the member on its way that r waits for, as a set of at most one
    astray,   \* history: members of the last minute whose call did not wait for the ZADD
    history,  \* history[m]: age of an entry of lim.history, or Absent
    rl,       \* rl[r]: where goroutine r is in isRateLimited
    lim,      \* lim[r]: the limit it was called with
    since     \* since[r]: how long ago it read the clock

adds        == <<sent, member, astray>>
limiterVars == <<redis, adds, history, rl, lim, since>>

Absent == -1

Oldest == Window + RedisTimeout

Ages == Absent..Oldest

RL == {"out", "counting", "adding", "falling", "pass", "limited"}

LimiterTypeOK ==
    /\ redis \in [Members -> Ages]
    /\ sent \in [Members -> Ages]
    /\ member \in [Requests -> SUBSET Members]
    /\ astray \in SUBSET Members
    /\ history \in [Places -> Ages]
    /\ rl \in [Requests -> RL]
    /\ lim \in [Requests -> 0..MaxLimit]
    /\ since \in [Requests -> 0..RedisTimeout]

LimiterInit ==
    /\ redis = [m \in Members |-> Absent]
    /\ sent = [m \in Members |-> Absent]
    /\ member = [r \in Requests |-> {}]
    /\ astray = {}
    /\ history = [m \in Places |-> Absent]
    /\ rl = [r \in Requests |-> "out"]
    /\ lim = [r \in Requests |-> 0]
    /\ since = [r \in Requests |-> 0]

------------------------------------------------------------------------------

(* redis, sent and history are logs: functions from entries to ages. *)

InWindow(log) == {m \in DOMAIN log : log[m] # Absent /\ log[m] < Window}

(* The entries a call keeps that read the clock s ticks ago. *)
Kept(log, s) == {m \in DOMAIN log : log[m] # Absent /\ log[m] - s < Window}

Pruned(log, s) == [m \in DOMAIN log |-> IF m \in Kept(log, s) THEN log[m] ELSE Absent]

(* The call returns: its locals are gone. *)
Verdict(r, from, v) ==
    /\ rl[r] = from
    /\ rl' = [rl EXCEPT ![r] = v]
    /\ lim' = [lim EXCEPT ![r] = 0]
    /\ since' = [since EXCEPT ![r] = 0]

(* A limit that is not positive lets everything pass, uncounted. *)
Enter(r, limit) ==
    /\ rl[r] = "out"
    /\ rl' = [rl EXCEPT ![r] = IF limit = 0 THEN "pass" ELSE "counting"]
    /\ lim' = [lim EXCEPT ![r] = limit]
    /\ UNCHANGED <<redis, adds, history, since>>

(* A member nobody uses: the time and a random number. *)
Unused == {m \in Members : redis[m] = Absent /\ sent[m] = Absent}

(* What is lost or older than the window is no longer of interest. *)
Forget == astray' = {m \in astray : m \in InWindow(redis') \cup InWindow(sent')}

(* Nobody waits for m any more. *)
Answered(m) == member' = [r \in Requests |-> member[r] \ {m}]

(* The second transaction is sent: ZADD with the time read at the start.   *)
SendAdd(r) ==
    /\ rl[r] = "counting"
    /\ rl' = [rl EXCEPT ![r] = "adding"]
    /\ \E m \in Unused :
          /\ sent' = [sent EXCEPT ![m] = since[r]]
          /\ member' = [member EXCEPT ![r] = {m}]
    /\ UNCHANGED <<lim, since>>

(* Mutant: the request over the limit still passes. *)
CountOneMore(r) ==
    /\ redis' = Pruned(redis, since[r])
    /\ IF Cardinality(Kept(redis, since[r])) > lim[r]
       THEN Verdict(r, "counting", "limited") /\ UNCHANGED <<sent, member>>
       ELSE SendAdd(r)
    /\ UNCHANGED history
    /\ Forget

(* ZREMRANGEBYSCORE and ZCARD in one transaction. *)
RedisCount(r) ==
    /\ redis' = Pruned(redis, since[r])
    /\ IF Cardinality(Kept(redis, since[r])) >= lim[r]
       THEN Verdict(r, "counting", "limited") /\ UNCHANGED <<sent, member>>
       ELSE SendAdd(r)
    /\ UNCHANGED history
    /\ Forget

(* The transaction fails, executed or not: the local limiter decides. *)
RedisFails(r) ==
    /\ rl[r] = "counting"
    /\ rl' = [rl EXCEPT ![r] = "falling"]
    /\ since' = [since EXCEPT ![r] = 0]
    /\ redis' \in {redis, Pruned(redis, since[r])}
    /\ UNCHANGED <<sent, member, history, lim>>
    /\ Forget

(* The second transaction is answered, fails or is given up: the call      *)
(* passes in every case.                                                   *)
RedisAdd(r) ==
    /\ Verdict(r, "adding", "pass")
    /\ member' = [member EXCEPT ![r] = {}]
    /\ astray' = astray \cup (member[r] \cap InWindow(sent))
    /\ UNCHANGED <<redis, sent, history>>

(* Redis executes a ZADD, whoever still waits for it ... *)
RedisExecutes(m) ==
    /\ sent[m] # Absent
    /\ redis' = [redis EXCEPT ![m] = sent[m]]
    /\ sent' = [sent EXCEPT ![m] = Absent]
    /\ Answered(m)
    /\ UNCHANGED <<astray, history, rl, lim, since>>

(* ... or it never gets there. *)
RedisAddLost(m) ==
    /\ sent[m] # Absent
    /\ sent' = [sent EXCEPT ![m] = Absent]
    /\ Answered(m)
    /\ UNCHANGED <<redis, history, rl, lim, since>>
    /\ Forget

(* Mutant: the request over the limit still passes. *)
LocalOneMore(r) ==
    /\ IF Cardinality(Kept(history, 0)) > lim[r]
       THEN /\ Verdict(r, "falling", "limited")
            /\ history' = Pruned(history, 0)
       ELSE /\ Verdict(r, "falling", "pass")
            /\ \E m \in Places \ Kept(history, 0) :
                  history' = [Pruned(history, 0) EXCEPT ![m] = 0]
    /\ UNCHANGED <<redis, adds>>

(* lim.mu: filter, compare, append. *)
Local(r) ==
    /\ IF Cardinality(Kept(history, 0)) >= lim[r]
       THEN /\ Verdict(r, "falling", "limited")
            /\ history' = Pruned(history, 0)
       ELSE /\ Verdict(r, "falling", "pass")
            /\ \E m \in Places \ Kept(history, 0) :
                  history' = [Pruned(history, 0) EXCEPT ![m] = 0]
    /\ UNCHANGED <<redis, adds>>

isRateLimited(r) ==
    \/ RedisCount(r) \/ RedisFails(r) \/ RedisAdd(r) \/ Local(r)

Redis == \E m \in Members : RedisExecutes(m) \/ RedisAddLost(m)

------------------------------------------------------------------------------
(* Time.  A call that reaches its deadline returns before more passes. *)

InRedis == {r \in Requests : rl[r] \in {"counting", "adding"}}

Older(log) ==
    [m \in DOMAIN log |-> IF log[m] \in {Absent, Oldest} THEN log[m] ELSE log[m] + 1]

LimiterTick ==
    /\ \A r \in InRedis : since[r] < RedisTimeout
    /\ redis' = Older(redis)
    /\ sent' = Older(sent)
    /\ history' = Older(history)
    /\ since' = [r \in Requests |-> IF r \in InRedis THEN since[r] + 1 ELSE since[r]]
    /\ Forget
    /\ UNCHANGED <<member, rl, lim>>

(* The process restarts.  Redis keeps the sorted set, and what was sent    *)
(* may still arrive.                                                       *)
LimiterRestart ==
    /\ history' = [m \in Places |-> Absent]
    /\ rl' = [r \in Requests |-> "out"]
    /\ lim' = [r \in Requests |-> 0]
    /\ since' = [r \in Requests |-> 0]
    /\ member' = [r \in Requests |-> {}]
    /\ astray' = astray \cup InWindow(sent)
    /\ UNCHANGED <<redis, sent>>

------------------------------------------------------------------------------
(* Properties *)

(* Count and add are two transactions, so requests pass together over the  *)
(* limit; but never by more than one less than the requests there are:     *)
(* within any minute, across failures and restarts, Redis records at most  *)
(* limit + requests - 1 of those whose call waited for their ZADD.  Those  *)
(* that did not - an error, a timeout, a restart - come on top: they pass  *)
(* without being counted until their ZADD arrives, if it does              *)
(* (isRateLimited).                                                        *)
RedisBounded ==
    Cardinality(InWindow(redis) \ astray) <= MaxLimit + Cardinality(Requests) - 1

(* The local limiter decides under its lock: while Redis is away a minute  *)
(* sees at most the limit, whatever Redis counted before.                  *)
LocalBounded == Cardinality(InWindow(history)) <= MaxLimit

(* What makes RedisBounded inductive: the requests whose ZADD is on its    *)
(* way count as if it had arrived, and every ZADD on its way has one that  *)
(* waits for it or is astray.                                              *)
Waiting == {r \in Requests : member[r] # {}}

RedisAccounted ==
    Cardinality(InWindow(redis) \ astray) + Cardinality(Waiting)
       <= MaxLimit + Cardinality(Requests) - 1

SentIsAwaited ==
    \A m \in InWindow(sent) : m \notin astray => \E r \in Requests : member[r] = {m}

OnlyAddersWait == \A r \in Requests : member[r] # {} => rl[r] = "adding"

LimiterInv ==
    LimiterTypeOK /\ RedisAccounted /\ SentIsAwaited /\ OnlyAddersWait /\ LocalBounded
==============================================================================
