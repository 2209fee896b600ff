------------------------------- MODULE Gateway -------------------------------
(***************************************************************************)
(* The request pipeline of ServGate (src/pkg/proxy/handler.go, ServeHTTP): *)
(* the goroutines of one route share its backpressure limiter, the load    *)
(* balancer's gauges, the targets' circuit breakers and the route's        *)
(* response cache.  A step is one critical section or one outcome of the   *)
(* environment; between two of them every other goroutine may run.         *)
(*                                                                         *)
(* Data kept: of an answer its class (2xx "ok", 5xx "error", the rest      *)
(* "other"), of a duration whether it exceeds the SLO, of the cache        *)
(* whether it holds an answer.  ResponseCache.tla has the cache's own      *)
(* races and CircuitBreaker.tla the breaker's clock.                       *)
(***************************************************************************)
EXTENDS Breaker, FiniteSets

CONSTANTS Requests,       \* goroutines; each serves one request after another
          MaxConcurrent,  \* of the route's limiter
          MaxQueue,
          Targets,        \* route.Targets, a sequence without repetition
          Bridged,        \* the targets with a servqueue:// URL
          LoadBalancers,  \* what route.LoadBalancer is set to over time
          Loads,          \* values of X-Backpressure answers
          MaxPenalty,     \* targetLoad after a failed round trip (100)
          MaxRetries,     \* attempts of RetryingTransport (3)
          None            \* no target

TargetSet == {Targets[i] : i \in 1..Len(Targets)}

ASSUME GatewayAssumption ==
    /\ Len(Targets) \in Nat \ {0}
    /\ MaxRetries \in Nat \ {0}
    /\ Loads \subseteq Int
    /\ MaxPenalty \in Int
    /\ None \notin TargetSet
    /\ MaxConcurrent \in Nat \ {0}
    /\ MaxQueue \in Nat

VARIABLES
    sem, queue, at,  \* the route's limiter, see BackpressureLimiter.tla
    pc,              \* pc[r]: where goroutine r is in ServeHTTP
    tgt,             \* tgt[r]: selectedTarget
    code,            \* code[r]: class of the answer written, "none" before
    errs,            \* errs[r]: calls of metricsTracker.IncError for this request
    tries,           \* tries[r]: i of RetryingTransport's loop
    keyed,           \* keyed[r]: cacheKey # ""
    activeConns,     \* h.activeConns
    rrIndex,         \* h.rrIndices[route.Prefix]
    scan,            \* selectTarget's loop over targetLoad, under balancerMu
    targetLoad,      \* h.targetLoad
    elsewhere,       \* balancerMu is held for another route, or by UpdateRoutes
    breakers,        \* h.circuitBreakers
    cached           \* the route's response cache holds a fresh answer

limiter == <<sem, queue, at>>
local   == <<pc, tgt, code, errs, tries, keyed>>
shared  == <<activeConns, rrIndex, scan, targetLoad, elsewhere, breakers, cached>>
vars    == <<limiter, local, shared>>

L == INSTANCE BackpressureLimiter

PC == {"idle", "acquire", "missed", "passed", "scanning", "selected", "connected", "allowed",
       "tunnel", "sending", "responded", "reading", "failed", "copying", "written", "recording",
       "returning"}

(* The loop's variables, and for the properties whether every load is      *)
(* still what it was when the loop began.                                  *)
Best == [min : Int, selected : TargetSet \cup {None}]

Scan == [next : 1..Len(Targets) + 1, best : Best, stable : BOOLEAN]

NoBest == [min |-> -1, selected |-> None]

NewScan == [next |-> 1, best |-> NoBest, stable |-> TRUE]

Code == {"none", "ok", "other", "error"}

TypeOK ==
    /\ L!TypeOK
    /\ pc \in [Requests -> PC]
    /\ tgt \in [Requests -> TargetSet \cup {None}]
    /\ code \in [Requests -> Code]
    /\ errs \in [Requests -> Nat]
    /\ tries \in [Requests -> 0..MaxRetries - 1]
    /\ keyed \in [Requests -> BOOLEAN]
    /\ activeConns \in [TargetSet -> Nat]
    /\ rrIndex \in 0..Len(Targets) - 1
    /\ scan \in Scan
    /\ targetLoad \in [TargetSet -> Int]
    /\ elsewhere \in BOOLEAN
    /\ breakers \in [TargetSet -> BreakerRecord]
    /\ cached \in BOOLEAN

Init ==
    /\ L!Init
    /\ pc = [r \in Requests |-> "idle"]
    /\ tgt = [r \in Requests |-> None]
    /\ code = [r \in Requests |-> "none"]
    /\ errs = [r \in Requests |-> 0]
    /\ tries = [r \in Requests |-> 0]
    /\ keyed = [r \in Requests |-> FALSE]
    /\ activeConns = [t \in TargetSet |-> 0]
    /\ rrIndex = 0
    /\ scan = NewScan
    /\ targetLoad = [t \in TargetSet |-> 0]
    /\ elsewhere = FALSE
    /\ breakers = [t \in TargetSet |-> NewCircuitBreaker]
    /\ cached = FALSE

------------------------------------------------------------------------------
(* Control flow *)

Goto(r, from, to) ==
    /\ pc[r] = from
    /\ pc' = [pc EXCEPT ![r] = to]

(* The handler writes answer c, counts e errors and returns.  Locals that  *)
(* go out of scope (tries, keyed) fall back to their initial values.       *)
Finish(r, from, c, e) ==
    /\ Goto(r, from, "returning")
    /\ code' = [code EXCEPT ![r] = c]
    /\ errs' = [errs EXCEPT ![r] = @ + e]
    /\ keyed' = [keyed EXCEPT ![r] = FALSE]
    /\ UNCHANGED <<tgt, tries>>

------------------------------------------------------------------------------
(* Before the limiter *)

(* IncRequest; every gate lets the request pass. *)
Arrive(r) ==
    /\ Goto(r, "idle", "acquire")
    /\ UNCHANGED <<limiter, tgt, code, errs, tries, keyed, shared>>

(* An endpoint of the gateway itself (tenant policies, policy reload,      *)
(* governance, docs), or a gate that refuses: tenant policy,               *)
(* authentication, API key and quota, schema, MCP, IP, access policy, rate *)
(* limit.                                                                  *)
AnswerLocally(r) ==
    /\ \E c \in {"ok", "other"} : Finish(r, "idle", c, 0)
    /\ UNCHANGED <<limiter, shared>>

(* No route matches: 502, counted. *)
NoRoute(r) ==
    /\ Finish(r, "idle", "error", 1)
    /\ UNCHANGED <<limiter, shared>>

------------------------------------------------------------------------------
(* limiter.Acquire *)

Acquire(r) ==
    /\ pc[r] = "acquire"
    /\ L!Acquire(r)
    /\ UNCHANGED <<local, shared>>

(* Mutants: release is deferred before the error is looked at; only a full *)
(* queue is taken for a refusal.                                           *)
TurnAwayReleases(r) ==
    /\ at[r] \in {"full", "timeout"}
    /\ sem' = sem - 1
    /\ at' = [at EXCEPT ![r] = "out"]
    /\ Finish(r, "acquire", IF at[r] = "full" THEN "other" ELSE "error", 0)
    /\ UNCHANGED <<queue, shared>>

TurnAwayFullOnly(r) ==
    /\ at[r] = "full"
    /\ L!Answer(r)
    /\ Finish(r, "acquire", "other", 0)
    /\ UNCHANGED shared

(* 429 for a full queue, 503 for a timeout or a cancelled client. *)
TurnAway(r) ==
    /\ L!Answer(r)
    /\ Finish(r, "acquire", IF at[r] = "full" THEN "other" ELSE "error", 0)
    /\ UNCHANGED shared

------------------------------------------------------------------------------
(* Between the limiter and the target *)

(* A GraphQL federation route answers the POST itself: 403 in this edition. *)
Federate(r) ==
    /\ at[r] = "holding"
    /\ Finish(r, "acquire", "other", 0)
    /\ UNCHANGED <<limiter, shared>>

(* routeCache.Get on a cacheable request. *)
CacheHit(r) ==
    /\ at[r] = "holding"
    /\ cached
    /\ Finish(r, "acquire", "ok", 0)
    /\ UNCHANGED <<limiter, shared>>

CacheMiss(r) ==
    /\ at[r] = "holding"
    /\ ~cached
    /\ Goto(r, "acquire", "missed")
    /\ keyed' = [keyed EXCEPT ![r] = TRUE]
    /\ UNCHANGED <<limiter, tgt, code, errs, tries, shared>>

(* A method that is not cached, or a route without a cache. *)
CacheSkip(r) ==
    /\ at[r] = "holding"
    /\ Goto(r, "acquire", "missed")
    /\ UNCHANGED <<limiter, tgt, code, errs, tries, keyed, shared>>

(* Schema validation, prompt guard, WAF or a policy module refuses; a      *)
(* plugin answers in the target's place with any status; or a WASM module  *)
(* or a plugin fails: 500, counted.                                        *)
Intercept(r) ==
    /\ \/ \E c \in Code \ {"none"} : Finish(r, "missed", c, 0)
       \/ Finish(r, "missed", "error", 1)
    /\ UNCHANGED <<limiter, shared>>

(* They let it pass. *)
Pass(r) ==
    /\ Goto(r, "missed", "passed")
    /\ UNCHANGED <<limiter, tgt, code, errs, tries, keyed, shared>>

------------------------------------------------------------------------------
(* Load balancing and circuit breaking *)

(* Mutant: the comparison is the wrong way round. *)
LighterSwapped(best, t, load) ==
    IF best.min = -1 \/ load > best.min THEN [min |-> load, selected |-> t] ELSE best

(* One iteration of the loops over route.Targets; -1 means no minimum yet, *)
(* also when it is a reported load.                                        *)
Lighter(best, t, load) ==
    IF best.min = -1 \/ load < best.min THEN [min |-> load, selected |-> t] ELSE best

(* The loop of least_conn after i targets. *)
leastConn[i \in 0..Len(Targets)] ==
    IF i = 0 THEN NoBest ELSE Lighter(leastConn[i - 1], Targets[i], activeConns[Targets[i]])

FewestConns == leastConn[Len(Targets)].selected

(* balancerMu: held over the scan of the loads, and for one step by the    *)
(* others of this route who take it; it is shared with all other routes.   *)
NoScan == \A s \in Requests : pc[s] # "scanning"

BalancerFree == NoScan /\ ~elsewhere

(* Under balancerMu.  Each request goes by the policy its route had when   *)
(* it was matched; UpdateRoutes may change it for the next one.            *)
Select(r, t) ==
    /\ BalancerFree
    /\ Goto(r, "passed", "selected")
    /\ t \in TargetSet
    /\ tgt' = [tgt EXCEPT ![r] = t]
    /\ UNCHANGED <<limiter, code, errs, tries, keyed,
                   activeConns, scan, targetLoad, elsewhere, breakers, cached>>

LeastConn(r) ==
    /\ "least_conn" \in LoadBalancers
    /\ Select(r, FewestConns)
    /\ UNCHANGED rrIndex

RoundRobin(r) ==
    /\ "round_robin" \in LoadBalancers
    /\ Select(r, Targets[rrIndex + 1])
    /\ rrIndex' = (rrIndex + 1) % Len(Targets)

(* backpressure.  The loop holds balancerMu, but targetLoadMu only for one *)
(* read: answers may report loads between two of them.                     *)
BeginScan(r) ==
    /\ "backpressure" \in LoadBalancers
    /\ BalancerFree
    /\ Goto(r, "passed", "scanning")
    /\ scan' = NewScan
    /\ UNCHANGED <<limiter, tgt, code, errs, tries, keyed,
                   activeConns, rrIndex, targetLoad, elsewhere, breakers, cached>>

ReadLoad(r) ==
    /\ pc[r] = "scanning"
    /\ \E i \in 1..Len(Targets) :
          /\ i = scan.next
          /\ scan' = [scan EXCEPT !.next = i + 1,
                                  !.best = Lighter(@, Targets[i], targetLoad[Targets[i]])]
    /\ UNCHANGED <<limiter, local, activeConns, rrIndex, targetLoad, elsewhere, breakers, cached>>

EndScan(r) ==
    /\ scan.next > Len(Targets)
    /\ Goto(r, "scanning", "selected")
    /\ \E t \in TargetSet :
          /\ t = scan.best.selected
          /\ tgt' = [tgt EXCEPT ![r] = t]
    /\ scan' = NewScan
    /\ UNCHANGED <<limiter, code, errs, tries, keyed,
                   activeConns, rrIndex, targetLoad, elsewhere, breakers, cached>>

incConn(r) ==
    /\ BalancerFree
    /\ Goto(r, "selected", "connected")
    /\ activeConns' = [activeConns EXCEPT ![tgt[r]] = @ + 1]
    /\ UNCHANGED <<limiter, tgt, code, errs, tries, keyed,
                   rrIndex, scan, targetLoad, elsewhere, breakers, cached>>

(* cb.Allow(): on to the target, or 503. *)
Admit(r) ==
    /\ Goto(r, "connected", "allowed")
    /\ Admits(breakers[tgt[r]])
    /\ breakers' = [breakers EXCEPT ![tgt[r]] = Allow(@)]
    /\ UNCHANGED <<limiter, tgt, code, errs, tries, keyed,
                   activeConns, rrIndex, scan, targetLoad, elsewhere, cached>>

CircuitOpen(r) ==
    /\ Finish(r, "connected", "error", 0)
    /\ ~Admits(breakers[tgt[r]])
    /\ breakers' = [breakers EXCEPT ![tgt[r]] = Allow(@)]
    /\ UNCHANGED <<limiter, activeConns, rrIndex, scan, targetLoad, elsewhere, cached>>

------------------------------------------------------------------------------
(* Targets that are not reached through the reverse proxy.  None of these  *)
(* reports to the breaker that admitted the request.                       *)

(* Publish to ServQueue.  Unreadable body: 400; unreachable queue: 503,    *)
(* not counted; an error answer of the queue is passed on and counted from *)
(* 500 on.                                                                 *)
Bridge(r) ==
    /\ tgt[r] \in Bridged
    /\ \/ \E c \in Code \ {"none"} : Finish(r, "allowed", c, 0)
       \/ Finish(r, "allowed", "error", 1)
    /\ UNCHANGED <<limiter, shared>>

(* A target that does not parse: 502, counted.  LLM routing: 403 in this   *)
(* edition.                                                                *)
Undeliverable(r) ==
    /\ tgt[r] \notin Bridged
    /\ Finish(r, "allowed", "error", 1) \/ Finish(r, "allowed", "other", 0)
    /\ UNCHANGED <<limiter, shared>>

(* proxyWebSocket blocks until one direction of the tunnel ends, or        *)
(* returns at once when it cannot hijack or dial.                          *)
OpenTunnel(r) ==
    /\ tgt[r] \notin Bridged
    /\ Goto(r, "allowed", "tunnel")
    /\ UNCHANGED <<limiter, tgt, code, errs, tries, keyed, shared>>

CloseTunnel(r) ==
    /\ \E c \in {"other", "error"} : Finish(r, "tunnel", c, 0)
    /\ UNCHANGED <<limiter, shared>>

------------------------------------------------------------------------------
(* The reverse proxy *)

Send(r) ==
    /\ tgt[r] \notin Bridged
    /\ Goto(r, "allowed", "sending")
    /\ UNCHANGED <<limiter, tgt, code, errs, tries, keyed, shared>>

(* One attempt of RetryingTransport: the target answers, or the round trip *)
(* fails.  An answer below 500 ends the loop, and so does the last attempt *)
(* with whatever it got.                                                   *)
Attempt(r, outcome) ==
    LET last == outcome \in {"ok", "other"} \/ tries[r] + 1 = MaxRetries
    IN  /\ pc[r] = "sending"
        /\ tries' = [tries EXCEPT ![r] = IF last THEN 0 ELSE @ + 1]
        /\ pc' = [pc EXCEPT ![r] = IF ~last THEN "sending"
                                   ELSE IF outcome = "drop" THEN "failed"
                                   ELSE "responded"]
        /\ code' = IF last /\ outcome # "drop" THEN [code EXCEPT ![r] = outcome] ELSE code
        /\ UNCHANGED <<limiter, tgt, errs, keyed, shared>>

Outcome == {"ok", "other", "error", "drop"}

SetLoad(t, load) ==
    /\ targetLoad' = [targetLoad EXCEPT ![t] = load]
    /\ scan' = [scan EXCEPT !.stable = @ /\ NoScan]

(* ModifyResponse takes over the load the target reports, ... *)
TakeLoad(r) ==
    /\ Goto(r, "responded", "reading")
    /\ \/ UNCHANGED <<targetLoad, scan>>
       \/ \E load \in Loads : SetLoad(tgt[r], load)
    /\ UNCHANGED <<limiter, tgt, code, errs, tries, keyed,
                   activeConns, rrIndex, elsewhere, breakers, cached>>

(* ... then reads the body, which may never end, and rewrites it; a body   *)
(* that breaks off and a failing plugin or WASM module make it fail.       *)
ModifyResponse(r) ==
    /\ Goto(r, "reading", "copying") \/ Goto(r, "reading", "failed")
    /\ UNCHANGED <<limiter, tgt, code, errs, tries, keyed, shared>>

(* Mutant: the 502 is counted here too. *)
ErrorHandlerCounts(r) ==
    /\ Goto(r, "failed", "written")
    /\ code' = [code EXCEPT ![r] = "error"]
    /\ errs' = [errs EXCEPT ![r] = @ + 1]
    /\ SetLoad(tgt[r], MaxPenalty)
    /\ UNCHANGED <<limiter, tgt, tries, keyed, activeConns, rrIndex, elsewhere, breakers, cached>>

(* proxy.ErrorHandler: penalty and 502. *)
ErrorHandler(r) ==
    /\ Goto(r, "failed", "written")
    /\ code' = [code EXCEPT ![r] = "error"]
    /\ SetLoad(tgt[r], MaxPenalty)
    /\ UNCHANGED <<limiter, tgt, errs, tries, keyed,
                   activeConns, rrIndex, elsewhere, breakers, cached>>

(* Mutant: decConn is called at the end instead of deferred. *)
PanicKeepsCount(r) ==
    /\ \E from \in {"missed", "reading", "copying"} : Goto(r, from, "returning")
    /\ keyed' = [keyed EXCEPT ![r] = FALSE]
    /\ tgt' = [tgt EXCEPT ![r] = None]
    /\ UNCHANGED <<limiter, code, errs, tries, shared>>

(* A panic, after which only the deferred calls run: the WASM manager's on *)
(* a closed pool, in request or response middleware, or ErrAbortHandler of *)
(* the reverse proxy when the client is gone while the body is copied.     *)
Panic(r) ==
    /\ \E from \in {"missed", "reading", "copying"} : Goto(r, from, "returning")
    /\ keyed' = [keyed EXCEPT ![r] = FALSE]
    /\ UNCHANGED <<limiter, tgt, code, errs, tries, shared>>

(* After proxy.ServeHTTP: count a 5xx, store a 2xx. *)
Store(r) ==
    /\ Goto(r, "copying", "recording") \/ Goto(r, "written", "recording")
    /\ errs' = IF code[r] = "error" THEN [errs EXCEPT ![r] = @ + 1] ELSE errs
    /\ cached' = (cached \/ (keyed[r] /\ code[r] = "ok"))
    /\ keyed' = [keyed EXCEPT ![r] = FALSE]
    /\ UNCHANGED <<limiter, tgt, code, tries,
                   activeConns, rrIndex, scan, targetLoad, elsewhere, breakers>>

(* cb.RecordRequest(time.Since(start), rec.StatusCode < 500), whatever     *)
(* time the request spent in the queue, in middleware and in retries.      *)
Record(r) ==
    /\ Goto(r, "recording", "returning")
    /\ \E dur \in {0, Horizon} :
          breakers' = [breakers EXCEPT ![tgt[r]] = RecordRequest(@, dur, code[r] # "error")]
    /\ UNCHANGED <<limiter, tgt, code, errs, tries, keyed,
                   activeConns, rrIndex, scan, targetLoad, elsewhere, cached>>

------------------------------------------------------------------------------
(* The deferred calls, last one first *)

decConn(r) ==
    /\ BalancerFree
    /\ pc[r] = "returning"
    /\ tgt[r] # None
    /\ activeConns' = [activeConns EXCEPT ![tgt[r]] = IF @ - 1 < 0 THEN 0 ELSE @ - 1]
    /\ tgt' = [tgt EXCEPT ![r] = None]
    /\ UNCHANGED <<limiter, pc, code, errs, tries, keyed,
                   rrIndex, scan, targetLoad, elsewhere, breakers, cached>>

(* Mutant: the slot is given back before the connection is counted off. *)
ReleaseFirst(r) ==
    /\ pc[r] = "returning"
    /\ L!Release(r)
    /\ UNCHANGED <<local, shared>>

Release(r) ==
    /\ pc[r] = "returning"
    /\ tgt[r] = None
    /\ L!Release(r)
    /\ UNCHANGED <<local, shared>>

Return(r) ==
    /\ tgt[r] = None
    /\ at[r] = "out"
    /\ Goto(r, "returning", "idle")
    /\ code' = [code EXCEPT ![r] = "none"]
    /\ errs' = [errs EXCEPT ![r] = 0]
    /\ UNCHANGED <<limiter, tgt, tries, keyed, shared>>

------------------------------------------------------------------------------
(* The environment *)

(* The cached answer expires or is invalidated. *)
Expire ==
    /\ cached
    /\ cached' = FALSE
    /\ UNCHANGED <<limiter, local, activeConns, rrIndex, scan, targetLoad, elsewhere, breakers>>

Tick ==
    /\ breakers' = [t \in TargetSet |-> [breakers[t] EXCEPT !.since = Older(@)]]
    /\ UNCHANGED <<limiter, local, activeConns, rrIndex, scan, targetLoad, elsewhere, cached>>

(* selectTarget, incConn and decConn for another route, and UpdateRoutes,  *)
(* take balancerMu and leave it.                                           *)
LockElsewhere ==
    /\ BalancerFree
    /\ elsewhere' = TRUE
    /\ UNCHANGED <<limiter, local, activeConns, rrIndex, scan, targetLoad, breakers, cached>>

UnlockElsewhere ==
    /\ elsewhere
    /\ elsewhere' = FALSE
    /\ UNCHANGED <<limiter, local, activeConns, rrIndex, scan, targetLoad, breakers, cached>>

Begin(r) == Arrive(r) \/ AnswerLocally(r) \/ NoRoute(r)

(* The steps that take balancerMu. *)
Lock(r) == LeastConn(r) \/ RoundRobin(r) \/ BeginScan(r) \/ incConn(r) \/ decConn(r)

Handle(r) ==
    \/ Acquire(r) \/ TurnAway(r)
    \/ Federate(r) \/ CacheHit(r) \/ CacheMiss(r) \/ CacheSkip(r) \/ Intercept(r) \/ Pass(r)
    \/ LeastConn(r) \/ RoundRobin(r) \/ BeginScan(r) \/ ReadLoad(r) \/ EndScan(r)
    \/ incConn(r) \/ Admit(r) \/ CircuitOpen(r)
    \/ Bridge(r) \/ Undeliverable(r) \/ OpenTunnel(r) \/ CloseTunnel(r) \/ Send(r)
    \/ (\E outcome \in Outcome : Attempt(r, outcome))
    \/ TakeLoad(r) \/ ModifyResponse(r) \/ ErrorHandler(r) \/ Panic(r) \/ Store(r) \/ Record(r)
    \/ decConn(r) \/ Release(r) \/ Return(r)

Next ==
    \/ Expire \/ Tick \/ LockElsewhere \/ UnlockElsewhere
    \/ \E r \in Requests : Begin(r) \/ Handle(r)

Spec == Init /\ [][Next]_vars

(* Where ServeHTTP waits for others and nothing bounds the wait: for the   *)
(* client, which sends its body past the limiter and after the breaker and *)
(* takes a cached or a copied answer (the server has no timeouts); for     *)
(* plugins and WASM guests, which may run forever; for the target's        *)
(* header, body or tunnel (the transport has none).                        *)
Kept(r) ==
    \/ pc[r] = "acquire" /\ at[r] = "holding"
    \/ pc[r] \in {"missed", "allowed", "tunnel", "sending", "reading", "copying"}

(* Everywhere else a goroutine runs on and the queue's timer fires; what   *)
(* is done under balancerMu ends, and a mutex that is free again and again *)
(* is had in the end (sync.Mutex hands itself over to a waiter that        *)
(* starves).                                                               *)
FairSpec ==
    /\ Spec
    /\ WF_vars(UnlockElsewhere)
    /\ \A r \in Requests : WF_vars(~Kept(r) /\ Handle(r)) /\ SF_vars(Lock(r))

------------------------------------------------------------------------------
(* Properties *)

OnTarget(t) == {r \in Requests : tgt[r] = t /\ pc[r] # "selected"}

(* The load balancer's gauge is exact on every path out of ServeHTTP,      *)
(* panics included: a target's count is the number of requests between     *)
(* incConn and decConn, so the clamp in decConn never hides a lost one.    *)
ConnAccounting ==
    \A t \in TargetSet :
        IsFiniteSet(OnTarget(t)) /\ activeConns[t] = Cardinality(OnTarget(t))

Upstream ==
    {r \in Requests :
        pc[r] \in {"allowed", "tunnel", "sending", "responded", "reading", "failed", "copying"}}

(* However the requests of a route leave, by answer, error, panic or       *)
(* tunnel, no more than MaxConcurrent of them are at its targets: a slot   *)
(* is given back only after the target is done with.                       *)
UpstreamBounded == IsFiniteSet(Upstream) /\ Cardinality(Upstream) <= MaxConcurrent

(* A request is counted as an error at most once, and only if it was       *)
(* answered with a 5xx, whichever of the exits of ServeHTTP it took.       *)
ErrorsCountedOnce ==
    \A r \in Requests : errs[r] = 0 \/ (errs[r] = 1 /\ code[r] = "error")

InFlight(t) == Cardinality(OnTarget(t))

(* What the balancer picks is least loaded by the facts, not only by its   *)
(* gauge: least_conn never sends to a target while another one serves      *)
(* fewer requests, and backpressure never to one that reported more load   *)
(* or failed, while another did not, unless a load was reported between    *)
(* the reads of the loop, or is the -1 that selectTarget takes for none    *)
(* (selectTarget, ErrorHandler, ModifyResponse).                           *)
PicksLeastLoaded ==
    [][\A r \in Requests, u \in TargetSet :
          /\ LeastConn(r) => InFlight(tgt'[r]) <= InFlight(u)
          /\ (/\ scan.stable
              /\ \A t \in TargetSet : targetLoad[t] # -1
              /\ EndScan(r)) => targetLoad[tgt'[r]] <= targetLoad[u]]_vars

(* A request ends, and gives back slot, queue place and connection count   *)
(* before the next one, unless the client, a guest or the target of that   *)
(* very request keeps it forever: requests that are kept, whatever they    *)
(* hold, keep no other one (Acquire's timer, balancerMu, the deferred      *)
(* calls).                                                                 *)
RequestsEnd ==
    \A r \in Requests : []<>~Kept(r) => (pc[r] # "idle" ~> pc[r] = "idle")

------------------------------------------------------------------------------
(* The inductive invariant. *)

BeforeTarget == {"idle", "acquire", "missed", "passed", "scanning"}

AtTarget == PC \ (BeforeTarget \cup {"returning"})

(* Where a request is tells what it owes: a request that selected a target *)
(* has one until decConn, and everything past Acquire holds a slot until   *)
(* after decConn.                                                          *)
WellPlaced ==
    \A r \in Requests :
        /\ pc[r] \in BeforeTarget => tgt[r] = None
        /\ pc[r] \in AtTarget => tgt[r] # None
        /\ \/ pc[r] \in AtTarget \cup {"missed", "passed", "scanning"}
           \/ tgt[r] # None
           => at[r] = "holding"
        /\ pc[r] = "idle" => at[r] = "out"
        /\ pc[r] # "acquire" => at[r] \in {"out", "holding"}

(* Errors are counted when the answer is out and not before. *)
ErrorsPlaced ==
    \A r \in Requests : errs[r] # 0 => pc[r] \in {"recording", "returning"}

(* best is the first n targets' least loaded one, by the loads given. *)
LeastOf(best, n, load) ==
    IF n = 0 THEN best = NoBest
    ELSE /\ best.selected \in TargetSet
         /\ best.min = load[best.selected]
         /\ \A i \in 1..n : best.min <= load[Targets[i]]

(* What the scan has is what it has seen, as long as nothing changed. *)
ScanSeen ==
    /\ ~NoScan
    /\ scan.stable
    /\ \A t \in TargetSet : targetLoad[t] # -1
    => LeastOf(scan.best, scan.next - 1, targetLoad)

IInv ==
    /\ TypeOK /\ L!TokensAccounted /\ WellPlaced /\ ConnAccounting
    /\ ErrorsCountedOnce /\ ErrorsPlaced /\ ScanSeen
==============================================================================
