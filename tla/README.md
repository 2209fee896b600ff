# ServGate in TLA+

ServGate is an API gateway in Go: one process that matches requests to routes,
guards them (authentication, policies, quotas, limits), runs WASM and Go
middleware, balances over targets and proxies. This directory holds TLA+ models
of its concurrent core, the TLC configurations that check them on small
instances, and TLAPS proofs of the main results for every instance.

Source paths are relative to the repository's root (`pkg/proxy/handler.go` is
`src/pkg/proxy/handler.go` in `PROJECT.json`); `PROJECT.json` maps every
definition to the lines it models.

## 1. The system

Every request is a goroutine in `GatewayHandler.ServeHTTP`. There is no event
loop and no global lock: each shared structure has a mutex or a channel of its
own, and everything between two critical sections interleaves.

| Component | State | Operations | Hard because | Correct when |
|---|---|---|---|---|
| Circuit breaker (`handler.go` 2303-2406), one per target | state, window of latencies, success count, time of the last change | `Allow`, `RecordRequest` | answers arrive in any order, also from before the circuit opened; the duration is read before the lock is taken; some requests never report | quiet after a failure; only real trials close it, or an answer held up for seconds on its way to the lock; it never stays open or half-open for good |
| Backpressure limiter (151-201), one per route | two buffered channels | `Acquire`, the returned release | four non-atomic channel operations, timer, cancellation | no token lost or doubled, bounded wait |
| Request pipeline (`ServeHTTP`, 681-1651) | locals, deferred calls | about twenty exits, panics included | every exit owes something else | gauges exact, slots given back once, errors counted at most once |
| Load balancing (1653-1716, 1768-1781) | `activeConns`, `targetLoad`, `rrIndices` | `selectTarget`, `incConn`, `decConn`, load reports | pick and count are two steps; loads are read one by one | picks by the facts |
| Retrying transport (575-610) | loop index | `RoundTrip` | 5xx and drops mix | the last outcome is what the pipeline sees |
| WASM manager (`pkg/wasm/runner.go`) | compiled modules, instance pools, the engine's code table | `Register`, `Run` | swap while Runs are under way; a closer that acts 5 s later | one user per instance, right logic, nobody dropped |
| Response cache (`pkg/proxy/cache.go`), one per route | entries with expiry | `Get`, `Set`, `Invalidate`, eviction | check and delete under different locks; store long after lookup | a fresh entry is lost only to a Get that a Set came between, expired ones go, only an overtaken fetch brings older data back |
| Rate limiting (612-679, `main.go` 902-949) | sliding windows, Redis sets | `isRateLimited`, `Limit` | Redis count and add are two transactions, the second may be late or lost; the fallback has a history of its own | what Redis records in time is over the limit by no more than the requests that race |
| Canary promotion (`canary.go`, 1612-1624) | weights, statistics | promotion loop, statistics | weights are read without the lock they are written under, and nothing checks the configured ones; statistics are read, reset and kept by URL under another | a request finds a target, the loop goes by the right calls, a rollback holds, it comes to an end |
| Configuration (`provider.go`, `main.go` 107-166, 233-477, `UpdateRoutes`) | stored and live routes | admin changes, S3 polling, console sync, GitOps | load-modify-save without a lock; in-place writes; failures ignored | stored and live agree unless changes overlap or fail; the file is whole unless a write was cut |
| Policies, sessions, tenants (685-780, 1872-1917, `main.go` 521-570) | policy schema and version, revocations | reload, revoke, checks | two-step updates, clock granularity | what is revoked stays out, later logins get in, an answered reload is in force |
| WebSocket tunnel and metrics feed (1783-1829, `websocket.go`) | connections | copy loops, frames | two directions, either may end | nothing leaks |
| The rest: transformation, validation, AI heuristics, plugins, access log, replay, TLS, docs | little or none | pure functions, I/O | - | - |

`ServeHTTP` passes policies, authentication, API key, IP lists and rate limit,
and then calls limiter, cache, WASM manager, balancer, breaker and transport
in that order; `defer` gives back connection count and slot, last in, first
out. Admin handlers call `Register`, `InvalidateCache` and the configuration
side concurrently with all of it.

## 2. Modules

| Module | Models | Notes |
|---|---|---|
| `Breaker` | the breaker as operations on a record | shared by the two modules below |
| `CircuitBreaker` | one breaker and the requests that race on it | `Admit`/`Refuse` are `Allow` at its call, `Measure` reads the duration, `Report` is `RecordRequest`, `Abandon` the paths that never report |
| `AdmissionControl` | what a limiter promises: a room and a lobby | abstract |
| `BackpressureLimiter` | `Acquire` and release, one action per channel operation | implements `AdmissionControl` |
| `Gateway` | `ServeHTTP` from the limiter on, for one route with a list of targets | composes `BackpressureLimiter` (`INSTANCE`) and `Breaker`; `balancerMu` is shared with other routes |
| `WasmPool` | `Register` and `Run` for one middleware name | with the vendored engine's code table |
| `ResponseCache` | cache operations and the lookups and fetches that use them | answers carry the version of the target's data |
| `RateLimiter` | `isRateLimited` for one key: Redis's two transactions, failure, an add that is late or lost, the local window, restart | operators and sub-actions |
| `Gates` | `ServeHTTP` before the limiter, session revocation, policy reload | extends `RateLimiter` |
| `Canary` | the promotion loop, the weighted `selectTarget`, the canary's statistics | for one route across deployments |
| `RouteAdmin` | stored and live routes, the admin handlers, the poller, start, shutdown, crash | |
| `CircuitBreakerProofs`, `BackpressureLimiterProofs`, `GatewayProofs`, `WasmPoolProofs`, `ResponseCacheProofs`, `GatesProofs`, `CanaryProofs`, `RouteAdminProofs` | proofs | section 5 |
| `MC*` | instances for TLC | |

Abstractions, and why they are sound:

- *Time.* The breaker compares durations with the SLO and the time since the
  last change with the cooling period, and nothing else. Clocks are ages in
  ticks that saturate at `Horizon`, past both thresholds, so no bound on time is
  needed. `Gateway` keeps of a request's duration only whether it is over the
  SLO; cache entries keep their age up to just past the TTL. `Set` computes the
  expiry before it takes the lock, so an entry is stored with any age.
- *Latencies.* p99 is only compared with the SLO, so a sample is whether it
  exceeded it; `P99Breached` is the sorted index of the code over such samples.
- *Channels* of empty structs are their fill. A freed slot goes to whoever comes
  next, which covers Go's random choice among ready cases and its parked
  senders.
- *Answers* are classes: 2xx, 5xx and the rest. What a gate, plugin or target
  answers is nondeterministic. In `Gateway` the gates before the limiter share
  one refusal (`AnswerLocally`); `Gates` has them one by one.
- *Panics.* `Panic` covers the send on a closed pool inside middleware and the
  reverse proxy's abort when the client is gone; only deferred calls follow.
- *`selectTarget`* is one step for `least_conn` and round robin, which hold
  `balancerMu` throughout. For `backpressure` each load is read in a step of its
  own, because `targetLoadMu` is taken per read; `BalancerFree` is the mutex,
  `LockElsewhere` and `UnlockElsewhere` its use by other routes and `UpdateRoutes`.
  Each request uses the policy its route had when it was matched, any of
  `LoadBalancers`, since an admin may change it meanwhile.
- *Gates.* One user, client and route. Of JWTs the age, whether they carry an
  `iat`, and the policy version matter; of a schema, which installation it is.
  API keys, their own limiters and those of MCP agents, schema registry, tenant
  policy and IP lists may each refuse a request and touch nothing modelled here.
  An `iat` is the beginning of its second (`SecondOf`), a revocation is exact,
  and so a token issued right after a revocation, in the same second, is refused.
- *Rate limit.* Entries are ages since the request read the clock; the deadline
  of the Redis context bounds a call to `RedisTimeout`. A ZADD that was sent is
  executed at any later time, or never, whether its request waits for it, has
  given up, or is gone with the process (`SendAdd`, `RedisAdd`, `RedisExecutes`,
  `RedisAddLost`). Left out: a prune executed late, which removes only entries
  that are out of every window by then, and the expiry of the Redis key, which
  never comes before that of its members.
- *Canary.* Weights are read and written one by one: the loop holds `routesMu`,
  a request reads through the array its copy of the route shares. Of the interval
  is kept whether it is over. `Full`, `Step` and `MinCalls` are parameters, and so
  are the configured weights, which nothing in the code checks: any natural
  numbers, for two targets or more. The loop never writes the third and later
  ones, and only their sum (`others`) decides anything here. A negative weight is
  not modelled.
- *Routes.* A configuration is the set of prefixes that have a route. A write of
  the file is truncate, then write; a PUT may fail before or after it took
  effect, or be given up and take effect later (`late`, `LandLate`). A load may fail
  though the configuration is fine; for `POST`, `DELETE` and a poll that is no step.
  The file or object is never deleted under a running gateway.
- *The engine* (wazero, vendored) is a set of digests with code: compiling adds,
  `CompiledModule.Close` removes, without counting users.
- *Edition.* The open-source build is modelled: GraphQL federation and LLM
  routing answer 403.

History variables are written next to the code's state and decide no step of
it: `trials`, `sinceFail`, `waited` (breaker), `start` (WASM), `scan.stable` (gateway),
`late`, `floor`, `swapped` (cache), `astray` (rate limiter), `barred`, `outdated`,
`settled`, `base` (gates), `config`, `rolled`, `foreign`, `own`, `ownSeen` (canary),
`cut`, `drift`, `want`, `pending` and the fields `goal` and `clean` (routes). In the cache `version` is the
target's data, which the code sees only through answers.

Definitions marked *Mutant* are plausible bugs of the definition that follows
them. `PROJECT.json` names, for every property, a mutant that breaks it; no
specification uses them.

## 3. Runs

| Run | Instance | Checks |
|---|---|---|
| `breaker` | 3 requests, window 3, 2 samples for p99, 2 trials, SLO 0, cooling 1 | `IInv`, `ClosedWithinSLO`, `QuietAfterFailure`, `OnlyTrialsCount`, `OpenIsProbed`, `RecoveryCloses` |
| `limiter` | 5 requests, 2 slots, 1 place | `TypeOK`, `TokensAccounted`, `AcquireReturns`, `Implements` |
| `gateway` | 2 requests past the limiter, 2 attempts, a proxied and a bridged target, all three balancers, loads -1 and 1, penalty 2 | `IInv`, `ConnAccounting`, `ErrorsCountedOnce`, `PicksLeastLoaded` |
| `gateway_live` | 2 requests on 1 slot and 1 place, least_conn and backpressure, other users of `balancerMu` | `UpstreamBounded`, `RequestsEnd` |
| `wasm_pool` | 2 Runs, 3 Registers, pool of 1, 3 instances | `IInv`, `InstanceExclusive`, `RightLogic`, `NothingStranded`, `RunsReturn` |
| `wasm_drops` | 2 modules | `HotSwapDropsNothing`, violated |
| `wasm_code` | 2 modules | `NewLogicServes`, violated |
| `cache` | 2 requests, 2 keys, TTL 1, data that changes once | `IInv`, `NoOlderAnswer`, `FreshSurvives`, `ExpiredGoes` |
| `gates` | 2 requests, 2 admins, 3 members and 2 local entries, limit 1, window and Redis deadline 1 tick, 2 ticks a second, 2 reloads with authentication, 1 with a rate | `RedisBounded`, `LocalBounded`, `RevokedStayOut`, `OutdatedAreTold`, `NewTokensEnter`, `JudgedByCurrent` |
| `canary` | 2 requests, 2 deployments, full weight 2, configured stable/canary/others 1/1/0, 0/1/1 and 0/1/0, step 2, rollback from 2 calls on at over 50 % | `AlwaysWeighted`, `WeightsAddUp`, `RollbackHolds`, `DecidesOnOwnCalls`, `CanarySettles` |
| `routes` | 2 handlers, 2 prefixes, file and bucket, 1 late PUT | `TornIsCut`, `InStep`, `PollerApplies` |
| `routes_reload` | as `routes`, bucket only | `HotReload`, violated |

What they show beyond the obvious:

- `breaker`: the code does not tell a trial from an old answer, it goes by
  durations. An answer from before the circuit opened can close it only if its
  goroutine was held up between `time.Since(start)` and `cb.mu` for longer than
  cooling period less SLO (4 s of 5 s).
- `limiter`: `Implements` is safety; that `Acquire` answers is `AcquireReturns`.
- `gateway`: the pick is least loaded by the facts, except for a load that
  changes during the scan and one of -1, which `selectTarget` takes for "none
  yet". No error is counted twice or without a 5xx; several 5xx exits (open
  circuit, queue timeout, unreachable queue, a tunnel that fails) count nothing.
- `gateway_live`: a request that its client, a guest or its target keeps forever
  keeps its slot, and nobody but itself: the others get their refusal, and
  nobody holds `balancerMu` while being kept.
- `cache`: an older answer comes back, after a newer one was stored or the route
  was invalidated, only through a fetch that was under way at that moment; a `Get`
  deletes a fresh entry only if the key was stored between its read and its
  delete.
- `gates`: of the requests that waited for their ZADD, Redis records at most
  limit + requests - 1 in a minute; the local window holds at most the limit.
  These are bounds on what each limiter records, not on what a client gets. Both
  limiters may let it through across a failure; a ZADD that is lost or late lets
  its request, and others until it arrives, pass uncounted; and a restart empties
  the local window. A policy that a reload has answered for judges every request
  that begins afterwards. `RevokedStayOut` is about `ServeHTTP`: the admin
  handlers validate their JWTs without looking at revocations (`main.go` 241).
- `canary`: the sum a request sees is not zero, although it reads the weights
  while the loop writes them, if a target other than the canary has weight in the
  configuration or the canary has all. A route configured with nothing but a
  canary below 100 % is the exception, and nothing rejects it: a request that reads
  the stable weight before a rollback and the canary's after it finds no target.
  Configured weights stand until the first promotion or rollback; from then on the
  two that the loop writes split 100 %, whatever further targets have on top. Once
  a canary is rolled back no request of that deployment selects it, not even one
  in the middle of its selection; a new deployment of the same route starts anew.
- `routes`: two handlers writing the file at once still leave one that loads.

Some properties name an exception that the code really has, and are therefore
about everything else: overtaken fetches (`NoOlderAnswer`), calls counted between
the loop's look and its reset and those of an earlier deployment of the URL
(`DecidesOnOwnCalls`), overlapping or failing changes (`InStep`: what is shown is
that nothing else makes storage and memory differ, and that one change made
alone, or a restart, brings them together), writes cut short by a crash or a
failure (`TornIsCut`). The entries under `hazards` in `PROJECT.json` say so one by
one.

Bounds. Three requests let a stale answer, a trial and a newcomer meet at the
breaker; with an SLO of 0 and a cooling period of 1 tick an answer can be within
the one and held up past the other. The breaker's window exceeds the trials, as in the code (50 and 3), so samples
can survive a trial period. Five requests on two slots and one place fill both
channels and still leave some at the full queue. Two requests suffice in
`Gateway` for every pairwise race on its gauges; the limiter's own races are
checked with five in `limiter` and proved in general. Breaker constants are
minimal there (one failure, one tick, one trial), so that all three states occur
on short paths. A pool of one is full and empty within one Run; three
generations let a Run be two behind. One change of the data tells an older
answer from a newer one. Three members are one more than `RedisBounded` allows.
Two reloads overlap or follow each other. A step of 2 from 1 does not fit under
`Full` and needs the clamp; three calls exceed `MinCalls` with either verdict; a
second deployment meets the statistics of the first; the three configurations are
one that adds up, one with a third target, and one that `AlwaysWeighted` excepts. Two prefixes let one change
undo the other.

Bounds on counters, each a guard: `MaxGen` (Registers), `MaxVersion` (changes of
the data), `MaxReloads` (policy reloads between restarts), `MaxAge` (no time
passes while a token looked at, or the revocation, is this old), `MaxDeploys`,
`MaxCalls` (calls between two resets), `MaxLate` (PUTs given up and still on their
way). Other ages saturate and need none.

`MCGates` has authentication and rate limit in separate configurations, since
neither gate reads what the other changes; symmetry is over requests,
members, local entries and admins, which the model never orders, and no liveness is checked with it.

Fairness:

- breaker: time passes and traffic keeps coming; nothing is assumed of targets.
  `RecoveryCloses` takes good behaviour of the target as its hypothesis;
- limiter: goroutines inside `Acquire` run and timers fire; no slot need ever be
  released;
- gateway: nothing is assumed where a request waits for others without a bound
  (`Kept`): for the client's body and for the client to take an answer (the server
  has no timeouts, `main.go` 613), for plugins and WASM guests, for the target's
  header, its body (`io.ReadAll`, `handler.go` 1503) or the end of a tunnel (the
  transport has no timeout). Everywhere else a goroutine runs on and the queue's
  timer fires; who holds `balancerMu` lets go of it, and nobody starves on it
  (strong fairness, for the reason given for the WASM manager). `RequestsEnd` has
  as hypothesis, for each request by itself, that it is not kept forever;
- WASM: goroutines run and `sync.Mutex`, whose starvation mode hands the lock
  over in order, starves nobody (strong fairness on taking it); guests may run
  forever, since the runtime is not configured to stop them when the context is
  done, and `RunsReturn` takes their return as hypothesis;
- cache: the eviction ticker fires and time passes;
- canary: the loop's ticker fires and the interval passes; requests need neither
  arrive nor end;
- routes: the poller's ticker fires, and not every GET it sends fails (fairness of
  `PollLoad`: a bucket that is never reached again is not applied); handlers take
  the steps that are theirs, whose calls have timeouts; a `git pull` may hang, nobody has to publish, restart or sign anew;
- gates: none, all its properties are safety.

## 4. Findings

Three runs are expected to fail; each shows the code disagreeing with something
the repository says.

- `wasm_drops`: `Register` closes the old pool while a Run that looked it up is
  still to send its instance back. A send on a closed channel panics even in a
  `select` with `default`, so the request in flight is dropped. `ROADMAP.md`
  10.3: "hot-swap without request drops".
- `wasm_code`: the closer that `Register` starts removes code by digest; if the
  same bytes were registered again within 5 s, the current registration loses
  its code. `ROADMAP.md` 10.3: "new requests use new logic".
- `routes_reload`: the poller compares what it loads with what *it* applied
  last. After an admin change, which it has not seen, a configuration put into
  the bucket that equals its last one is never applied. `ROADMAP.md` 8.8:
  "Watch config.json (or ServStore bucket) for changes and apply route updates
  without restarting". `PollerApplies` is what does hold. (The file provider is
  not watched at all.)

Beside these, `FreshSurvives` names the fresh entry that a `Get` may delete
after its expired predecessor was replaced, `OnlyTrialsCount` the old answer that
may close a circuit, `AlwaysWeighted` the routes on which a request may find no
target, and `NothingStranded` is what the panic buys: no instance ends up in a
pool that nobody drains.

## 5. Proofs

Every invariant and every action property that a run checks is also a theorem,
for arbitrary sets of requests, Runs, handlers, targets, keys and prefixes and any
constants the named assumptions allow: `BreakerAssumption` (SLO at most the
cooling period, which the code's 1 s and 5 s satisfy), `LimiterAssumption` (at
least one slot), `GatewayAssumption` (at least one target and one attempt),
`PoolAssumption` (a pool of at least one), `CacheAssumption`,
`RateLimiterAssumption` (finitely many requests, members and local entries,
positive limits and window), `GatesAssumption` (credentials of different kinds differ),
`CanaryAssumption` (positive full weight and step; configured weights are natural
numbers and nothing more) and `RouteAdminAssumption` (what handlers get are configurations).

- **Breaker** (`CircuitBreakerProofs`). `QuietAfterFailure` and
  `OnlyTrialsCount` are not inductive: both need to know how old the requests
  still out are. `IInv` adds that while open, the failure clock and the requests
  still out are at least as old as the open period, the time since their duration
  was read included (`OpenOutlived`: nobody is admitted then). Hence at the change
  to half-open every request still out began more than the cooling period ago
  (`StaleIsSlow`): its duration is over the SLO and its answer trips instead of
  counting, or it was read more than Cooling - SLO ago. This is where
  SLO <= Cooling is needed: a target with an SLO above 5 s could be closed by any
  stale answer. `ClosedIsWithinSLO`,
  `FailureQuietsTarget` and `ClosingNeedsTrials` follow.
- **Limiter** (`BackpressureLimiterProofs`). `IInv`: each channel holds as many
  tokens as requests that will take one out; every action moves a token and its
  holder together. `ChannelsInBounds` and `TokensNeverLeak` are its parts.
  `Refinement` shows `Spec => Implements` with the holders of slot and queue
  tokens as room and lobby: it needs the counts to turn a channel with space into
  a room with space.
- **Pipeline** (`GatewayProofs`). `IInv`: types, the limiter's invariant,
  `WellPlaced` (where a request is tells what it owes), `ConnAccounting`, when
  errors are counted (`ErrorsPlaced`) and what a scan has seen (`ScanSeen`). The
  limiter's part is not proved again: `LimiterStep` shows each step of the
  pipeline to be one of the limiter or none, and the limiter's theorem is used
  through `INSTANCE`. Results: `GaugesExact` (so the clamp in `decConn` never
  acts), `UpstreamIsBounded`, `ErrorsAreCountedOnce` (at most once: before the
  answer is out nothing is counted, so whoever counts, counts first) and
  `PicksByTheFacts`. The latter is about loops over any number of targets.
  `LighterLeast` says that an iteration keeps the least of what was seen. The
  scan of the loads makes each iteration a step, so `ScanSeen` is inductive.
  The loop of `least_conn` is one step and a recursive function; that it has a
  value (`LeastConnLoop`), and which (`LeastConnLeast`), is shown by induction in the
  form the provers can use, a least counterexample (`LeastNat`, from the
  library's `WFMin`). `GaugesExact` turns the gauges into requests in flight.
- **WASM manager** (`WasmPoolProofs`). `IInv`: where a Run is tells whether it has
  an instance, the lock and which registration (`RunsPlaced`), and only the current
  pool, or the one a Register is draining, holds instances (`PoolsPlaced`). This is
  what the properties lack: a Run gives its instance back long after it looked up
  the pool, and only because that pool is closed by then, so that the send panics,
  does nothing go into a pool nobody drains (`ReplacedPoolsEmpty`). `OneUser` and
  `NewCallsNewLogic` are parts of it.
- **Cache** (`ResponseCacheProofs`). `NoOlderAnswer` speaks of stored entries;
  `IInv` adds that an answer about to be stored is as new as its key unless it was
  overtaken (`AnswersAreNew`). It survives a `Set` or an `Invalidate` of the key
  because these mark every fetch under way, and `FetchOK` establishes it since no
  floor exceeds the data's version. `FreshAreKept` needs `ReadStands`: from Get's
  read to its delete the key holds what was read, or nothing, unless it was
  stored (`swapped`); so what it found expired is what it deletes.
- **Gates** (`GatesProofs`). `RedisBounded` is not inductive, since several
  requests may have counted and not added yet: `RedisAccounted` counts those that
  wait for their ZADD as if it had arrived. A count below the limit leaves room for
  every request there is; a ZADD that is executed moves its request from one
  summand to the other. One that nobody waits for is `astray` (`SentIsAwaited`) and
  in neither. The limiter is proved on its own
  (`LimiterStep`) and `GatesStepLimiter` shows each step of the gates to be one of
  its steps or none. `RevokedStayOut` needs that token and revocation grow old
  together (`BarredByToken`) and that rounding to the second only makes a token
  older (`SecondOfOlder`); `OutdatedAreTold` that the version only grows
  (`OutdatedByToken`); `JudgedByCurrent` that nothing settled, awaited or relied
  on is newer than the schema in force (`SchemaInForce`). `LaterLoginsEnter` rests
  on arithmetic (`SecondsApart`): seconds begin a whole number of seconds apart, so
  a token whose second began no later than the revocation is of its second or an
  older one.
- **Canary** (`CanaryProofs`). The weights stand as configured or add up between
  two passes only; `WeightsPlaced` says what holds of them at each point of a pass,
  above all that from a sound configuration (`Sound`) some target other than the
  canary keeps weight until the canary has its new one. Hence a request that read
  a stable weight of zero will read another target's, or a canary at the full
  weight (`ReadsPlaced`), and the sum is not zero (`RequestsFindTarget`). `RolledPlaced`
  (the loop has let go of what it rolled back) and that a request which passed the
  stable target over drew at least its weight give `RollbackIsForGood`: the canary's
  weight, then read as zero, cannot catch it. `CountsPlaced` identifies the
  statistics with the deployment's own calls, for `DecisionsAreOwn`.
- **Routes** (`RouteAdminProofs`). `InStep` is about quiet moments. `IInv` adds
  what holds while a change is under way: storage and memory are in step or a
  handler is about to bring them together (`SyncedOrUnfinished`), and a handler or a
  poll that nothing interfered with is alone and finds what it saved or loaded
  unchanged (`CleanJobs`, `CleanPoll`). Every handler that begins marks the others as
  interfered with, which is why the last one to finish either is clean or marks the
  drift. `TornOnlyByCut` and `ServedIsStored` follow.

`IInv` of `Gates`, `Canary` and `RouteAdmin`, which no run lists, was also checked by
TLC on the instances of `gates`, `canary` and `routes`.

Only model-checked: the liveness properties (`OpenIsProbed`, `RecoveryCloses`,
`AcquireReturns`, `RequestsEnd`, `RunsReturn`, `ExpiredGoes`, `CanarySettles`,
`PollerApplies`), since fairness is outside the prover, and what the violated runs
show.

## 6. Not modelled, and the plan

Proofs to come: that each breaker of `Gateway`, with the requests that use it,
behaves as `CircuitBreaker` says, so that what is proved of one breaker holds in
the pipeline; that `P99Breached` is the
code's index into the sorted window; and the steps of the liveness arguments that
are safety (what a step leads to, and that nothing undoes it).

Left out so far:

- what `UpdateRoutes` and `RegisterRoute` make for a new prefix (limiter, cache,
  transport, logger), which is never replaced later, and the contents and order
  of routes;
- the unlocked reads of the maps of caches and loggers: a race on a Go map ends
  the process, which `RouteAdmin` has as a crash;
- the admin rate limiter (`main.go` 902-949), the same algorithm as `Local`;
- the copying goroutines of a WebSocket tunnel: `Gateway` has only that the
  tunnel keeps slot and connection count until one direction ends; the metrics
  feed, which reads counters under their mutex;
- pure functions (gRPC and WebSocket framing, `CacheKey`, `transformJSON`,
  `checkIPAccess`): candidates for bounded checks against a reference.

Left out for good: access log, replay, TLS set-up, tracing and documentation
endpoints (I/O and formatting), the AI heuristics (text matching without state)
and the stubs of the enterprise edition, whose code is not in the repository.
