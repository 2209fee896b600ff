----------------------------- MODULE GatewayProofs -----------------------------
(***************************************************************************)
(* What holds of the request pipeline for any number of goroutines,        *)
(* targets, slots and places, and any load balancer.                       *)
(***************************************************************************)
EXTENDS Gateway, FiniteSetTheorems, WellFoundedInduction, TLAPS

LP == INSTANCE BackpressureLimiterProofs

LocalType ==
    /\ pc \in [Requests -> PC]
    /\ tgt \in [Requests -> TargetSet \cup {None}]
    /\ code \in [Requests -> Code]
    /\ errs \in [Requests -> Nat]
    /\ tries \in [Requests -> 0..MaxRetries - 1]
    /\ keyed \in [Requests -> BOOLEAN]

SharedType ==
    /\ activeConns \in [TargetSet -> Nat]
    /\ rrIndex \in 0..Len(Targets) - 1
    /\ scan \in Scan
    /\ targetLoad \in [TargetSet -> Int]
    /\ elsewhere \in BOOLEAN
    /\ breakers \in [TargetSet -> BreakerRecord]
    /\ cached \in BOOLEAN

(* The steps that are no request's. *)
Environment == Expire \/ Tick \/ LockElsewhere \/ UnlockElsewhere

(* IInv without what belongs to the limiter alone. *)
PipelineInv == LocalType /\ SharedType /\ WellPlaced /\ ConnAccounting

------------------------------------------------------------------------------
(* The operations on a breaker return one. *)

(* A new breaker is closed and has an empty window. *)
LEMMA NewBreakerType == NewCircuitBreaker \in BreakerRecord
<1>1. /\ "closed" \in CircuitState /\ Horizon \in 0..Horizon
      /\ <<>> \in Seq(BOOLEAN) /\ 0 \in Nat
  BY BreakerAssumption DEF CircuitState
<1> QED
  BY <1>1 DEF NewCircuitBreaker, BreakerRecord

(* Allow leaves it as it is or makes it half-open. *)
LEMMA AllowType == ASSUME NEW b \in BreakerRecord PROVE Allow(b) \in BreakerRecord
<1>1. "half_open" \in CircuitState /\ 0 \in 0..Horizon /\ 0 \in Nat
  BY BreakerAssumption DEF CircuitState
<1> QED
  BY <1>1 DEF Allow, BreakerRecord

(* RecordRequest trips it, samples, counts, or closes it. *)
LEMMA RecordType ==
    ASSUME NEW b \in BreakerRecord, NEW dur \in 0..Horizon, NEW success
    PROVE  RecordRequest(b, dur, success) \in BreakerRecord
<1> DEFINE slow == dur > SLO
           sampled == [b EXCEPT !.latencies = Remember(@, slow)]
           counted == [sampled EXCEPT !.successCount = @ + 1]
<1>1. /\ "closed" \in CircuitState /\ "open" \in CircuitState
      /\ <<>> \in Seq(BOOLEAN) /\ 0 \in 0..Horizon
  BY BreakerAssumption DEF CircuitState
<1>2. sampled \in BreakerRecord
  <2>0. slow \in BOOLEAN
    OBVIOUS
  <2>1. b.latencies \in Seq(BOOLEAN)
    BY DEF BreakerRecord
  <2> HIDE DEF slow
  <2>2. Append(b.latencies, slow) \in Seq(BOOLEAN) /\ Append(b.latencies, slow) # <<>>
    BY <2>0, <2>1
  <2>3. Tail(Append(b.latencies, slow)) \in Seq(BOOLEAN)
    BY <2>2
  <2>4. Remember(b.latencies, slow) \in Seq(BOOLEAN)
    BY <2>2, <2>3 DEF Remember
  <2> QED
    BY <2>4 DEF BreakerRecord
<1>3. counted \in BreakerRecord
  <2> HIDE DEF sampled
  <2>1. sampled.successCount + 1 \in Nat
    BY <1>2 DEF BreakerRecord
  <2> QED
    BY <1>2, <2>1 DEF BreakerRecord
<1>4. \A c \in BreakerRecord : /\ Trip(c) \in BreakerRecord
                              /\ [c EXCEPT !.state = "closed", !.latencies = <<>>, !.since = 0]
                                    \in BreakerRecord
  BY <1>1 DEF Trip, BreakerRecord
<1>5. RecordRequest(b, dur, success) \in
         {Trip(b), sampled, Trip(sampled), counted, Trip(counted),
          [counted EXCEPT !.state = "closed", !.latencies = <<>>, !.since = 0]}
  BY DEF RecordRequest, RecordSuccess, RecordTrial
<1> HIDE DEF sampled, counted
<1> QED
  BY <1>2, <1>3, <1>4, <1>5

(* Ages stay below the horizon. *)
LEMMA OlderType == ASSUME NEW a \in 0..Horizon PROVE Older(a) \in 0..Horizon
BY BreakerAssumption DEF Older

------------------------------------------------------------------------------
(* The pipeline and the limiter. *)

(* Every step of the pipeline is a step of the limiter or leaves it alone. *)
LEMMA LimiterStep ==
    ASSUME [Next]_vars
    PROVE  [L!Next]_(L!limiterVars)
<1>1. CASE UNCHANGED vars
  BY <1>1 DEF vars, limiter, L!limiterVars
<1>2. CASE Environment
  BY <1>2 DEF Environment, Expire, Tick, LockElsewhere, UnlockElsewhere, limiter, L!limiterVars
<1>3. ASSUME NEW r \in Requests, Begin(r) \/ Handle(r)
      PROVE  [L!Next]_(L!limiterVars)
  <2>1. CASE Acquire(r) \/ TurnAway(r) \/ Release(r)
    BY <2>1 DEF Acquire, TurnAway, Release, L!Next
  <2>2. CASE UNCHANGED limiter
    BY <2>2 DEF limiter, L!limiterVars
  <2> QED
    BY <1>3, <2>1, <2>2
       DEF Begin, Handle, Arrive, AnswerLocally, NoRoute, Federate, CacheHit, CacheMiss,
           CacheSkip, Intercept, Pass, LeastConn, RoundRobin, Select, BeginScan, ReadLoad,
           EndScan, incConn, Admit, CircuitOpen, Bridge, Undeliverable,
           OpenTunnel, CloseTunnel, Send, Attempt, TakeLoad, ModifyResponse, ErrorHandler,
           Panic, Store, Record, decConn, Return
<1> QED
  BY <1>1, <1>2, <1>3 DEF Next, Environment

(* The limiter proved about is the limiter of the pipeline. *)
LEMMA SameLimiter ==
    /\ L!Init <=> LP!Init
    /\ [L!Next]_(L!limiterVars) => [LP!Next]_(LP!limiterVars)
    /\ L!TypeOK /\ L!TokensAccounted <=> LP!IInv
<1>1. L!Init <=> LP!Init
  BY DEF L!Init, LP!Init
<1>2. L!Next => LP!Next
  BY DEF L!Next, L!Acquire, L!TakeSlot, L!NoSlot, L!Enqueue, L!QueueFull, L!GetSlot, L!GiveUp,
         L!LeaveQueue, L!Release, L!Answer, L!Goto,
         LP!Next, LP!Acquire, LP!TakeSlot, LP!NoSlot, LP!Enqueue, LP!QueueFull, LP!GetSlot,
         LP!GiveUp, LP!LeaveQueue, LP!Release, LP!Answer, LP!Goto
<1>3. L!TypeOK <=> LP!TypeOK
  BY DEF L!TypeOK, LP!TypeOK, L!Place, LP!Place
<1>4. L!TokensAccounted <=> LP!TokensAccounted
  BY DEF L!TokensAccounted, LP!TokensAccounted, L!SlotHolders, LP!SlotHolders,
         L!QueueHolders, LP!QueueHolders, L!IsFiniteSet, LP!IsFiniteSet,
         L!Cardinality, LP!Cardinality
<1> QED
  BY <1>1, <1>2, <1>3, <1>4 DEF LP!IInv, L!limiterVars, LP!limiterVars

(* The limiter's own invariant survives every step of the pipeline. *)
LEMMA LimiterInv ==
    ASSUME L!TypeOK, L!TokensAccounted, [Next]_vars
    PROVE  L!TypeOK' /\ L!TokensAccounted'
<1>1. LP!IInv /\ [LP!Next]_(LP!limiterVars)
  BY LimiterStep, SameLimiter
<1>2. LP!LimiterAssumption
  BY GatewayAssumption DEF LP!LimiterAssumption
<1>3. LP!IInv'
  BY <1>1, <1>2, LP!NextIInv
<1>4. L!TypeOK'
  BY <1>3 DEF LP!IInv, L!TypeOK, LP!TypeOK, L!Place, LP!Place
<1>5. L!TokensAccounted'
  BY <1>3
     DEF LP!IInv, L!TokensAccounted, LP!TokensAccounted, L!SlotHolders, LP!SlotHolders,
         L!QueueHolders, LP!QueueHolders, L!IsFiniteSet, LP!IsFiniteSet,
         L!Cardinality, LP!Cardinality
<1> QED
  BY <1>4, <1>5

------------------------------------------------------------------------------
(* The pipeline. *)

(* A move that neither enters nor leaves "selected" and keeps the targets  *)
(* leaves the requests of every target the same.                           *)
LEMMA MoveKeepsConns ==
    ASSUME PipelineInv, NEW r \in Requests, NEW from \in PC, NEW to \in PC,
           Goto(r, from, to), from # "selected", to # "selected",
           tgt' = tgt, activeConns' = activeConns
    PROVE  ConnAccounting'
<1>1. \A t \in TargetSet : OnTarget(t)' = OnTarget(t)
  BY DEF PipelineInv, LocalType, Goto, OnTarget
<1> QED
  BY <1>1 DEF PipelineInv, ConnAccounting

(* Writing an answer: from a place before the target, or one at it. *)
LEMMA FinishInv ==
    ASSUME PipelineInv, NEW r \in Requests, NEW from \in PC \ {"selected", "returning"},
           NEW c \in Code, NEW e \in Nat,
           Finish(r, from, c, e), UNCHANGED shared,
           at' \in [Requests -> L!Place],
           \A s \in Requests : s # r => at'[s] = at[s],
           from \in AtTarget => at'[r] = at[r],
           at'[r] \in {"out", "holding"}
    PROVE  PipelineInv'
<1>1. LocalType'
  BY DEF PipelineInv, LocalType, Finish, Goto, PC
<1>2. SharedType'
  BY DEF PipelineInv, SharedType, shared
<1>3. WellPlaced'
  BY DEF PipelineInv, LocalType, WellPlaced, Finish, Goto, PC, AtTarget, BeforeTarget
<1>4. ConnAccounting'
  BY MoveKeepsConns DEF Finish, shared, PC
<1> QED
  BY <1>1, <1>2, <1>3, <1>4 DEF PipelineInv

(* The exits that change nothing shared. *)
LEMMA ExitInv ==
    ASSUME IInv, PipelineInv, NEW r \in Requests,
           \/ AnswerLocally(r) \/ NoRoute(r) \/ TurnAway(r) \/ Federate(r) \/ CacheHit(r)
           \/ Intercept(r) \/ Bridge(r) \/ Undeliverable(r) \/ CloseTunnel(r)
    PROVE  PipelineInv'
<1> USE DEF PC, AtTarget, BeforeTarget, Code
<1>0. /\ at \in [Requests -> L!Place]
      /\ \A s \in Requests : pc[s] # "acquire" => at[s] \in {"out", "holding"}
  BY DEF IInv, TypeOK, L!TypeOK, WellPlaced
<1>1. CASE AnswerLocally(r)
  BY <1>0, <1>1, FinishInv DEF AnswerLocally, Finish, Goto, limiter
<1>2. CASE NoRoute(r)
  BY <1>0, <1>2, FinishInv DEF NoRoute, Finish, Goto, limiter
<1>3. CASE TurnAway(r)
  <2>1. /\ at' \in [Requests -> L!Place]
        /\ at'[r] = "out"
        /\ \A s \in Requests : s # r => at'[s] = at[s]
    BY <1>0, <1>3 DEF TurnAway, L!Answer, L!Goto, L!Place
  <2> QED
    BY <1>3, <2>1, FinishInv DEF TurnAway
<1>4. CASE Federate(r)
  BY <1>0, <1>4, FinishInv DEF Federate, limiter
<1>5. CASE CacheHit(r)
  BY <1>0, <1>5, FinishInv DEF CacheHit, limiter
<1>6. CASE Intercept(r)
  BY <1>0, <1>6, FinishInv DEF Intercept, Finish, Goto, limiter
<1>7. CASE Bridge(r)
  BY <1>0, <1>7, FinishInv DEF Bridge, Finish, Goto, limiter
<1>8. CASE Undeliverable(r)
  BY <1>0, <1>8, FinishInv DEF Undeliverable, Finish, Goto, limiter
<1>9. CASE CloseTunnel(r)
  BY <1>0, <1>9, FinishInv DEF CloseTunnel, Finish, Goto, limiter
<1> QED
  BY <1>1, <1>2, <1>3, <1>4, <1>5, <1>6, <1>7, <1>8, <1>9

(* The limiter moves only the request that is in it. *)
LEMMA AcquireInv ==
    ASSUME IInv, PipelineInv, NEW r \in Requests, Acquire(r) \/ Release(r)
    PROVE  PipelineInv'
<1>1. /\ UNCHANGED <<local, shared>>
      /\ pc[r] \in {"acquire", "returning"}
      /\ pc[r] = "returning" => tgt[r] = None /\ at'[r] = "out"
      /\ \A s \in Requests : s # r => at'[s] = at[s]
  BY DEF IInv, TypeOK, L!TypeOK, Acquire, Release, L!Acquire, L!TakeSlot, L!NoSlot, L!Enqueue,
         L!QueueFull, L!GetSlot, L!GiveUp, L!LeaveQueue, L!Release, L!Goto
<1>2. LocalType' /\ SharedType'
  BY <1>1 DEF PipelineInv, LocalType, SharedType, local, shared
<1>3. WellPlaced'
  BY <1>1 DEF PipelineInv, LocalType, WellPlaced, local, PC, AtTarget, BeforeTarget
<1>4. ConnAccounting'
  BY <1>1 DEF PipelineInv, ConnAccounting, OnTarget, local, shared
<1> QED
  BY <1>2, <1>3, <1>4 DEF PipelineInv

(* Moves of a request that change no gauge and no breaker. *)
LEMMA MoveInv ==
    ASSUME IInv, PipelineInv, NEW r \in Requests,
           \/ Arrive(r) \/ CacheMiss(r) \/ CacheSkip(r) \/ Pass(r) \/ OpenTunnel(r) \/ Send(r)
           \/ ModifyResponse(r) \/ (\E outcome \in Outcome : Attempt(r, outcome))
           \/ Panic(r) \/ Store(r) \/ Return(r)
    PROVE  PipelineInv'
<1> USE DEF PC, AtTarget, BeforeTarget, Code
<1>0. /\ tgt' = tgt /\ at' = at
      /\ UNCHANGED <<activeConns, rrIndex, scan, targetLoad, elsewhere, breakers>>
      /\ cached' \in BOOLEAN
  BY DEF PipelineInv, SharedType, Arrive, CacheMiss, CacheSkip, Pass, OpenTunnel, Send,
         ModifyResponse, Attempt, Panic, Store, Return, limiter, shared
<1>1. SharedType'
  BY <1>0 DEF PipelineInv, SharedType
<1>2. LocalType'
  <2>1. CASE \/ Arrive(r) \/ CacheMiss(r) \/ CacheSkip(r) \/ Pass(r) \/ OpenTunnel(r)
             \/ Send(r) \/ ModifyResponse(r)
    BY <2>1 DEF PipelineInv, LocalType, Arrive, CacheMiss, CacheSkip, Pass, OpenTunnel, Send,
                ModifyResponse, Goto
  <2>2. CASE \E outcome \in Outcome : Attempt(r, outcome)
    <3>1. PICK outcome \in Outcome : Attempt(r, outcome)
      BY <2>2
    <3>2. tries' \in [Requests -> 0..MaxRetries - 1]
      <4>1. tries[r] \in 0..MaxRetries - 1 /\ 0 \in 0..MaxRetries - 1
        BY GatewayAssumption DEF PipelineInv, LocalType
      <4> QED
        BY <3>1, <4>1, GatewayAssumption DEF PipelineInv, LocalType, Attempt
    <3>3. pc' \in [Requests -> PC] /\ code' \in [Requests -> Code]
      BY <3>1 DEF PipelineInv, LocalType, Attempt, Outcome
    <3> QED
      BY <3>1, <3>2, <3>3 DEF PipelineInv, LocalType, Attempt
  <2>3. CASE Panic(r)
    BY <2>3 DEF PipelineInv, LocalType, Panic, Goto
  <2>4. CASE Store(r)
    BY <2>4 DEF PipelineInv, LocalType, Store, Goto
  <2>5. CASE Return(r)
    BY <2>5 DEF PipelineInv, LocalType, Return, Goto
  <2> QED
    BY <2>1, <2>2, <2>3, <2>4, <2>5
<1>3. PICK to \in PC \ {"selected"} :
         /\ Goto(r, pc[r], to)
         /\ pc[r] \in PC \ {"selected"}
         /\ to = "idle" => tgt[r] = None /\ at[r] = "out"
         /\ to = "acquire" => pc[r] = "idle"
         /\ to = "missed" => pc[r] = "acquire" /\ at[r] = "holding"
         /\ to = "passed" => pc[r] = "missed"
         /\ to # "scanning"
         /\ to \in AtTarget => pc[r] \in AtTarget
         /\ to = "returning" => pc[r] \in AtTarget \cup {"missed"}
  BY DEF PipelineInv, LocalType, Arrive, CacheMiss, CacheSkip, Pass, OpenTunnel, Send,
         ModifyResponse, Attempt, Panic, Store, Return, Goto
<1>4. WellPlaced'
  BY <1>0, <1>3 DEF PipelineInv, LocalType, WellPlaced, Goto
<1>5. ConnAccounting'
  BY <1>0, <1>3, MoveKeepsConns
<1> QED
  BY <1>1, <1>2, <1>4, <1>5 DEF PipelineInv

(* The load balancer: the pick, the gauge up and the gauge down. *)
LEMMA PickInv ==
    ASSUME PipelineInv, NEW r \in Requests, NEW t \in TargetSet,
           NEW from \in {"passed", "scanning"}, Goto(r, from, "selected"),
           tgt' = [tgt EXCEPT ![r] = t],
           UNCHANGED <<at, code, errs, tries, keyed, activeConns>>
    PROVE  LocalType' /\ WellPlaced' /\ ConnAccounting'
<1> USE DEF PC, AtTarget, BeforeTarget
<1>1. LocalType'
  BY DEF PipelineInv, LocalType, Goto
<1>2. WellPlaced'
  BY GatewayAssumption DEF PipelineInv, LocalType, WellPlaced, Goto
<1>3. \A u \in TargetSet : OnTarget(u)' = OnTarget(u)
  BY GatewayAssumption DEF PipelineInv, LocalType, WellPlaced, Goto, OnTarget
<1>4. ConnAccounting'
  BY <1>3 DEF PipelineInv, ConnAccounting
<1> QED
  BY <1>1, <1>2, <1>4

(* A fresh scan has no minimum and starts at the first target. *)
LEMMA NewScanType == NewScan \in Scan
<1>1. 1 \in 1..Len(Targets) + 1
  BY GatewayAssumption
<1>2. NoBest \in Best
  BY DEF NoBest, Best
<1> QED
  BY <1>1, <1>2 DEF NewScan, Scan

(* least_conn and round robin pick in one step. *)
LEMMA SelectInv ==
    ASSUME PipelineInv, NEW r \in Requests, LeastConn(r) \/ RoundRobin(r)
    PROVE  PipelineInv'
<1>1. PICK t : Select(r, t)
  BY DEF LeastConn, RoundRobin
<1>2. LocalType' /\ WellPlaced' /\ ConnAccounting'
  BY <1>1, PickInv DEF Select, limiter
<1>3. rrIndex' \in 0..Len(Targets) - 1
  BY GatewayAssumption DEF PipelineInv, SharedType, LeastConn, RoundRobin
<1>4. SharedType'
  BY <1>1, <1>3 DEF PipelineInv, SharedType, Select
<1> QED
  BY <1>2, <1>4 DEF PipelineInv

(* The scan: its first step, a read, and the pick. *)
LEMMA ScanInv ==
    ASSUME PipelineInv, NEW r \in Requests, BeginScan(r) \/ ReadLoad(r) \/ EndScan(r)
    PROVE  PipelineInv'
<1> USE DEF PC, AtTarget, BeforeTarget
<1>1. CASE BeginScan(r)
  <2>1. LocalType' /\ SharedType'
    BY <1>1, NewScanType DEF PipelineInv, LocalType, SharedType, BeginScan, Goto
  <2>2. WellPlaced'
    BY <1>1 DEF PipelineInv, LocalType, WellPlaced, BeginScan, Goto, limiter
  <2>3. ConnAccounting'
    BY <1>1, MoveKeepsConns DEF BeginScan
  <2> QED
    BY <2>1, <2>2, <2>3 DEF PipelineInv
<1>2. CASE ReadLoad(r)
  <2>1. PICK i \in 1..Len(Targets) :
          scan' = [scan EXCEPT !.next = i + 1,
                               !.best = Lighter(@, Targets[i], targetLoad[Targets[i]])]
    BY <1>2 DEF ReadLoad
  <2>2. Targets[i] \in TargetSet
    BY DEF TargetSet
  <2>3. targetLoad[Targets[i]] \in Int
    BY <2>2 DEF PipelineInv, SharedType
  <2>4. scan \in Scan /\ scan.best \in Best
    BY DEF PipelineInv, SharedType, Scan
  <2>5. Lighter(scan.best, Targets[i], targetLoad[Targets[i]]) \in Best
    BY <2>2, <2>3, <2>4 DEF Lighter, Best
  <2>6. i + 1 \in 1..Len(Targets) + 1
    BY <2>1, GatewayAssumption
  <2>7. scan' \in Scan
    BY <2>1, <2>4, <2>5, <2>6 DEF Scan
  <2>8. LocalType' /\ SharedType'
    BY <1>2, <2>7 DEF PipelineInv, LocalType, SharedType, ReadLoad, local
  <2>9. WellPlaced' /\ ConnAccounting'
    BY <1>2 DEF PipelineInv, WellPlaced, ConnAccounting, OnTarget, ReadLoad, limiter, local
  <2> QED
    BY <2>8, <2>9 DEF PipelineInv
<1>3. CASE EndScan(r)
  <2>1. PICK t \in TargetSet : tgt' = [tgt EXCEPT ![r] = t]
    BY <1>3 DEF EndScan
  <2>2. LocalType' /\ WellPlaced' /\ ConnAccounting'
    BY <1>3, <2>1, PickInv DEF EndScan, limiter
  <2>3. SharedType'
    BY <1>3, NewScanType DEF PipelineInv, SharedType, EndScan
  <2> QED
    BY <2>2, <2>3 DEF PipelineInv
<1> QED
  BY <1>1, <1>2, <1>3

(* The gauge goes up with the request that joins the target. *)
LEMMA incConnInv ==
    ASSUME PipelineInv, NEW r \in Requests, incConn(r)
    PROVE  PipelineInv'
<1> USE DEF PC, AtTarget, BeforeTarget
<1>0. /\ tgt[r] \in TargetSet
      /\ r \notin OnTarget(tgt[r])
      /\ activeConns[tgt[r]] \in Nat
  BY DEF PipelineInv, LocalType, SharedType, WellPlaced, incConn, Goto, OnTarget
<1>1. LocalType' /\ SharedType'
  BY <1>0 DEF PipelineInv, LocalType, SharedType, incConn, Goto
<1>2. WellPlaced'
  BY DEF PipelineInv, LocalType, WellPlaced, incConn, Goto, limiter
<1>3. \A u \in TargetSet :
         /\ u # tgt[r] => OnTarget(u)' = OnTarget(u) /\ activeConns'[u] = activeConns[u]
         /\ u = tgt[r] => OnTarget(u)' = OnTarget(u) \cup {r}
                          /\ activeConns'[u] = activeConns[u] + 1
  BY DEF PipelineInv, LocalType, SharedType, incConn, Goto, OnTarget
<1>4. ConnAccounting'
  <2> SUFFICES ASSUME NEW u \in TargetSet
               PROVE  IsFiniteSet(OnTarget(u)') /\ activeConns'[u] = Cardinality(OnTarget(u)')
    BY DEF ConnAccounting
  <2>1. IsFiniteSet(OnTarget(u)) /\ activeConns[u] = Cardinality(OnTarget(u))
    BY DEF PipelineInv, ConnAccounting
  <2>2. CASE u = tgt[r]
    BY <1>0, <1>3, <2>1, <2>2, FS_AddElement
  <2>3. CASE u # tgt[r]
    BY <1>3, <2>1, <2>3
  <2> QED
    BY <2>2, <2>3
<1> QED
  BY <1>1, <1>2, <1>4 DEF PipelineInv

(* The gauge is at least one here, so the clamp does not apply. *)
LEMMA decConnInv ==
    ASSUME PipelineInv, NEW r \in Requests, decConn(r)
    PROVE  PipelineInv'
<1> USE DEF PC, AtTarget, BeforeTarget
<1>0. /\ tgt[r] \in TargetSet
      /\ r \in OnTarget(tgt[r])
      /\ IsFiniteSet(OnTarget(tgt[r]))
      /\ activeConns[tgt[r]] \in Nat
      /\ activeConns[tgt[r]] = Cardinality(OnTarget(tgt[r]))
  BY DEF PipelineInv, LocalType, SharedType, ConnAccounting, decConn, OnTarget
<1>1. activeConns[tgt[r]] - 1 \in Nat
  BY <1>0, FS_EmptySet
<1>2. LocalType' /\ SharedType'
  BY <1>0, <1>1 DEF PipelineInv, LocalType, SharedType, decConn
<1>3. WellPlaced'
  BY DEF PipelineInv, LocalType, WellPlaced, decConn, limiter
<1>4. \A u \in TargetSet :
         /\ u # tgt[r] => OnTarget(u)' = OnTarget(u) /\ activeConns'[u] = activeConns[u]
         /\ u = tgt[r] => OnTarget(u)' = OnTarget(u) \ {r}
                          /\ activeConns'[u] = activeConns[u] - 1
  BY <1>1, GatewayAssumption DEF PipelineInv, LocalType, SharedType, decConn, OnTarget
<1>5. ConnAccounting'
  <2> SUFFICES ASSUME NEW u \in TargetSet
               PROVE  IsFiniteSet(OnTarget(u)') /\ activeConns'[u] = Cardinality(OnTarget(u)')
    BY DEF ConnAccounting
  <2>1. IsFiniteSet(OnTarget(u)) /\ activeConns[u] = Cardinality(OnTarget(u))
    BY DEF PipelineInv, ConnAccounting
  <2>2. CASE u = tgt[r]
    BY <1>0, <1>4, <2>1, <2>2, FS_RemoveElement
  <2>3. CASE u # tgt[r]
    BY <1>4, <2>1, <2>3
  <2> QED
    BY <2>2, <2>3
<1> QED
  BY <1>2, <1>3, <1>5 DEF PipelineInv

(* The steps that change a breaker or a target's load. *)
LEMMA TargetInv ==
    ASSUME IInv, PipelineInv, NEW r \in Requests,
           \/ Admit(r) \/ CircuitOpen(r) \/ TakeLoad(r) \/ ErrorHandler(r) \/ Record(r)
    PROVE  PipelineInv'
<1> USE DEF PC, AtTarget, BeforeTarget, Code
<1>0. /\ tgt' = tgt /\ at' = at /\ UNCHANGED <<activeConns, rrIndex, elsewhere, cached, tries>>
      /\ pc[r] \in AtTarget \ {"selected"}
  BY DEF Admit, CircuitOpen, TakeLoad, ErrorHandler, Record, Finish, Goto, limiter
<1>1. tgt[r] \in TargetSet /\ breakers[tgt[r]] \in BreakerRecord
  BY <1>0 DEF PipelineInv, LocalType, SharedType, WellPlaced
<1>2. breakers' \in [TargetSet -> BreakerRecord]
  <2>1. CASE Admit(r) \/ CircuitOpen(r)
    <3>1. Allow(breakers[tgt[r]]) \in BreakerRecord
      BY <1>1, AllowType
    <3> QED
      BY <2>1, <3>1 DEF PipelineInv, SharedType, Admit, CircuitOpen
  <2>2. CASE TakeLoad(r) \/ ErrorHandler(r)
    BY <2>2 DEF PipelineInv, SharedType, TakeLoad, ErrorHandler
  <2>3. CASE Record(r)
    <3>1. PICK dur \in {0, Horizon} :
            breakers' = [breakers EXCEPT ![tgt[r]] = RecordRequest(@, dur, code[r] # "error")]
      BY <2>3 DEF Record
    <3>2. dur \in 0..Horizon
      BY <3>1, BreakerAssumption
    <3>3. RecordRequest(breakers[tgt[r]], dur, code[r] # "error") \in BreakerRecord
      BY <1>1, <3>2, RecordType
    <3> QED
      BY <3>1, <3>3 DEF PipelineInv, SharedType
  <2> QED
    BY <2>1, <2>2, <2>3
<1>3. targetLoad' \in [TargetSet -> Int] /\ scan' \in Scan
  <2>1. CASE UNCHANGED <<targetLoad, scan>>
    BY <2>1 DEF PipelineInv, SharedType
  <2>2. ASSUME NEW load \in Int, SetLoad(tgt[r], load)
        PROVE  targetLoad' \in [TargetSet -> Int] /\ scan' \in Scan
    <3>1. (scan.stable /\ NoScan) \in BOOLEAN
      BY DEF NoScan
    <3> QED
      BY <2>2, <3>1 DEF PipelineInv, SharedType, SetLoad, Scan
  <2> QED
    BY <2>1, <2>2, GatewayAssumption
       DEF Admit, CircuitOpen, TakeLoad, ErrorHandler, Record
<1>4. SharedType'
  BY <1>0, <1>2, <1>3 DEF PipelineInv, SharedType
<1>5. LocalType'
  <2>1. CASE CircuitOpen(r)
    BY <2>1 DEF PipelineInv, LocalType, CircuitOpen, Finish, Goto
  <2>2. CASE ~CircuitOpen(r)
    BY <2>2 DEF PipelineInv, LocalType, Admit, TakeLoad, ErrorHandler, Record, Goto
  <2> QED
    BY <2>1, <2>2
<1>6. PICK to \in (AtTarget \cup {"returning"}) \ {"selected"} : Goto(r, pc[r], to)
  BY DEF Admit, CircuitOpen, TakeLoad, ErrorHandler, Record, Finish, Goto
<1>7. WellPlaced'
  BY <1>0, <1>6 DEF PipelineInv, LocalType, WellPlaced, Goto
<1>8. ConnAccounting'
  BY <1>0, <1>6, MoveKeepsConns DEF PipelineInv, LocalType
<1> QED
  BY <1>4, <1>5, <1>7, <1>8 DEF PipelineInv

(* Expiry of the cached answer, the clock, and other routes at balancerMu. *)
LEMMA EnvironmentInv ==
    ASSUME PipelineInv, Environment
    PROVE  PipelineInv'
<1>1. UNCHANGED <<limiter, local, activeConns, rrIndex, scan, targetLoad>>
  BY DEF Environment, Expire, Tick, LockElsewhere, UnlockElsewhere
<1>2. /\ breakers' \in [TargetSet -> BreakerRecord] /\ cached' \in BOOLEAN
      /\ elsewhere' \in BOOLEAN
  <2>1. CASE Expire \/ LockElsewhere \/ UnlockElsewhere
    BY <2>1 DEF PipelineInv, SharedType, Expire, LockElsewhere, UnlockElsewhere
  <2>2. CASE Tick
    <3>1. \A t \in TargetSet : [breakers[t] EXCEPT !.since = Older(@)] \in BreakerRecord
      <4> SUFFICES ASSUME NEW t \in TargetSet
                   PROVE  [breakers[t] EXCEPT !.since = Older(@)] \in BreakerRecord
        OBVIOUS
      <4>1. breakers[t] \in BreakerRecord /\ breakers[t].since \in 0..Horizon
        BY DEF PipelineInv, SharedType, BreakerRecord
      <4>2. Older(breakers[t].since) \in 0..Horizon
        BY <4>1, OlderType
      <4> QED
        BY <4>1, <4>2 DEF BreakerRecord
    <3>2. \A b : b = [t \in TargetSet |-> [breakers[t] EXCEPT !.since = Older(@)]]
                 => b \in [TargetSet -> BreakerRecord]
      BY <3>1, Zenon
    <3> QED
      BY <2>2, <3>2 DEF PipelineInv, SharedType, Tick
  <2> QED
    BY <2>1, <2>2 DEF Environment
<1>3. LocalType' /\ SharedType'
  BY <1>1, <1>2 DEF PipelineInv, LocalType, SharedType, local
<1>4. WellPlaced' /\ ConnAccounting'
  BY <1>1 DEF PipelineInv, WellPlaced, ConnAccounting, OnTarget, limiter, local
<1> QED
  BY <1>3, <1>4 DEF PipelineInv

------------------------------------------------------------------------------
(* Errors. *)

(* An answer written counts one error at most, and only for a 5xx. *)
LEMMA FinishErrors ==
    ASSUME LocalType, ErrorsCountedOnce, ErrorsPlaced,
           NEW r \in Requests, NEW from \in PC \ {"recording", "returning"},
           NEW c \in Code, NEW e \in {0, 1}, e = 1 => c = "error",
           Finish(r, from, c, e)
    PROVE  ErrorsCountedOnce' /\ ErrorsPlaced'
<1>1. errs[r] = 0
  BY DEF LocalType, ErrorsPlaced, Finish, Goto
<1>2. \A s \in Requests :
         /\ s # r => pc'[s] = pc[s] /\ errs'[s] = errs[s] /\ code'[s] = code[s]
         /\ s = r => pc'[s] = "returning" /\ errs'[s] = e /\ code'[s] = c
  BY <1>1 DEF LocalType, Finish, Goto
<1> QED
  BY <1>2 DEF ErrorsCountedOnce, ErrorsPlaced

(* No path of ServeHTTP counts a request twice. *)
LEMMA ErrorsInv ==
    ASSUME LocalType, ErrorsCountedOnce, ErrorsPlaced, [Next]_vars
    PROVE  ErrorsCountedOnce' /\ ErrorsPlaced'
<1> USE DEF PC, Code
<1>1. CASE UNCHANGED local
  BY <1>1 DEF local, ErrorsCountedOnce, ErrorsPlaced
<1>2. ASSUME NEW r \in Requests, Begin(r) \/ Handle(r)
      PROVE  ErrorsCountedOnce' /\ ErrorsPlaced'
  <2>1. CASE \/ AnswerLocally(r) \/ NoRoute(r) \/ TurnAway(r) \/ Federate(r) \/ CacheHit(r)
             \/ Intercept(r) \/ CircuitOpen(r) \/ Bridge(r) \/ Undeliverable(r)
             \/ CloseTunnel(r)
    <3>1. PICK from \in PC \ {"recording", "returning"}, c \in Code, e \in {0, 1} :
            Finish(r, from, c, e) /\ (e = 1 => c = "error")
      BY <2>1 DEF AnswerLocally, NoRoute, TurnAway, Federate, CacheHit, Intercept,
                  CircuitOpen, Bridge, Undeliverable, CloseTunnel
    <3> QED
      BY <3>1, FinishErrors
  <2>2. ASSUME NEW to \in PC \ {"recording", "returning", "idle"},
               pc' = [pc EXCEPT ![r] = to],
               pc[r] \notin {"recording", "returning"},
               errs' = errs,
               \A s \in Requests : s # r => code'[s] = code[s]
        PROVE  ErrorsCountedOnce' /\ ErrorsPlaced'
    BY <2>2 DEF LocalType, ErrorsCountedOnce, ErrorsPlaced
  <2>3. CASE \/ Arrive(r) \/ CacheMiss(r) \/ CacheSkip(r) \/ LeastConn(r) \/ RoundRobin(r)
             \/ BeginScan(r) \/ EndScan(r) \/ incConn(r) \/ Admit(r) \/ OpenTunnel(r)
             \/ Send(r) \/ Pass(r) \/ TakeLoad(r) \/ ModifyResponse(r)
    BY <2>2, <2>3 DEF Arrive, CacheMiss, CacheSkip, LeastConn, RoundRobin, Select, BeginScan,
                      EndScan, incConn, Admit, OpenTunnel, Send, Pass, TakeLoad, ModifyResponse,
                      Goto
  <2>4. CASE ErrorHandler(r)
    <3>1. \A s \in Requests : s # r => code'[s] = code[s]
      BY <2>4 DEF ErrorHandler, LocalType
    <3> QED
      BY <2>2, <2>4, <3>1 DEF ErrorHandler, Goto
  <2>5. CASE \E outcome \in Outcome : Attempt(r, outcome)
    <3>1. PICK outcome \in Outcome : Attempt(r, outcome)
      BY <2>5
    <3>2. \A s \in Requests : s # r => code'[s] = code[s]
      BY <3>1 DEF Attempt, LocalType
    <3>3. PICK to \in {"sending", "failed", "responded"} : pc' = [pc EXCEPT ![r] = to]
      BY <3>1 DEF Attempt
    <3>4. errs' = errs /\ pc[r] = "sending"
      BY <3>1 DEF Attempt
    <3> QED
      BY <2>2, <3>2, <3>3, <3>4
  <2>6. CASE ReadLoad(r) \/ Acquire(r) \/ Release(r)
    <3>1. CASE UNCHANGED <<local, shared>>
      BY <1>1, <3>1
    <3>2. CASE ReadLoad(r)
      BY <1>1, <3>2 DEF ReadLoad
    <3> QED
      BY <2>6, <3>1, <3>2 DEF Acquire, Release
  <2>7. CASE Panic(r) \/ Record(r)
    BY <2>7 DEF Panic, Record, Goto, LocalType, ErrorsCountedOnce, ErrorsPlaced
  <2>8. CASE Store(r)
    <3>1. errs[r] = 0
      BY <2>8 DEF Store, Goto, ErrorsPlaced, LocalType
    <3>2. \A s \in Requests :
             /\ s # r => pc'[s] = pc[s] /\ errs'[s] = errs[s]
             /\ s = r => pc'[s] = "recording" /\ errs'[s] = IF code[r] = "error" THEN 1 ELSE 0
      BY <2>8, <3>1 DEF Store, Goto, LocalType
    <3>3. code' = code
      BY <2>8 DEF Store
    <3> QED
      BY <3>2, <3>3 DEF ErrorsCountedOnce, ErrorsPlaced
  <2>9. CASE decConn(r)
    BY <2>9 DEF decConn, ErrorsCountedOnce, ErrorsPlaced
  <2>10. CASE Return(r)
    BY <2>10 DEF Return, Goto, LocalType, ErrorsCountedOnce, ErrorsPlaced
  <2> QED
    BY <1>2, <2>1, <2>3, <2>4, <2>5, <2>6, <2>7, <2>8, <2>9, <2>10 DEF Begin, Handle
<1>3. CASE UNCHANGED vars \/ Environment
  BY <1>1, <1>3 DEF vars, Environment, Expire, Tick, LockElsewhere, UnlockElsewhere
<1> QED
  BY <1>2, <1>3 DEF Next, Environment

------------------------------------------------------------------------------
(* The balancer's loops. *)

(* One iteration, over the loads of one moment, none of which is -1. *)
LEMMA LighterLeast ==
    ASSUME NEW load \in [TargetSet -> Int], \A t \in TargetSet : load[t] # -1,
           NEW i \in 1..Len(Targets), NEW best, LeastOf(best, i - 1, load)
    PROVE  LeastOf(Lighter(best, Targets[i], load[Targets[i]]), i, load)
<1> DEFINE t == Targets[i]
<1>1. t \in TargetSet /\ load[t] \in Int
  BY DEF TargetSet
<1>2. i \in Nat /\ i # 0 /\ i - 1 \in Nat
  BY GatewayAssumption
<1>3. \A j \in 1..i : j = i \/ j \in 1..i - 1
  BY <1>2
<1>4. CASE i = 1
  <2>1. best = NoBest
    BY <1>4 DEF LeastOf
  <2>2. Lighter(best, t, load[t]) = [min |-> load[t], selected |-> t]
    BY <2>1 DEF Lighter, NoBest
  <2>3. \A j \in 1..i : load[t] <= load[Targets[j]]
    BY <1>1, <1>4
  <2> QED
    BY <1>1, <1>2, <2>2, <2>3 DEF LeastOf
<1>5. CASE i # 1
  <2>1. /\ best.selected \in TargetSet /\ best.min = load[best.selected]
        /\ \A j \in 1..i - 1 : best.min <= load[Targets[j]]
    BY <1>2, <1>5 DEF LeastOf
  <2>2. best.min \in Int /\ best.min # -1
    BY <2>1
  <2>3. \A j \in 1..i - 1 : load[Targets[j]] \in Int
    <3>1. \A j \in 1..i - 1 : j \in 1..Len(Targets)
      BY GatewayAssumption
    <3> QED
      BY <3>1 DEF TargetSet
  <2>4. CASE load[t] < best.min
    <3>1. Lighter(best, t, load[t]) = [min |-> load[t], selected |-> t]
      BY <2>4 DEF Lighter
    <3>2. ASSUME NEW j \in 1..i - 1 PROVE load[t] <= load[Targets[j]]
      <4>1. best.min <= load[Targets[j]] /\ load[Targets[j]] \in Int
        BY <2>1, <2>3
      <4> HIDE DEF t
      <4> QED
        BY <1>1, <2>2, <2>4, <4>1
    <3>3. load[t] <= load[Targets[i]]
      BY <1>1
    <3>4. \A j \in 1..i : load[t] <= load[Targets[j]]
      BY <1>3, <3>2, <3>3
    <3> QED
      BY <1>1, <1>2, <3>1, <3>4 DEF LeastOf
  <2>5. CASE ~(load[t] < best.min)
    <3>1. Lighter(best, t, load[t]) = best
      BY <2>2, <2>5 DEF Lighter
    <3>2. \A j \in 1..i : best.min <= load[Targets[j]]
      BY <1>1, <1>3, <2>1, <2>2, <2>5
    <3> QED
      BY <1>2, <2>1, <3>1, <3>2 DEF LeastOf
  <2> QED
    BY <2>4, <2>5
<1> QED
  BY <1>4, <1>5

(* The scan of the loads: a report that falls into it makes it unstable.   *)
LEMMA ScanStep ==
    ASSUME LocalType, SharedType, ScanSeen, [Next]_vars
    PROVE  ScanSeen'
<1> USE DEF PC
<1>1. NewScan.best = NoBest /\ NewScan.next - 1 = 0
  BY DEF NewScan
<1>2. ASSUME scan' = NewScan PROVE ScanSeen'
  BY <1>1, <1>2 DEF ScanSeen, LeastOf
<1>3. ASSUME UNCHANGED <<scan, targetLoad>>, NoScan => NoScan'
      PROVE  ScanSeen'
  BY <1>3 DEF ScanSeen, LeastOf
<1>4. ASSUME NEW t, NEW load, SetLoad(t, load), NoScan => NoScan'
      PROVE  ScanSeen'
  <2>1. scan'.stable => NoScan
    BY <1>4 DEF SetLoad, SharedType, Scan
  <2> QED
    BY <1>4, <2>1 DEF ScanSeen
<1>5. ASSUME NEW r \in Requests, NEW to \in PC \ {"scanning"}, pc' = [pc EXCEPT ![r] = to]
      PROVE  NoScan => NoScan'
  BY <1>5 DEF LocalType, NoScan
<1>6. ASSUME pc' = pc PROVE NoScan => NoScan'
  BY <1>6 DEF NoScan
<1>7. ASSUME NEW r \in Requests, ReadLoad(r) PROVE ScanSeen'
  <2> SUFFICES ASSUME ~NoScan', scan'.stable, \A t \in TargetSet : targetLoad'[t] # -1
               PROVE  LeastOf(scan'.best, scan'.next - 1, targetLoad')
    BY DEF ScanSeen
  <2>1. PICK i \in 1..Len(Targets) :
          /\ i = scan.next
          /\ scan' = [scan EXCEPT !.next = i + 1,
                                  !.best = Lighter(@, Targets[i], targetLoad[Targets[i]])]
    BY <1>7 DEF ReadLoad
  <2>2. targetLoad' = targetLoad /\ pc' = pc
    BY <1>7 DEF ReadLoad, local
  <2>3. scan \in Scan /\ i \in Nat
    BY DEF SharedType
  <2>4. /\ scan'.stable = scan.stable
        /\ scan'.next - 1 = i
        /\ scan'.best = Lighter(scan.best, Targets[i], targetLoad[Targets[i]])
    <3> DEFINE best == Lighter(scan.best, Targets[i], targetLoad[Targets[i]])
    <3>1. scan' = [scan EXCEPT !.next = i + 1, !.best = best]
      BY <2>1
    <3> HIDE DEF best
    <3>2. scan'.stable = scan.stable /\ scan'.next = i + 1 /\ scan'.best = best
      BY <2>3, <3>1 DEF Scan
    <3>3. scan'.next - 1 = i
      <4>1. scan'.next = i + 1
        BY <3>2
      <4> QED
        BY <2>3, <4>1
    <3> QED
      BY <3>2, <3>3, Zenon DEF best
  <2>5. LeastOf(scan.best, i - 1, targetLoad)
    BY <1>6, <2>1, <2>2, <2>4 DEF ScanSeen
  <2>6. targetLoad \in [TargetSet -> Int] /\ \A t \in TargetSet : targetLoad[t] # -1
    BY <2>2 DEF SharedType
  <2> QED
    BY <2>2, <2>4, <2>5, <2>6, LighterLeast
<1>8. ASSUME NEW r \in Requests, Begin(r) \/ Handle(r)
      PROVE  ScanSeen'
  <2>1. CASE BeginScan(r) \/ EndScan(r)
    BY <1>2, <2>1 DEF BeginScan, EndScan
  <2>2. CASE ReadLoad(r)
    BY <1>7, <2>2
  <2>3. CASE TakeLoad(r)
    BY <1>3, <1>4, <1>5, <2>3 DEF TakeLoad, Goto
  <2>4. CASE ErrorHandler(r)
    BY <1>4, <1>5, <2>4 DEF ErrorHandler, Goto
  <2>5. CASE Acquire(r) \/ Release(r) \/ decConn(r)
    BY <1>3, <1>6, <2>5 DEF Acquire, Release, decConn, local, shared
  <2>6. CASE \/ Arrive(r) \/ AnswerLocally(r) \/ NoRoute(r) \/ TurnAway(r) \/ Federate(r)
             \/ CacheHit(r) \/ CacheMiss(r) \/ CacheSkip(r) \/ Intercept(r) \/ CircuitOpen(r)
             \/ Bridge(r) \/ Undeliverable(r) \/ OpenTunnel(r) \/ CloseTunnel(r) \/ Send(r)
             \/ Pass(r) \/ ModifyResponse(r)
    BY <1>3, <1>5, <2>6 DEF Arrive, AnswerLocally, NoRoute, TurnAway, Federate, CacheHit,
       CacheMiss, CacheSkip, Intercept, CircuitOpen, Bridge, Undeliverable, OpenTunnel,
       CloseTunnel, Send, Pass, ModifyResponse, Finish, Goto, shared
  <2>7. CASE \/ LeastConn(r) \/ RoundRobin(r) \/ incConn(r) \/ Admit(r) \/ Panic(r) \/ Store(r)
             \/ Record(r) \/ Return(r)
    BY <1>3, <1>5, <2>7 DEF LeastConn, RoundRobin, Select, incConn, Admit, Panic, Store, Record,
       Return, Goto, shared
  <2>8. CASE \E outcome \in Outcome : Attempt(r, outcome)
    <3>1. UNCHANGED <<scan, targetLoad>>
      BY <2>8 DEF Attempt, shared
    <3>2. PICK to \in {"sending", "failed", "responded"} : pc' = [pc EXCEPT ![r] = to]
      BY <2>8 DEF Attempt
    <3> QED
      BY <1>3, <1>5, <3>1, <3>2
  <2> QED
    BY <1>8, <2>1, <2>2, <2>3, <2>4, <2>5, <2>6, <2>7, <2>8 DEF Begin, Handle
<1>9. CASE UNCHANGED vars \/ Environment
  BY <1>3, <1>6, <1>9 DEF vars, local, shared, Environment, Expire, Tick,
                           LockElsewhere, UnlockElsewhere
<1> QED
  BY <1>8, <1>9 DEF Next, Environment

(* A set of naturals that is not empty has a least element. *)
LEMMA LeastNat ==
    ASSUME NEW T \in SUBSET Nat, T # {}
    PROVE  \E x \in T : \A y \in T : ~(y < x)
<1>1. PICK x \in T : \A y \in T : ~(<<y, x>> \in OpToRel(<, Nat))
  BY WFMin, NatLessThanWellFounded, Zenon
<1>2. \A y \in T : y < x => <<y, x>> \in OpToRel(<, Nat)
  BY DEF OpToRel
<1> QED
  BY <1>1, <1>2

(* What holds of 0 and passes from i - 1 to i holds up to n. *)
LEMMA UpTo ==
    ASSUME NEW n \in Nat, NEW S, 0 \in S,
           \A i \in 1..n : i - 1 \in S => i \in S
    PROVE  0..n \subseteq S
<1> DEFINE T == (0..n) \ S
<1>1. SUFFICES ASSUME T # {} PROVE FALSE
  OBVIOUS
<1>2. PICK x \in T : \A y \in T : ~(y < x)
  <2>1. T \in SUBSET Nat
    OBVIOUS
  <2> HIDE DEF T
  <2> QED
    BY <1>1, <2>1, LeastNat
<1>3. x \in 1..n /\ x - 1 \in 0..n /\ x - 1 < x
  BY <1>2
<1>4. x - 1 \in S
  BY <1>2, <1>3
<1> QED
  BY <1>2, <1>3, <1>4

(* The loop of least_conn has a result after each of its iterations. *)
LEMMA LeastConnLoop ==
    \A i \in 0..Len(Targets) :
        leastConn[i] = IF i = 0 THEN NoBest
                       ELSE Lighter(leastConn[i - 1], Targets[i], activeConns[Targets[i]])
<1> DEFINE D(f, i) == IF i = 0 THEN NoBest
                      ELSE Lighter(f[i - 1], Targets[i], activeConns[Targets[i]])
           Loop(n) == \E f : f = [i \in 0..n |-> D(f, i)]
           S == {n \in 0..Len(Targets) : Loop(n)}
<1>0. Len(Targets) \in Nat
  BY GatewayAssumption
<1>1. 0 \in S
  <2> DEFINE f == [i \in 0..0 |-> NoBest]
  <2>1. f = [i \in 0..0 |-> D(f, i)]
    OBVIOUS
  <2> HIDE DEF f, D
  <2>2. Loop(0)
    BY <2>1
  <2> HIDE DEF Loop
  <2> QED
    BY <1>0, <2>2
<1>2. ASSUME NEW n \in 1..Len(Targets), n - 1 \in S PROVE n \in S
  <2>1. PICK f : f = [i \in 0..n - 1 |-> D(f, i)]
    BY <1>2
  <2> DEFINE g == [i \in 0..n |-> IF i = n THEN D(f, n) ELSE f[i]]
  <2>2. \A i \in 0..n : g[i] = D(g, i)
    <3> SUFFICES ASSUME NEW i \in 0..n PROVE g[i] = D(g, i)
      OBVIOUS
    <3>1. i = 0 \/ (i - 1 \in 0..n - 1 /\ i - 1 # n /\ i - 1 \in 0..n)
      BY <1>0
    <3>2. i # 0 => g[i - 1] = f[i - 1]
      BY <3>1
    <3>3. D(g, i) = D(f, i)
      BY <3>2
    <3>4. CASE i = n
      BY <3>3, <3>4
    <3>5. CASE i # n
      <4>1. i \in 0..n - 1
        BY <1>0, <3>5
      <4>2. f[i] = D(f, i)
        BY <2>1, <4>1
      <4> QED
        BY <3>3, <3>5, <4>2
    <3> QED
      BY <3>4, <3>5
  <2>3. g = [i \in 0..n |-> D(g, i)]
    BY <2>2
  <2> HIDE DEF g, D
  <2>4. Loop(n)
    BY <2>3
  <2> HIDE DEF Loop
  <2> QED
    BY <1>0, <2>4
<1>3. Len(Targets) \in S
  <2> HIDE DEF S
  <2>1. 0..Len(Targets) \subseteq S
    BY <1>0, <1>1, <1>2, UpTo
  <2> QED
    BY <1>0, <2>1
<1>4. \E f : f = [i \in 0..Len(Targets) |-> D(f, i)]
  BY <1>3
<1>5. leastConn = [i \in 0..Len(Targets) |-> D(leastConn, i)]
  BY <1>4 DEF leastConn
<1> QED
  BY <1>5

(* What least_conn picks has the lowest gauge. *)
LEMMA LeastConnLeast ==
    ASSUME activeConns \in [TargetSet -> Nat]
    PROVE  /\ FewestConns \in TargetSet
           /\ \A u \in TargetSet : activeConns[FewestConns] <= activeConns[u]
<1> DEFINE S == {n \in 0..Len(Targets) : LeastOf(leastConn[n], n, activeConns)}
<1>0. /\ Len(Targets) \in Nat \ {0}
      /\ activeConns \in [TargetSet -> Int] /\ \A t \in TargetSet : activeConns[t] # -1
  BY GatewayAssumption
<1>1. 0 \in S
  BY <1>0, LeastConnLoop DEF LeastOf
<1>2. ASSUME NEW n \in 1..Len(Targets), n - 1 \in S PROVE n \in S
  <2>1. n \in 0..Len(Targets) /\ n # 0
    BY <1>0
  <2>2. leastConn[n] = Lighter(leastConn[n - 1], Targets[n], activeConns[Targets[n]])
    BY <2>1, LeastConnLoop
  <2>3. LeastOf(leastConn[n - 1], n - 1, activeConns)
    BY <1>2
  <2> QED
    BY <1>0, <2>1, <2>2, <2>3, LighterLeast
<1>3. Len(Targets) \in S
  <2> HIDE DEF S
  <2>1. 0..Len(Targets) \subseteq S
    BY <1>0, <1>1, <1>2, UpTo
  <2> QED
    BY <1>0, <2>1
<1>4. /\ FewestConns \in TargetSet
      /\ \A i \in 1..Len(Targets) : activeConns[FewestConns] <= activeConns[Targets[i]]
  BY <1>0, <1>3 DEF LeastOf, FewestConns
<1> QED
  BY <1>4 DEF TargetSet

------------------------------------------------------------------------------
(* The invariant. *)

(* Nobody is served and every gauge is zero. *)
LEMMA InitIInv == Init => IInv
<1> SUFFICES ASSUME Init PROVE IInv
  OBVIOUS
<1>1. L!TypeOK /\ L!TokensAccounted
  <2>1. LP!LimiterAssumption
    BY GatewayAssumption DEF LP!LimiterAssumption
  <2> QED
    BY <2>1, SameLimiter, LP!InitIInv DEF Init
<1>2. NewCircuitBreaker \in BreakerRecord
  BY NewBreakerType
<1>3. TypeOK
  <2>1. 0 \in 0..MaxRetries - 1 /\ 0 \in 0..Len(Targets) - 1
    BY GatewayAssumption
  <2>2. /\ pc \in [Requests -> PC]
        /\ tgt \in [Requests -> TargetSet \cup {None}]
        /\ code \in [Requests -> Code]
        /\ errs \in [Requests -> Nat]
        /\ tries \in [Requests -> 0..MaxRetries - 1]
        /\ keyed \in [Requests -> BOOLEAN]
    BY <2>1 DEF Init, PC, Code
  <2>3. /\ activeConns \in [TargetSet -> Nat]
        /\ targetLoad \in [TargetSet -> Int]
        /\ breakers \in [TargetSet -> BreakerRecord]
    BY <1>2 DEF Init
  <2> QED
    BY <1>1, <2>1, <2>2, <2>3, NewScanType DEF Init, TypeOK
<1>4. WellPlaced
  BY DEF Init, L!Init, WellPlaced, PC, AtTarget, BeforeTarget
<1>5. \A t \in TargetSet : OnTarget(t) = {}
  BY GatewayAssumption DEF Init, OnTarget
<1>6. ConnAccounting
  BY <1>5, FS_EmptySet DEF Init, ConnAccounting
<1>7. ErrorsCountedOnce /\ ErrorsPlaced /\ ScanSeen
  BY DEF Init, ErrorsCountedOnce, ErrorsPlaced, ScanSeen, NoScan
<1> QED
  BY <1>1, <1>3, <1>4, <1>6, <1>7 DEF IInv

(* The steps together. *)
LEMMA NextIInv == IInv /\ [Next]_vars => IInv'
<1> SUFFICES ASSUME IInv, [Next]_vars PROVE IInv'
  OBVIOUS
<1>1. PipelineInv
  BY DEF IInv, TypeOK, PipelineInv, LocalType, SharedType
<1>2. L!TypeOK' /\ L!TokensAccounted'
  BY LimiterInv DEF IInv, TypeOK
<1>3. PipelineInv'
  <2>1. CASE UNCHANGED vars
    BY <1>1, <2>1 DEF vars, limiter, local, shared, PipelineInv, LocalType, SharedType,
                      WellPlaced, ConnAccounting, OnTarget
  <2>2. CASE Environment
    BY <1>1, <2>2, EnvironmentInv
  <2>3. ASSUME NEW r \in Requests, Begin(r) \/ Handle(r)
        PROVE  PipelineInv'
    BY <1>1, <2>3, ExitInv, AcquireInv, MoveInv, SelectInv, ScanInv, incConnInv, decConnInv,
       TargetInv
       DEF Begin, Handle
  <2> QED
    BY <2>1, <2>2, <2>3 DEF Next, Environment
<1>4. ErrorsCountedOnce' /\ ErrorsPlaced' /\ ScanSeen'
  BY <1>1, ErrorsInv, ScanStep DEF IInv, PipelineInv
<1> QED
  BY <1>2, <1>3, <1>4 DEF IInv, TypeOK, PipelineInv, LocalType, SharedType

------------------------------------------------------------------------------

(* Types, the limiter's tokens, who owes what where, and the gauges hold   *)
(* in every reachable state of ServeHTTP's pipeline.                       *)
THEOREM Invariance == Spec => []IInv
<1>1. Init => IInv
  BY InitIInv
<1>2. IInv /\ [Next]_vars => IInv'
  BY NextIInv
<1> QED
  BY <1>1, <1>2, PTL DEF Spec

(* activeConns counts exactly the requests between incConn and decConn,    *)
(* for every number of requests and targets and on every path.             *)
THEOREM GaugesExact == Spec => []ConnAccounting
<1>1. IInv => ConnAccounting
  BY DEF IInv
<1> QED
  BY <1>1, Invariance, PTL

(* At most MaxConcurrent requests of the route are at its targets: each of *)
(* them holds a slot of the limiter until the deferred release.            *)
THEOREM UpstreamIsBounded == Spec => []UpstreamBounded
<1>1. IInv => UpstreamBounded
  <2> SUFFICES ASSUME IInv PROVE UpstreamBounded
    OBVIOUS
  <2>1. Upstream \subseteq L!SlotHolders
    BY DEF IInv, WellPlaced, Upstream, L!SlotHolders, PC, AtTarget, BeforeTarget
  <2>2. /\ L!IsFiniteSet(L!SlotHolders) /\ L!Cardinality(L!SlotHolders) = sem
        /\ sem \in 0..MaxConcurrent
    BY DEF IInv, TypeOK, L!TypeOK, L!TokensAccounted
  <2>3. IsFiniteSet(L!SlotHolders) /\ Cardinality(L!SlotHolders) = sem
    BY <2>2 DEF L!IsFiniteSet, L!Cardinality, IsFiniteSet, Cardinality
  <2>4. /\ IsFiniteSet(Upstream)
        /\ Cardinality(Upstream) <= Cardinality(L!SlotHolders)
    BY <2>1, <2>3, FS_Subset
  <2>5. Cardinality(Upstream) \in Nat
    BY <2>4, FS_CardinalityType
  <2> QED
    BY <2>2, <2>3, <2>4, <2>5, GatewayAssumption DEF UpstreamBounded
<1> QED
  BY <1>1, Invariance, PTL

(* Whichever exit of ServeHTTP a request takes, it is counted as an error  *)
(* at most once, and only when it was answered with a 5xx.                 *)
THEOREM ErrorsAreCountedOnce == Spec => []ErrorsCountedOnce
<1>1. IInv => ErrorsCountedOnce
  BY DEF IInv
<1> QED
  BY <1>1, Invariance, PTL

(* selectTarget picks a target that is least loaded by the facts, for any  *)
(* number of targets: least_conn always, backpressure when no load was     *)
(* reported during its scan and none is -1.                                *)
THEOREM PicksByTheFacts == Spec => PicksLeastLoaded
<1> DEFINE Pick(r, u) ==
              /\ LeastConn(r) => InFlight(tgt'[r]) <= InFlight(u)
              /\ (/\ scan.stable
                  /\ \A t \in TargetSet : targetLoad[t] # -1
                  /\ EndScan(r)) => targetLoad[tgt'[r]] <= targetLoad[u]
<1>1. ASSUME IInv, NEW r \in Requests, NEW u \in TargetSet PROVE Pick(r, u)
  <2>0. /\ tgt \in [Requests -> TargetSet \cup {None}]
        /\ activeConns \in [TargetSet -> Nat]
        /\ pc \in [Requests -> PC] /\ scan \in Scan /\ targetLoad \in [TargetSet -> Int]
    BY <1>1 DEF IInv, TypeOK
  <2>1. ASSUME LeastConn(r) PROVE InFlight(tgt'[r]) <= InFlight(u)
    <3>1. tgt'[r] = FewestConns
      BY <2>0, <2>1 DEF LeastConn, Select
    <3>2. tgt'[r] \in TargetSet /\ activeConns[tgt'[r]] <= activeConns[u]
      BY <2>0, <3>1, LeastConnLeast
    <3>3. \A t \in TargetSet : activeConns[t] = InFlight(t)
      BY <1>1 DEF IInv, ConnAccounting, InFlight
    <3> QED
      BY <3>2, <3>3
  <2>2. ASSUME scan.stable, \A t \in TargetSet : targetLoad[t] # -1, EndScan(r)
        PROVE  targetLoad[tgt'[r]] <= targetLoad[u]
    <3>1. tgt'[r] = scan.best.selected /\ scan.next > Len(Targets) /\ ~NoScan
      BY <2>0, <2>2 DEF EndScan, Goto, NoScan
    <3>2. LeastOf(scan.best, scan.next - 1, targetLoad)
      BY <1>1, <2>2, <3>1 DEF IInv, ScanSeen
    <3>3. scan.next - 1 = Len(Targets) /\ Len(Targets) \in Nat \ {0}
      BY <2>0, <3>1, GatewayAssumption DEF Scan
    <3>4. \A i \in 1..Len(Targets) : targetLoad[scan.best.selected] <= targetLoad[Targets[i]]
      BY <3>2, <3>3 DEF LeastOf
    <3> QED
      BY <3>1, <3>4 DEF TargetSet
  <2> QED
    BY <2>1, <2>2
<1>2. IInv /\ [Next]_vars => [\A r \in Requests, u \in TargetSet : Pick(r, u)]_vars
  BY <1>1
<1> QED
  BY <1>2, Invariance, PTL DEF Spec, PicksLeastLoaded
==============================================================================
