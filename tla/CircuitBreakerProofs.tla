------------------------- MODULE CircuitBreakerProofs -------------------------
(***************************************************************************)
(* What holds of one breaker for every number of requests and every value  *)
(* of the thresholds with SLO <= Cooling.                                  *)
(***************************************************************************)
EXTENDS CircuitBreaker, TLAPS

------------------------------------------------------------------------------
(* What the operations of Breaker.tla return, for every breaker. *)

(* Pushing a sample keeps the window a sequence of samples. *)
LEMMA RememberType ==
    ASSUME NEW lat \in Seq(BOOLEAN), NEW slow \in BOOLEAN
    PROVE  Remember(lat, slow) \in Seq(BOOLEAN)
<1>1. /\ Append(lat, slow) \in Seq(BOOLEAN)
      /\ Append(lat, slow) # <<>>
  OBVIOUS
<1>2. Tail(Append(lat, slow)) \in Seq(BOOLEAN)
  BY <1>1
<1> QED
  BY <1>1, <1>2 DEF Remember

(* A tick keeps an age in range and never makes it smaller. *)
LEMMA OlderType ==
    ASSUME NEW a \in 0..Horizon
    PROVE  Older(a) \in 0..Horizon /\ Older(a) >= a
BY BreakerAssumption DEF Older

(* Two ages that tick together keep their order. *)
LEMMA OlderMonotone ==
    ASSUME NEW a \in 0..Horizon, NEW b \in 0..Horizon, a >= b
    PROVE  Older(a) >= Older(b)
BY BreakerAssumption DEF Older

(* An age cut in two parts, of which one ticks, keeps its order with       *)
(* another age.                                                            *)
LEMMA OlderSum ==
    ASSUME NEW a \in 0..Horizon, NEW w \in 0..Horizon, NEW b \in 0..Horizon, a + w >= b
    PROVE  a + Older(w) >= Older(b) /\ Older(a) + w >= Older(b)
BY BreakerAssumption DEF Older

(* The values the operations assign have their types. *)
LEMMA Assigned ==
    /\ 0 \in 0..Horizon
    /\ 0 \in Nat
    /\ {"closed", "open", "half_open"} = CircuitState
    /\ <<>> \in Seq(BOOLEAN)
BY BreakerAssumption DEF CircuitState

(* Allow returns a breaker, leaves its window alone, and changes the state *)
(* only from cooled-down open to half-open.                                *)
LEMMA AllowFacts ==
    ASSUME NEW b \in BreakerRecord
    PROVE  /\ Allow(b) \in BreakerRecord
           /\ Allow(b).latencies = b.latencies
           /\ CooledDown(b)  => Allow(b).state = "half_open"
           /\ ~CooledDown(b) => Allow(b) = b
<1>1. CASE CooledDown(b)
  <2>1. "half_open" \in CircuitState
    BY Assigned
  <2> QED
    BY <1>1, <2>1, Assigned DEF Allow, BreakerRecord
<1>2. CASE ~CooledDown(b)
  BY <1>2 DEF Allow
<1> QED
  BY <1>1, <1>2

(* Trip opens a breaker and restarts its clock. *)
LEMMA TripFacts ==
    ASSUME NEW b \in BreakerRecord
    PROVE  /\ Trip(b) \in BreakerRecord
           /\ Trip(b).state = "open"
           /\ Trip(b).since = 0
<1>1. "open" \in CircuitState
  BY Assigned
<1> QED
  BY <1>1, Assigned DEF Trip, BreakerRecord

(* RecordRequest returns a breaker.  It opens the circuit with the age of  *)
(* the open period reset, or leaves an open one open and its age alone;    *)
(* it opens it on every failure and on every slow answer while half-open;  *)
(* and what it closes, or leaves closed, holds no breach.                  *)
LEMMA RecordFacts ==
    ASSUME NEW b \in BreakerRecord, NEW dur \in 0..Horizon, NEW success \in BOOLEAN
    PROVE  LET c == RecordRequest(b, dur, success)
           IN  /\ c \in BreakerRecord
               /\ ~success => c.state = "open" /\ c.since = 0
               /\ c.state = "open" => c.since = 0 \/ (b.state = "open" /\ c.since = b.since)
               /\ b.state = "open" => c.state = "open"
               /\ b.state = "half_open" /\ dur > SLO => c.state = "open"
               /\ c.state = "half_open" => b.state = "half_open"
               /\ c.state = "closed" => ~Breached(c.latencies)
<1> DEFINE slow == dur > SLO
           sampled == [b EXCEPT !.latencies = Remember(@, slow)]
<1>0. slow \in BOOLEAN
  OBVIOUS
<1>1. /\ sampled \in BreakerRecord
      /\ sampled.state = b.state
      /\ sampled.since = b.since
  <2>1. Remember(b.latencies, slow) \in Seq(BOOLEAN)
    BY <1>0, RememberType DEF BreakerRecord
  <2> QED
    BY <2>1 DEF BreakerRecord
<1>2. CASE ~success
  BY <1>2, TripFacts DEF RecordRequest
<1>3. CASE success /\ b.state = "half_open"
  <2> DEFINE counted == [sampled EXCEPT !.successCount = @ + 1]
             closed  == [counted EXCEPT !.state = "closed", !.latencies = <<>>, !.since = 0]
  <2>1. /\ counted \in BreakerRecord
        /\ counted.state = "half_open"
    <3> HIDE DEF sampled
    <3>1. sampled.successCount + 1 \in Nat
      BY <1>1 DEF BreakerRecord
    <3> QED
      BY <1>1, <1>3, <3>1 DEF BreakerRecord
  <2>2. RecordRequest(b, dur, success) = RecordTrial(sampled, slow)
    BY <1>3 DEF RecordRequest, RecordSuccess
  <2>3. RecordTrial(sampled, slow) =
          IF ~slow /\ counted.successCount >= Trials THEN closed
          ELSE IF slow THEN Trip(counted) ELSE counted
    BY DEF RecordTrial
  <2>4. /\ closed \in BreakerRecord
        /\ closed.state = "closed"
        /\ closed.latencies = <<>>
    <3>1. "closed" \in CircuitState
      BY Assigned
    <3> QED
      BY <2>1, <3>1, Assigned DEF BreakerRecord
  <2>5. ~Breached(<<>>)
    BY BreakerAssumption DEF Breached
  <2>6. /\ Trip(counted) \in BreakerRecord
        /\ Trip(counted).state = "open"
        /\ Trip(counted).since = 0
    BY <2>1, TripFacts
  <2> HIDE DEF counted, closed, sampled
  <2> QED
    BY <1>3, <2>1, <2>2, <2>3, <2>4, <2>5, <2>6
<1>4. CASE success /\ b.state # "half_open"
  <2>1. RecordRequest(b, dur, success) =
          IF b.state = "closed" /\ Breached(sampled.latencies) THEN Trip(sampled) ELSE sampled
    BY <1>4 DEF RecordRequest, RecordSuccess
  <2>2. /\ Trip(sampled) \in BreakerRecord
        /\ Trip(sampled).state = "open"
        /\ Trip(sampled).since = 0
    BY <1>1, TripFacts
  <2> HIDE DEF sampled
  <2> QED
    BY <1>1, <1>4, <2>1, <2>2
<1> QED
  BY <1>2, <1>3, <1>4

------------------------------------------------------------------------------
(* The inductive invariant. *)

(* A new breaker is closed, with an empty window and nobody out. *)
LEMMA InitIInv == Init => IInv
<1> SUFFICES ASSUME Init PROVE IInv
  OBVIOUS
<1>1. NewCircuitBreaker \in BreakerRecord
  <2>1. "closed" \in CircuitState /\ Horizon \in 0..Horizon
    BY Assigned, BreakerAssumption
  <2> QED
    BY <2>1, Assigned DEF NewCircuitBreaker, BreakerRecord
<1>2. NewCircuitBreaker.state = "closed" /\ NewCircuitBreaker.latencies = <<>>
  BY DEF NewCircuitBreaker
<1>3. TypeOK
  BY <1>1, BreakerAssumption DEF Init, TypeOK, Phase
<1>4. ~Breached(<<>>)
  BY BreakerAssumption DEF Breached
<1> QED
  BY <1>2, <1>3, <1>4, BreakerAssumption
     DEF Init, IInv, QuietUnlessOpen, OpenOutlived, StaleIsSlow, WaitedIsMeasured,
         Out, ClosedWithinSLO

(* Taking the start time leaves the breaker and the proxied requests alone. *)
LEMMA ArriveIInv ==
    ASSUME IInv, NEW r \in Requests, Arrive(r)
    PROVE  IInv'
<1>1. TypeOK'
  BY BreakerAssumption DEF IInv, TypeOK, Arrive, Phase
<1>2. \A s \in Requests : Out(s)' => Out(s)
  BY DEF IInv, TypeOK, Arrive, Out
<1>3. WaitedIsMeasured'
  BY DEF IInv, TypeOK, WaitedIsMeasured, Arrive
<1> QED
  BY <1>1, <1>2, <1>3 DEF IInv, Arrive, QuietUnlessOpen, OpenOutlived, StaleIsSlow, ClosedWithinSLO

(* Allow either leaves the breaker alone or opens the half-open period, in *)
(* which case every request still out is older than the cooling period.    *)
LEMMA AdmitIInv ==
    ASSUME IInv, NEW r \in Requests, Admit(r)
    PROVE  IInv'
<1>0. /\ cb \in BreakerRecord
      /\ cb' = Allow(cb)
  BY DEF IInv, TypeOK, Admit
<1>1. TypeOK'
  BY <1>0, AllowFacts DEF IInv, TypeOK, Admit, Phase
<1>2. \A s \in Requests : Out(s)' => s = r \/ Out(s)
  BY DEF IInv, TypeOK, Admit, Out
<1>5. WaitedIsMeasured'
  BY DEF IInv, TypeOK, WaitedIsMeasured, Admit
<1>3. CASE CooledDown(cb)
  <2>1. cb'.state = "half_open" /\ trials' = trials \cup {r}
    BY <1>0, <1>3, AllowFacts DEF Admit
  <2>2. cb.state = "open" /\ cb.since > Cooling /\ cb.since \in 0..Horizon
    BY <1>0, <1>3 DEF CooledDown, BreakerRecord
  <2>3. QuietUnlessOpen'
    BY <2>2, BreakerAssumption DEF IInv, TypeOK, OpenOutlived, QuietUnlessOpen, Admit
  <2>4. StaleIsSlow'
    BY <1>2, <2>1, <2>2, BreakerAssumption DEF IInv, TypeOK, OpenOutlived, StaleIsSlow, Admit
  <2> QED
    BY <1>1, <1>5, <2>1, <2>3, <2>4 DEF IInv, OpenOutlived, ClosedWithinSLO
<1>4. CASE ~CooledDown(cb)
  <2>1. cb' = cb /\ cb.state # "open"
    BY <1>0, <1>4, AllowFacts DEF Admit, Admits
  <2>2. StaleIsSlow'
    BY <1>2, <2>1 DEF IInv, StaleIsSlow, Admit
  <2> QED
    BY <1>1, <1>5, <2>1, <2>2 DEF IInv, Admit, QuietUnlessOpen, OpenOutlived, ClosedWithinSLO
<1> QED
  BY <1>3, <1>4

(* A refusal leaves the breaker as it was. *)
LEMMA RefuseIInv ==
    ASSUME IInv, NEW r \in Requests, Refuse(r)
    PROVE  IInv'
<1>1. cb' = cb
  BY AllowFacts DEF IInv, TypeOK, Refuse, Admits
<1>2. TypeOK'
  BY <1>1, Assigned DEF IInv, TypeOK, Refuse, Phase
<1>3. \A s \in Requests : Out(s)' => Out(s) /\ age'[s] = age[s]
  BY DEF IInv, TypeOK, Refuse, Out
<1>4. WaitedIsMeasured'
  BY DEF IInv, TypeOK, WaitedIsMeasured, Refuse
<1> QED
  BY <1>1, <1>2, <1>3, <1>4
     DEF IInv, Refuse, QuietUnlessOpen, OpenOutlived, StaleIsSlow, ClosedWithinSLO

(* Reading the clock moves a request from proxied to measured, both out. *)
LEMMA MeasureIInv ==
    ASSUME IInv, NEW r \in Requests, Measure(r)
    PROVE  IInv'
<1>1. TypeOK'
  BY DEF IInv, TypeOK, Measure, Phase
<1>2. \A s \in Requests : Out(s)' => Out(s)
  BY DEF IInv, TypeOK, Measure, Out
<1>3. WaitedIsMeasured'
  BY DEF IInv, TypeOK, WaitedIsMeasured, Measure
<1> QED
  BY <1>1, <1>2, <1>3
     DEF IInv, Measure, QuietUnlessOpen, OpenOutlived, StaleIsSlow, ClosedWithinSLO

(* A failure opens the circuit; a success moves it by RecordFacts. *)
LEMMA ReportIInv ==
    ASSUME IInv, NEW r \in Requests, NEW success \in BOOLEAN, Report(r, success)
    PROVE  IInv'
<1>0. /\ cb \in BreakerRecord
      /\ age[r] \in 0..Horizon
      /\ cb' = RecordRequest(cb, age[r], success)
  BY DEF IInv, TypeOK, Report
<1>1. /\ cb' \in BreakerRecord
      /\ ~success => cb'.state = "open" /\ cb'.since = 0
      /\ cb'.state = "open" => cb'.since = 0 \/ (cb.state = "open" /\ cb'.since = cb.since)
      /\ cb.state = "open" => cb'.state = "open"
      /\ cb'.state = "half_open" => cb.state = "half_open"
      /\ cb'.state = "closed" => ~Breached(cb'.latencies)
  BY <1>0, RecordFacts
<1>2. TypeOK'
  BY <1>1, Assigned DEF IInv, TypeOK, Report, Phase
<1>3. \A s \in Requests : Out(s)' => /\ Out(s) /\ s # r
                                       /\ age'[s] = age[s] /\ waited'[s] = waited[s]
  BY DEF IInv, TypeOK, Report, Out
<1>7. WaitedIsMeasured'
  BY DEF IInv, TypeOK, WaitedIsMeasured, Report
<1>4. QuietUnlessOpen'
  BY <1>1 DEF IInv, QuietUnlessOpen, Report
<1>5. OpenOutlived'
  <2> SUFFICES ASSUME cb'.state = "open"
               PROVE  /\ sinceFail' >= cb'.since
                      /\ \A s \in Requests : Out(s)' => age'[s] + waited'[s] >= cb'.since
    BY DEF OpenOutlived
  <2>1. CASE cb'.since = 0
    BY <1>2, <2>1, BreakerAssumption DEF TypeOK
  <2>2. CASE cb'.since # 0
    BY <1>1, <1>3, <2>2 DEF IInv, OpenOutlived, Report
  <2> QED
    BY <2>1, <2>2
<1>6. StaleIsSlow'
  BY <1>1, <1>3 DEF IInv, StaleIsSlow, Report
<1> QED
  BY <1>1, <1>2, <1>4, <1>5, <1>6, <1>7 DEF IInv, ClosedWithinSLO

(* A request that never reports only leaves the proxied ones. *)
LEMMA AbandonIInv ==
    ASSUME IInv, NEW r \in Requests, Abandon(r)
    PROVE  IInv'
<1>1. TypeOK'
  BY Assigned DEF IInv, TypeOK, Abandon, Phase
<1>2. \A s \in Requests : Out(s)' => Out(s) /\ s # r /\ age'[s] = age[s]
  BY DEF IInv, TypeOK, Abandon, Out
<1>3. WaitedIsMeasured'
  BY DEF IInv, TypeOK, WaitedIsMeasured, Abandon
<1> QED
  BY <1>1, <1>2, <1>3
     DEF IInv, Abandon, QuietUnlessOpen, OpenOutlived, StaleIsSlow, ClosedWithinSLO

(* All ages move together. *)
LEMMA TickIInv ==
    ASSUME IInv, Tick
    PROVE  IInv'
<1>0. cb \in BreakerRecord /\ cb.since \in 0..Horizon /\ sinceFail \in 0..Horizon
  BY DEF IInv, TypeOK, BreakerRecord
<1>1. /\ cb' \in BreakerRecord
      /\ cb'.state = cb.state
      /\ cb'.latencies = cb.latencies
      /\ cb'.since = Older(cb.since)
  <2>1. Older(cb.since) \in 0..Horizon
    BY <1>0, OlderType
  <2> QED
    BY <1>0, <2>1 DEF Tick, BreakerRecord
<1>2. \A s \in Requests :
         /\ age[s] \in 0..Horizon /\ waited[s] \in 0..Horizon
         /\ Out(s)' => /\ Out(s)
                       /\ \/ age'[s] = Older(age[s]) /\ waited'[s] = waited[s]
                          \/ age'[s] = age[s] /\ waited'[s] = Older(waited[s])
  BY DEF IInv, TypeOK, Tick, Out
<1>3. TypeOK'
  <2>1. age' \in [Requests -> 0..Horizon] /\ waited' \in [Requests -> 0..Horizon]
    BY OlderType DEF IInv, TypeOK, Tick
  <2>2. sinceFail' \in 0..Horizon
    BY <1>0, OlderType DEF Tick
  <2> QED
    BY <1>1, <2>1, <2>2 DEF IInv, TypeOK, Tick
<1>4. QuietUnlessOpen'
  BY <1>0, <1>1, OlderType, BreakerAssumption DEF IInv, QuietUnlessOpen, Tick
<1>5. OpenOutlived'
  <2> SUFFICES ASSUME cb.state = "open"
               PROVE  /\ sinceFail' >= cb'.since
                      /\ \A s \in Requests : Out(s)' => age'[s] + waited'[s] >= cb'.since
    BY <1>1 DEF OpenOutlived
  <2>1. sinceFail' >= cb'.since
    BY <1>0, <1>1, OlderMonotone DEF IInv, OpenOutlived, Tick
  <2>2. ASSUME NEW s \in Requests, Out(s)' PROVE age'[s] + waited'[s] >= cb'.since
    <3>1. age[s] + waited[s] >= cb.since
      BY <1>2, <2>2 DEF IInv, OpenOutlived
    <3> QED
      BY <1>0, <1>1, <1>2, <2>2, <3>1, OlderSum
  <2> QED
    BY <2>1, <2>2
<1>6. StaleIsSlow'
  <2> SUFFICES ASSUME cb.state = "half_open", NEW s \in Requests, Out(s)', s \notin trials
               PROVE  age'[s] + waited'[s] > Cooling
    BY <1>1 DEF StaleIsSlow, Tick
  <2>1. age[s] + waited[s] > Cooling
    BY <1>2 DEF IInv, StaleIsSlow
  <2> QED
    BY <1>2, <2>1, OlderType, BreakerAssumption
<1>7. WaitedIsMeasured'
  BY DEF IInv, TypeOK, WaitedIsMeasured, Tick
<1> QED
  BY <1>1, <1>3, <1>4, <1>5, <1>6, <1>7 DEF IInv, ClosedWithinSLO

(* The steps together. *)
LEMMA NextIInv == IInv /\ [Next]_vars => IInv'
<1> SUFFICES ASSUME IInv, [Next]_vars PROVE IInv'
  OBVIOUS
<1>1. CASE UNCHANGED vars
  BY <1>1 DEF vars, IInv, TypeOK, QuietUnlessOpen, OpenOutlived, StaleIsSlow, WaitedIsMeasured,
              Out, ClosedWithinSLO
<1>2. CASE Tick
  BY <1>2, TickIInv
<1>3. ASSUME NEW r \in Requests,
             \/ Arrive(r)
             \/ Admit(r)
             \/ Refuse(r)
             \/ Measure(r)
             \/ \E success \in BOOLEAN : Report(r, success)
             \/ Abandon(r)
      PROVE  IInv'
  BY <1>3, ArriveIInv, AdmitIInv, RefuseIInv, MeasureIInv, ReportIInv, AbandonIInv
<1> QED
  BY <1>1, <1>2, <1>3 DEF Next

------------------------------------------------------------------------------
(* The theorems. *)

(* The invariant that carries the others holds in every reachable state:   *)
(* cb, phase and the ages keep their types, and Allow and RecordRequest    *)
(* keep the age relations OpenOutlived and StaleIsSlow.                    *)
THEOREM Invariance == Spec => []IInv
<1>1. Init => IInv
  BY InitIInv
<1>2. IInv /\ [Next]_vars => IInv'
  BY NextIInv
<1> QED
  BY <1>1, <1>2, PTL DEF Spec

(* A closed circuit never holds a breaching window (RecordRequest). *)
THEOREM ClosedIsWithinSLO == Spec => []ClosedWithinSLO
<1>1. IInv => ClosedWithinSLO
  BY DEF IInv
<1> QED
  BY <1>1, Invariance, PTL

(* No request is admitted within Cooling of a reported failure (Allow). *)
THEOREM FailureQuietsTarget == Spec => QuietAfterFailure
<1>1. IInv /\ [Next]_vars
        => [\A r \in Requests : Admit(r) => sinceFail > Cooling]_vars
  <2> SUFFICES ASSUME IInv, NEW r \in Requests, Admit(r) PROVE sinceFail > Cooling
    OBVIOUS
  <2>1. CASE cb.state # "open"
    BY <2>1 DEF IInv, QuietUnlessOpen
  <2>2. CASE CooledDown(cb)
    BY <2>2, BreakerAssumption DEF IInv, TypeOK, BreakerRecord, OpenOutlived, CooledDown
  <2> QED
    BY <2>1, <2>2 DEF Admit, Admits
<1> QED
  BY <1>1, Invariance, PTL DEF Spec, QuietAfterFailure

(* A success that counts towards closing the circuit is a trial's of this  *)
(* half-open period, or was measured and then held up before cb.mu for     *)
(* more than the cooling period less the SLO (ServeHTTP's report,          *)
(* RecordRequest's half-open branch): a request from before the open       *)
(* period started more than the cooling period ago, and what it did not    *)
(* spend at the target it has waited since.                                *)
THEOREM ClosingNeedsTrials == Spec => OnlyTrialsCount
<1> DEFINE A == (cb.state = "half_open" /\ cb'.state # "open")
                  => \A r \in Requests, success \in BOOLEAN :
                        Report(r, success) => r \in trials \/ waited[r] > Cooling - SLO
<1>1. IInv /\ [Next]_vars => [A]_vars
  <2> SUFFICES ASSUME IInv, cb.state = "half_open", cb'.state # "open",
                      NEW r \in Requests, NEW success \in BOOLEAN, Report(r, success),
                      r \notin trials
               PROVE  waited[r] > Cooling - SLO
    OBVIOUS
  <2>1. /\ cb \in BreakerRecord
        /\ age[r] \in 0..Horizon
        /\ waited[r] \in 0..Horizon
        /\ cb' = RecordRequest(cb, age[r], success)
        /\ Out(r)
    BY DEF IInv, TypeOK, Report, Out
  <2>2. ~(age[r] > SLO)
    BY <2>1, RecordFacts
  <2>3. age[r] + waited[r] > Cooling
    BY <2>1 DEF IInv, StaleIsSlow
  <2> QED
    BY <2>1, <2>2, <2>3, BreakerAssumption
<1> QED
  BY <1>1, Invariance, PTL DEF Spec, OnlyTrialsCount
==============================================================================
