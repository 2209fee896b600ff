------------------------------- MODULE Breaker -------------------------------
(***************************************************************************)
(* The circuit breaker of one proxy target (src/pkg/proxy/handler.go,      *)
(* CircuitBreaker), as operations on a breaker record.  CircuitBreaker.tla *)
(* runs one breaker under concurrent requests, Gateway.tla keeps one per   *)
(* target inside the request pipeline.                                     *)
(*                                                                         *)
(* Time.  The code only ever compares a duration with the SLO and the time *)
(* since the last state change with the cooling period, so clocks are kept *)
(* as ages in ticks that saturate at Horizon, which lies beyond both       *)
(* thresholds: every comparison gives what it gives on the real clock and  *)
(* no bound on time is needed.                                             *)
(*                                                                         *)
(* Latencies.  The sample window is only ever compared with the SLO, so it *)
(* holds for each sample whether it exceeded the SLO.                      *)
(***************************************************************************)
EXTENDS Integers, Sequences, FiniteSets

CONSTANTS SLO,         \* sloThreshold, in ticks (1s in the code)
          Cooling,     \* cooling period of an open breaker (5s in the code)
          Horizon,     \* saturation point of ages
          Window,      \* latencies kept (50 in the code)
          MinSamples,  \* samples p99 needs (5 in the code)
          Trials       \* successes that close a half-open breaker (3 in the code)

(* NewCircuitBreaker gets 1s and the cooling period is the literal 5s: an  *)
(* answer to a request older than the cooling period is over the SLO.      *)
ASSUME BreakerAssumption ==
    /\ SLO \in Nat
    /\ Cooling \in Nat
    /\ Horizon \in Nat
    /\ SLO <= Cooling
    /\ Cooling < Horizon
    /\ Window \in Nat \ {0}
    /\ MinSamples \in Nat \ {0}
    /\ Trials \in Nat \ {0}

CircuitState == {"closed", "open", "half_open"}

BreakerRecord == [state        : CircuitState,
                  latencies    : Seq(BOOLEAN),   \* TRUE: the sample exceeded the SLO
                  successCount : Nat,
                  since        : 0..Horizon]     \* time.Since(lastStateChange)

NewCircuitBreaker == [state        |-> "closed",
                      latencies    |-> <<>>,
                      successCount |-> 0,
                      since        |-> Horizon]

(* One tick of the clock on a saturating age. *)
Older(age) == IF age < Horizon THEN age + 1 ELSE age

------------------------------------------------------------------------------
(* Allow: what it answers, and the breaker it leaves. *)

(* Mutant: half-open at the cooling period, not after it. *)
CooledDownEarly(b) == b.state = "open" /\ b.since >= Cooling

CooledDown(b) == b.state = "open" /\ b.since > Cooling

Admits(b) == b.state # "open" \/ CooledDown(b)

(* Mutants: every call on an open breaker restarts its cooling; every call *)
(* on a half-open one starts its count afresh.                             *)
AllowRestartsCooling(b) ==
    IF CooledDown(b)
    THEN [b EXCEPT !.state = "half_open", !.since = 0, !.successCount = 0]
    ELSE IF b.state = "open" THEN [b EXCEPT !.since = 0] ELSE b

AllowForgetsTrials(b) ==
    IF CooledDown(b) \/ b.state = "half_open"
    THEN [b EXCEPT !.state = "half_open", !.since = 0, !.successCount = 0]
    ELSE b

Allow(b) == IF CooledDown(b)
            THEN [b EXCEPT !.state = "half_open", !.since = 0, !.successCount = 0]
            ELSE b

------------------------------------------------------------------------------
(* RecordRequest and its p99. *)

(* sorted[idx] is over the SLO, idx = min(int(n * 0.99), n - 1): in the     *)
(* sorted window the slow samples are the last ones.                       *)
P99Breached(latencies) ==
    LET n    == Len(latencies)
        idx  == IF (99 * n) \div 100 >= n THEN n - 1 ELSE (99 * n) \div 100
        slow == Cardinality({i \in 1..n : latencies[i]})
    IN  slow >= n - idx

Breached(latencies) == Len(latencies) >= MinSamples /\ P99Breached(latencies)

Remember(latencies, slow) ==
    IF Len(latencies) >= Window
    THEN Tail(Append(latencies, slow))
    ELSE Append(latencies, slow)

(* Mutant: the change to open is not timed. *)
TripUntimed(b) == [b EXCEPT !.state = "open"]

Trip(b) == [b EXCEPT !.state = "open", !.since = 0]

(* Mutants: the window survives the closing; a slow success counts. *)
RecordTrialKeepsWindow(b, slow) ==
    LET counted == [b EXCEPT !.successCount = @ + 1]
    IN  IF ~slow /\ counted.successCount >= Trials
        THEN [counted EXCEPT !.state = "closed", !.since = 0]
        ELSE IF slow THEN Trip(counted) ELSE counted

RecordTrialAnySuccess(b, slow) ==
    LET counted == [b EXCEPT !.successCount = @ + 1]
    IN  IF counted.successCount >= Trials
        THEN [counted EXCEPT !.state = "closed", !.latencies = <<>>, !.since = 0]
        ELSE counted

(* The half-open branch: b already holds the sample. *)
RecordTrial(b, slow) ==
    LET counted == [b EXCEPT !.successCount = @ + 1]
    IN  IF ~slow /\ counted.successCount >= Trials
        THEN [counted EXCEPT !.state = "closed", !.latencies = <<>>, !.since = 0]
        ELSE IF slow THEN Trip(counted) ELSE counted

RecordSuccess(b, slow) ==
    LET sampled == [b EXCEPT !.latencies = Remember(@, slow)]
    IN  IF b.state = "half_open"
        THEN RecordTrial(sampled, slow)
        ELSE IF b.state = "closed" /\ Breached(sampled.latencies)
             THEN Trip(sampled)
             ELSE sampled

RecordRequest(b, dur, success) ==
    IF success THEN RecordSuccess(b, dur > SLO) ELSE Trip(b)
==============================================================================
