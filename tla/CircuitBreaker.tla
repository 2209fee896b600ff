---------------------------- MODULE CircuitBreaker ----------------------------
(***************************************************************************)
(* One breaker and the requests that race on it.  A request takes its      *)
(* start time when ServeHTTP begins, asks Allow after whatever it waited   *)
(* for (rate limit, queue, middleware), and reports to RecordRequest when  *)
(* the proxied answer is complete; some paths never report (webhook        *)
(* bridge, LLM routing, websocket, a target that does not parse, a panic   *)
(* of the reverse proxy).  Allow and RecordRequest hold cb.mu throughout,  *)
(* so each is one step; everything else interleaves, the time between      *)
(* reading the duration and getting cb.mu to record it included.           *)
(***************************************************************************)
EXTENDS Breaker

CONSTANT Requests   \* the goroutines that serve requests for this target

VARIABLES
    cb,        \* the breaker
    phase,     \* phase[r]: where the request of goroutine r is
    age,       \* age[r]: time.Since(start) of that request; once measured, duration;
               \* 0 while there is none
    waited,    \* history: waited[r], time since that request's duration was measured
    trials,    \* history: requests admitted in the current half-open period
    sinceFail  \* history: time since RecordRequest was last told of a failure

vars == <<cb, phase, age, waited, trials, sinceFail>>

Phase == {"idle", "arrived", "proxied", "measured"}

TypeOK ==
    /\ cb \in BreakerRecord
    /\ phase \in [Requests -> Phase]
    /\ age \in [Requests -> 0..Horizon]
    /\ waited \in [Requests -> 0..Horizon]
    /\ trials \in SUBSET Requests
    /\ sinceFail \in 0..Horizon

Init ==
    /\ cb = NewCircuitBreaker
    /\ phase = [r \in Requests |-> "idle"]
    /\ age = [r \in Requests |-> 0]
    /\ waited = [r \in Requests |-> 0]
    /\ trials = {}
    /\ sinceFail = Horizon

------------------------------------------------------------------------------
(* start := time.Now() *)
Arrive(r) ==
    /\ phase[r] = "idle"
    /\ phase' = [phase EXCEPT ![r] = "arrived"]
    /\ UNCHANGED <<cb, age, waited, trials, sinceFail>>

(* cb.Allow() answers true: the request goes to the target. *)
Admit(r) ==
    /\ phase[r] = "arrived"
    /\ Admits(cb)
    /\ cb' = Allow(cb)
    /\ phase' = [phase EXCEPT ![r] = "proxied"]
    /\ trials' = IF cb'.state = "half_open" THEN trials \cup {r} ELSE {}
    /\ UNCHANGED <<age, waited, sinceFail>>

(* cb.Allow() answers false: 503 ERR_CIRCUIT_OPEN. *)
Refuse(r) ==
    /\ phase[r] = "arrived"
    /\ ~Admits(cb)
    /\ cb' = Allow(cb)
    /\ phase' = [phase EXCEPT ![r] = "idle"]
    /\ age' = [age EXCEPT ![r] = 0]
    /\ UNCHANGED <<waited, trials, sinceFail>>

(* duration := time.Since(start), read before cb.mu is asked for. *)
Measure(r) ==
    /\ phase[r] = "proxied"
    /\ phase' = [phase EXCEPT ![r] = "measured"]
    /\ UNCHANGED <<cb, age, waited, trials, sinceFail>>

(* cb.RecordRequest(duration, rec.StatusCode < 500), with cb.mu held. *)
Report(r, success) ==
    /\ phase[r] = "measured"
    /\ cb' = RecordRequest(cb, age[r], success)
    /\ phase' = [phase EXCEPT ![r] = "idle"]
    /\ trials' = IF cb'.state = "half_open" THEN trials \ {r} ELSE {}
    /\ sinceFail' = IF success THEN sinceFail ELSE 0
    /\ age' = [age EXCEPT ![r] = 0]
    /\ waited' = [waited EXCEPT ![r] = 0]

(* An admitted request that returns without reporting. *)
Abandon(r) ==
    /\ phase[r] = "proxied"
    /\ phase' = [phase EXCEPT ![r] = "idle"]
    /\ trials' = trials \ {r}
    /\ age' = [age EXCEPT ![r] = 0]
    /\ UNCHANGED <<cb, waited, sinceFail>>

Tick ==
    /\ cb' = [cb EXCEPT !.since = Older(@)]
    /\ age' = [r \in Requests |->
                 IF phase[r] \in {"arrived", "proxied"} THEN Older(age[r]) ELSE age[r]]
    /\ waited' = [r \in Requests |->
                    IF phase[r] = "measured" THEN Older(waited[r]) ELSE waited[r]]
    /\ sinceFail' = Older(sinceFail)
    /\ UNCHANGED <<phase, trials>>

Next ==
    \/ Tick
    \/ \E r \in Requests :
          \/ Arrive(r)
          \/ Admit(r)
          \/ Refuse(r)
          \/ Measure(r)
          \/ \E success \in BOOLEAN : Report(r, success)
          \/ Abandon(r)

Spec == Init /\ [][Next]_vars

(* Time passes, and traffic for the target does not dry up.  Nothing is    *)
(* assumed of the target: a proxied request may stay out forever.          *)
FairSpec ==
    /\ Spec
    /\ WF_vars(Tick)
    /\ \A r \in Requests : WF_vars(Arrive(r)) /\ WF_vars(Admit(r) \/ Refuse(r))

------------------------------------------------------------------------------
(* Properties *)

(* A target gets no request until Cooling has passed since the last        *)
(* failure anyone reported, whatever the order in which late answers of    *)
(* earlier requests came in (Allow, RecordRequest's !success branch).      *)
QuietAfterFailure ==
    [][\A r \in Requests : Admit(r) => sinceFail > Cooling]_vars

(* An answer to a request from before the circuit opened may arrive while  *)
(* it is half-open; it must not pass for a trial (RecordRequest's          *)
(* half-open branch).  A success that counts towards closing the circuit   *)
(* belongs to a request sent in this half-open period, with one way out    *)
(* that the code leaves open: the duration is read before cb.mu is taken,  *)
(* so a request held up between the two for all of the cooling period but  *)
(* the SLO (4s of the 5s) is counted by the duration it had then.          *)
OnlyTrialsCount ==
    [][(cb.state = "half_open" /\ cb'.state # "open")
          => \A r \in Requests, success \in BOOLEAN :
                Report(r, success) => r \in trials \/ waited[r] > Cooling - SLO]_vars

(* A closed circuit never sits on a window that breaches the SLO: the      *)
(* samples that opened it are gone when it closes, and a new breach opens  *)
(* it in the step that completes it (RecordRequest).                       *)
ClosedWithinSLO == cb.state = "closed" => ~Breached(cb.latencies)

(* An open circuit does not stay open: once cooled down, traffic turns it  *)
(* half-open, however often late failures restart the cooling (Allow).     *)
OpenIsProbed == cb.state = "open" ~> cb.state = "half_open"

GoodReport == \E r \in Requests : age[r] <= SLO /\ Report(r, TRUE)

BadReport == \E r \in Requests : Report(r, FALSE) \/ (age[r] > SLO /\ Report(r, TRUE))

(* Once a target answers well, and keeps being reported, the circuit       *)
(* closes for good (the half-open branch of RecordRequest).                *)
RecoveryCloses ==
    (<>[][~BadReport]_vars /\ []<><<GoodReport>>_vars) => <>[](cb.state = "closed")

------------------------------------------------------------------------------
(* The inductive invariant behind QuietAfterFailure and OnlyTrialsCount. *)

(* A breaker that admits has been quiet for the cooling period. *)
QuietUnlessOpen == cb.state # "open" => sinceFail > Cooling

(* Requests that were admitted and have not reported. *)
Out(r) == phase[r] \in {"proxied", "measured"}

(* While open, nobody was admitted since the trip and no failure followed  *)
(* it, so every request that is out started before the open period.        *)
OpenOutlived ==
    cb.state = "open" =>
        /\ sinceFail >= cb.since
        /\ \A r \in Requests : Out(r) => age[r] + waited[r] >= cb.since

(* While half-open, a request that is out and no trial started more than   *)
(* the cooling period ago: it is too slow to be counted, or was measured   *)
(* long before.                                                            *)
StaleIsSlow ==
    cb.state = "half_open" =>
        \A r \in Requests : Out(r) /\ r \notin trials => age[r] + waited[r] > Cooling

(* Only a measured request has waited. *)
WaitedIsMeasured == \A r \in Requests : phase[r] # "measured" => waited[r] = 0

IInv ==
    /\ TypeOK
    /\ QuietUnlessOpen
    /\ OpenOutlived
    /\ StaleIsSlow
    /\ WaitedIsMeasured
    /\ ClosedWithinSLO
==============================================================================
