-------------------------------- MODULE Canary --------------------------------
(***************************************************************************)
(* Canary deployments of one route: the promotion loop                     *)
(* (src/pkg/proxy/canary.go), the weighted choice of a target and the      *)
(* statistics kept of the canary's answers (src/pkg/proxy/handler.go).     *)
(*                                                                         *)
(* The loop works under routesMu, but requests read the weights without    *)
(* it, through a copy of the route that shares the array of its weighted   *)
(* targets; so every write of a weight, and every read, is a step.  The    *)
(* statistics are kept by URL under a lock of their own, and outlive the   *)
(* deployment of the route.                                                *)
(***************************************************************************)
EXTENDS Integers, Sequences

CONSTANTS Requests,      \* goroutines serving requests of the route
          Full,          \* 100 percent
          Step,          \* CanaryPromoteStep
          MinCalls,      \* calls needed for a rollback (3)
          MaxErrorRate,  \* CanaryMaxErrorRate, in percent
          Configured,    \* the weights the route is first configured with: nothing checks them
          Reconfigured,  \* the weights it is configured with anew
          MaxDeploys,    \* bound on deployments of the route
          MaxCalls       \* bound on calls counted between two resets

(* TargetsWeighted: the loop writes the first weight and the second, the   *)
(* canary's; the further targets keep theirs, and only their sum matters.  *)
Weights == [stable : Nat, canary : Nat, others : Nat]

ASSUME CanaryAssumption ==
    /\ Full \in Nat \ {0}
    /\ Step \in Nat \ {0}
    /\ MinCalls \in Nat \ {0}
    /\ Configured \subseteq Weights
    /\ Reconfigured \subseteq Weights
    /\ MaxDeploys \in Nat \ {0}

VARIABLES
    weights,  \* weights[g]: TargetsWeighted of the g-th deployment of the route
    auto,     \* auto[g]: its CanaryAutoPromote
    stats,    \* h.canaryStats at the canary's URL, or NoStats
    last,     \* lastPromoted of the route: "never", "recent" or "due" again
    loop,     \* where the promotion loop is; it holds routesMu unless "waiting"
    seen,     \* the statistics the loop read; once it has decided, only that there are any
    pc,       \* pc[r]: where the request of goroutine r is
    gen,      \* gen[r]: the deployment whose array r's copy of the route shares
    acc,      \* acc[r]: totalWeight, then accum
    draw,     \* draw[r]: the random number drawn
    target,   \* target[r]: selectedTarget; "none" if no weighted target was taken
    config,   \* history: config[g]: the weights the g-th deployment was configured with
    rolled,   \* history: the deployments that were rolled back
    foreign,  \* history: the statistics hold calls of an earlier deployment
    own,      \* history: otherwise, calls of this deployment since the last reset
    ownSeen   \* history: own when the loop read the statistics

engine  == <<weights, auto, last, loop, seen>>
request == <<pc, gen, acc, draw, target>>
history == <<config, rolled, own, ownSeen, foreign>>
vars    == <<engine, stats, request, history>>

NoStats == [exists |-> FALSE, total |-> 0, errors |-> 0]

Counts == [total : Nat, errors : Nat]

None == [total |-> 0, errors |-> 0]

Stats == [exists : BOOLEAN, total : Nat, errors : Nat]

live == Len(weights)

LoopPC == {"waiting", "deciding", "rolling", "forgetting", "clamping", "balancing", "resetting"}

PC == {"idle", "matched", "summing", "drawn", "second", "selected"}

TypeOK ==
    /\ weights \in Seq(Weights)
    /\ live \in 1..MaxDeploys
    /\ auto \in Seq(BOOLEAN) /\ Len(auto) = live
    /\ stats \in Stats
    /\ last \in {"never", "recent", "due"}
    /\ loop \in LoopPC
    /\ seen \in Stats
    /\ pc \in [Requests -> PC]
    /\ gen \in [Requests -> 1..live]
    /\ acc \in [Requests -> Int]
    /\ draw \in [Requests -> Nat]
    /\ target \in [Requests -> {"stable", "canary", "other", "none"}]
    /\ config \in Seq(Weights) /\ Len(config) = live
    /\ rolled \subseteq 1..live
    /\ own \in Counts
    /\ ownSeen \in Counts
    /\ foreign \in BOOLEAN

Init ==
    /\ weights \in {<<w>> : w \in Configured}
    /\ config = weights
    /\ auto = <<TRUE>>
    /\ stats = NoStats
    /\ last = "never"
    /\ loop = "waiting"
    /\ seen = NoStats
    /\ pc = [r \in Requests |-> "idle"]
    /\ gen = [r \in Requests |-> 1]
    /\ acc = [r \in Requests |-> 0]
    /\ draw = [r \in Requests |-> 0]
    /\ target = [r \in Requests |-> "none"]
    /\ rolled = {}
    /\ own = None
    /\ ownSeen = None
    /\ foreign = FALSE

------------------------------------------------------------------------------
(* startCanaryPromotionLoop: one pass over the route *)

(* errors / total > maxErrRate, once there are enough calls. *)
Breach(s) == s.total >= MinCalls /\ s.errors * 100 > MaxErrorRate * s.total

LoopGoto(from, to) ==
    /\ loop = from
    /\ loop' = to

(* Mutant: a canary at 100 percent is watched like any other. *)
ReadAlways ==
    /\ LoopGoto("waiting", "deciding")
    /\ auto[live]
    /\ seen' = stats
    /\ ownSeen' = own
    /\ UNCHANGED <<weights, auto, last, stats, request, config, rolled, own, foreign>>

(* The canary has everything: no more promotion. *)
Complete ==
    /\ loop = "waiting"
    /\ auto[live]
    /\ weights[live].canary >= Full
    /\ auto' = [auto EXCEPT ![live] = FALSE]
    /\ UNCHANGED <<weights, last, loop, seen, stats, request, history>>

(* canaryStatsMu: read the statistics. *)
ReadStats ==
    /\ LoopGoto("waiting", "deciding")
    /\ auto[live]
    /\ weights[live].canary < Full
    /\ seen' = stats
    /\ ownSeen' = own
    /\ UNCHANGED <<weights, auto, last, stats, request, config, rolled, own, foreign>>

(* stable.Weight = 100 *)
RollBack ==
    /\ LoopGoto("deciding", "rolling")
    /\ Breach(seen)
    /\ weights' = [weights EXCEPT ![live].stable = Full]
    /\ seen' = NoStats
    /\ ownSeen' = None
    /\ UNCHANGED <<auto, last, stats, request, config, rolled, own, foreign>>

(* Mutant: the rollback leaves the canary to be promoted again. *)
RollBackKeepsAuto ==
    /\ LoopGoto("rolling", "forgetting")
    /\ weights' = [weights EXCEPT ![live].canary = 0]
    /\ rolled' = rolled \cup {live}
    /\ UNCHANGED <<auto, last, seen, stats, request, config, own, ownSeen, foreign>>

(* canary.Weight = 0; CanaryAutoPromote = false *)
RollBackCanary ==
    /\ LoopGoto("rolling", "forgetting")
    /\ weights' = [weights EXCEPT ![live].canary = 0]
    /\ auto' = [auto EXCEPT ![live] = FALSE]
    /\ rolled' = rolled \cup {live}
    /\ UNCHANGED <<last, seen, stats, request, config, own, ownSeen, foreign>>

(* canaryStatsMu: delete(h.canaryStats, canary.URL) *)
ForgetStats ==
    /\ LoopGoto("forgetting", "waiting")
    /\ stats' = NoStats
    /\ own' = None
    /\ foreign' = FALSE
    /\ UNCHANGED <<weights, auto, last, seen, request, config, rolled, ownSeen>>

(* Mutant: every pass that does not promote restarts the interval. *)
WaitRestarts ==
    /\ LoopGoto("deciding", "waiting")
    /\ ~Breach(seen)
    /\ last' = "recent"
    /\ seen' = NoStats
    /\ ownSeen' = None
    /\ UNCHANGED <<weights, auto, stats, request, config, rolled, own, foreign>>

(* The first pass over this prefix starts the interval; later ones wait    *)
(* for its end.                                                            *)
Wait ==
    /\ LoopGoto("deciding", "waiting")
    /\ ~Breach(seen)
    /\ last # "due"
    /\ last' = "recent"
    /\ seen' = NoStats
    /\ ownSeen' = None
    /\ UNCHANGED <<weights, auto, stats, request, config, rolled, own, foreign>>

(* canary.Weight += step *)
Promote ==
    /\ LoopGoto("deciding", "clamping")
    /\ ~Breach(seen)
    /\ last = "due"
    /\ weights' = [weights EXCEPT ![live].canary = @ + Step]
    /\ seen' = [NoStats EXCEPT !.exists = seen.exists]
    /\ ownSeen' = None
    /\ UNCHANGED <<auto, last, stats, request, config, rolled, own, foreign>>

(* Mutant: the weight may exceed 100. *)
NoClamp ==
    /\ LoopGoto("clamping", "balancing")
    /\ UNCHANGED <<weights, auto, last, seen, stats, request, history>>

(* if canary.Weight > 100 { canary.Weight = 100 } *)
Clamp ==
    /\ LoopGoto("clamping", "balancing")
    /\ weights' = [weights EXCEPT ![live].canary = IF @ > Full THEN Full ELSE @]
    /\ UNCHANGED <<auto, last, seen, stats, request, history>>

(* stable.Weight = 100 - canary.Weight; lastPromoted[route.Prefix] = now *)
Balance ==
    /\ LoopGoto("balancing", "resetting")
    /\ weights' = [weights EXCEPT ![live].stable = Full - weights[live].canary]
    /\ last' = "recent"
    /\ UNCHANGED <<auto, seen, stats, request, history>>

(* canaryStatsMu: the record read in this pass starts from zero; one that  *)
(* was created since then is not known to the loop and keeps its counts.   *)
ResetStats ==
    /\ LoopGoto("resetting", "waiting")
    /\ stats' = IF seen.exists THEN [NoStats EXCEPT !.exists = TRUE] ELSE stats
    /\ own' = IF seen.exists THEN None ELSE own
    /\ foreign' = (foreign /\ ~seen.exists)
    /\ seen' = NoStats
    /\ UNCHANGED <<weights, auto, last, request, config, rolled, ownSeen>>

------------------------------------------------------------------------------
(* Requests *)

Goto(r, from, to) ==
    /\ pc[r] = from
    /\ pc' = [pc EXCEPT ![r] = to]

(* The route is copied under routesMu. *)
Match(r) ==
    /\ loop = "waiting"
    /\ Goto(r, "idle", "matched")
    /\ gen' = [gen EXCEPT ![r] = live]
    /\ UNCHANGED <<engine, stats, acc, draw, target, history>>

(* selectTarget: totalWeight is read weight by weight (those that are      *)
(* never written, with the canary's) ...                                   *)
SumStable(r) ==
    /\ Goto(r, "matched", "summing")
    /\ acc' = [acc EXCEPT ![r] = weights[gen[r]].stable]
    /\ UNCHANGED <<engine, stats, gen, draw, target, history>>

(* ... a number is drawn below it, if it is positive ... *)
SumCanary(r) ==
    LET totalWeight == acc[r] + weights[gen[r]].canary + weights[gen[r]].others
    IN  /\ acc' = [acc EXCEPT ![r] = 0]
        /\ IF totalWeight > 0
           THEN /\ Goto(r, "summing", "drawn")
                /\ \E n \in 0..totalWeight - 1 : draw' = [draw EXCEPT ![r] = n]
                /\ UNCHANGED target
           ELSE /\ Goto(r, "summing", "selected")
                /\ target' = [target EXCEPT ![r] = "none"]
                /\ UNCHANGED draw
        /\ UNCHANGED <<engine, stats, gen, history>>

(* ... and the weights are read again to find whose it is; the first       *)
(* target takes what is left over.                                         *)
TryStable(r) ==
    LET accum == weights[gen[r]].stable
    IN  /\ IF draw[r] < accum
           THEN /\ Goto(r, "drawn", "selected")
                /\ target' = [target EXCEPT ![r] = "stable"]
                /\ draw' = [draw EXCEPT ![r] = 0]
                /\ UNCHANGED acc
           ELSE /\ Goto(r, "drawn", "second")
                /\ acc' = [acc EXCEPT ![r] = accum]
                /\ UNCHANGED <<target, draw>>
        /\ UNCHANGED <<engine, stats, gen, history>>

TryCanary(r) ==
    LET accum == acc[r] + weights[gen[r]].canary
    IN  /\ Goto(r, "second", "selected")
        /\ target' = [target EXCEPT ![r] =
                         IF draw[r] < accum THEN "canary"
                         ELSE IF draw[r] < accum + weights[gen[r]].others THEN "other"
                         ELSE "stable"]
        /\ acc' = [acc EXCEPT ![r] = 0]
        /\ draw' = [draw EXCEPT ![r] = 0]
        /\ UNCHANGED <<engine, stats, gen, history>>

(* The handler returns and its copy of the route is gone. *)
Done(r) ==
    /\ Goto(r, "selected", "idle")
    /\ target' = [target EXCEPT ![r] = "none"]
    /\ gen' = [gen EXCEPT ![r] = 1]

Counted(s, failed) == [s EXCEPT !.total = @ + 1, !.errors = IF failed THEN @ + 1 ELSE @]

(* Mutant: a success is not counted as a call. *)
RecordErrorsOnly(r) ==
    /\ target[r] = "canary"
    /\ stats.total < MaxCalls
    /\ Done(r)
    /\ foreign' = (foreign \/ gen[r] # live)
    /\ \E failed \in BOOLEAN :
          /\ stats' = IF failed THEN [Counted(stats, failed) EXCEPT !.exists = TRUE] ELSE stats
          /\ own' = IF foreign' THEN None ELSE Counted(own, failed)
    /\ UNCHANGED <<engine, acc, draw, config, rolled, ownSeen>>

(* The canary's answer is counted, in a record of its own if there is none. *)
Record(r) ==
    /\ target[r] = "canary"
    /\ stats.total < MaxCalls
    /\ Done(r)
    /\ foreign' = (foreign \/ gen[r] # live)
    /\ \E failed \in BOOLEAN :
          /\ stats' = [Counted(stats, failed) EXCEPT !.exists = TRUE]
          /\ own' = IF foreign' THEN None ELSE Counted(own, failed)
    /\ UNCHANGED <<engine, acc, draw, config, rolled, ownSeen>>

(* Not a canary's answer, or none that gets as far as the statistics: the  *)
(* breaker is open, the target a bridge or a tunnel, the handler panics.   *)
Leave(r) ==
    /\ Done(r)
    /\ UNCHANGED <<engine, stats, acc, draw, history>>

------------------------------------------------------------------------------
(* The route is configured anew, with the same targets: UpdateRoutes or    *)
(* RegisterRoute, for this route or for any other one of the stored        *)
(* configuration.                                                          *)
Deploy ==
    /\ loop = "waiting"
    /\ live < MaxDeploys
    /\ \E w \in Reconfigured :
          /\ weights' = Append(weights, w)
          /\ config' = Append(config, w)
    /\ auto' = Append(auto, TRUE)
    /\ foreign' = (stats.total > 0)
    /\ own' = None
    /\ UNCHANGED <<last, loop, seen, stats, request, rolled, ownSeen>>

(* The promotion interval ends. *)
Elapse ==
    /\ last = "recent"
    /\ last' = "due"
    /\ UNCHANGED <<weights, auto, loop, seen, stats, request, history>>

Pass ==
    \/ Complete \/ ReadStats \/ RollBack \/ RollBackCanary \/ ForgetStats
    \/ Wait \/ Promote \/ Clamp \/ Balance \/ ResetStats

Serve(r) ==
    \/ Match(r) \/ SumStable(r) \/ SumCanary(r) \/ TryStable(r) \/ TryCanary(r)
    \/ Record(r) \/ Leave(r)

Next == Pass \/ Deploy \/ Elapse \/ \E r \in Requests : Serve(r)

Spec == Init /\ [][Next]_vars

(* The ticker fires every 200 ms and time passes; nothing makes requests   *)
(* arrive or end.                                                          *)
FairSpec == Spec /\ WF_vars(Pass) /\ WF_vars(Elapse)

------------------------------------------------------------------------------
(* Properties *)

(* Configured weights that leave no moment without a weighted target: some *)
(* target other than the canary has a weight, or the canary has everything *)
(* from the start and the loop lets go of it.                              *)
Weighted(w) == w.stable > 0 \/ w.others > 0
Sound(w)    == Weighted(w) \/ w.canary >= Full

(* Whatever the loop writes while a request reads the weights one by one,  *)
(* the sum it sees is not zero, and it does not fall through to the        *)
(* route's unweighted target, which it need not have (selectTarget).  The  *)
(* exception is a route configured with all of its weight, or none, on a   *)
(* canary below 100 percent: there a request that reads the stable weight  *)
(* before a rollback and the canary's after it finds none.                 *)
AlwaysWeighted ==
    \A r \in Requests :
        pc[r] = "selected" /\ Sound(config[gen[r]]) => target[r] # "none"

(* The two weights the loop writes split 100 percent, whatever the further *)
(* targets have on top of that.                                            *)
Settled(w) == w.canary \in 0..Full /\ w.stable = Full - w.canary

(* Between two passes the weights of every deployment either stand as they *)
(* were configured, whatever they are, or split 100 percent, at the last   *)
(* promotion too, when the step does not fit, and after a rollback.        *)
WeightsAddUp ==
    loop = "waiting" =>
        \A g \in 1..live : weights[g] = config[g] \/ Settled(weights[g])

(* A rollback is for good: the canary of that deployment gets no weight    *)
(* again, and no request selects it any more, however much of its          *)
(* selection it did before.                                                *)
RollbackHolds ==
    [][/\ \A g \in rolled : weights'[g].canary = 0
       /\ \A r \in Requests :
             pc[r] # "selected" /\ pc'[r] = "selected" /\ gen[r] \in rolled
                => target'[r] # "canary"]_vars

(* The loop promotes or rolls back by the calls of the current deployment  *)
(* since the last promotion that were counted before it looked: it never   *)
(* promotes over a breach and never rolls back without one, unless calls   *)
(* of an earlier deployment of the same URL are left in the statistics,    *)
(* which nothing removes.  Calls counted between the look and the reset    *)
(* are in neither decision.                                                *)
DecidesOnOwnCalls ==
    [][~foreign /\ loop = "deciding" =>
          /\ Promote => ~Breach(ownSeen)
          /\ RollBack => Breach(ownSeen)]_vars

(* What makes them inductive.  Only the live deployment, and only while    *)
(* the loop is changing it, neither stands as configured nor adds up, and  *)
(* then a target other than the canary keeps some weight until the canary  *)
(* has its new one.                                                        *)
WeightsPlaced ==
    /\ \A g \in 1..live :
          /\ g # live \/ loop \in {"waiting", "deciding", "forgetting", "resetting"}
                => weights[g] = config[g] \/ Settled(weights[g])
          /\ Sound(config[g]) => Sound(weights[g])
    /\ loop = "deciding" => weights[live].canary < Full
    /\ loop = "rolling" => weights[live].stable = Full
    /\ loop \in {"clamping", "balancing"} /\ Sound(config[live]) => Weighted(weights[live])
    /\ loop \in {"rolling", "balancing"} => weights[live].canary <= Full

(* A request that read a stable weight of zero reads some other weight, or *)
(* a canary that has everything, and one that passed the stable target     *)
(* over drew a larger number.                                              *)
ReadsPlaced ==
    \A r \in Requests :
        /\ pc[r] = "summing" => acc[r] \in Nat
        /\ pc[r] = "summing" /\ acc[r] = 0 /\ Sound(config[gen[r]]) =>
              \/ weights[gen[r]].others > 0
              \/ weights[gen[r]].stable = 0 /\ weights[gen[r]].canary >= Full
        /\ pc[r] = "second" => draw[r] >= acc[r]

(* The loop has let go of a deployment it rolled back. *)
RolledPlaced ==
    \A g \in rolled :
        /\ weights[g].canary = 0
        /\ ~auto[g]
        /\ g = live => loop \in {"waiting", "forgetting"}

SameCounts(s, t) == s.total = t.total /\ s.errors = t.errors

(* Without calls of an earlier deployment, the statistics are the own ones. *)
CountsPlaced ==
    /\ stats.errors <= stats.total
    /\ ~foreign => SameCounts(stats, own)
    /\ ~foreign /\ loop = "deciding" => SameCounts(seen, ownSeen)

(* The inductive invariant of the promotion loop and the requests. *)
IInv ==
    /\ TypeOK
    /\ WeightsPlaced
    /\ ReadsPlaced
    /\ AlwaysWeighted
    /\ RolledPlaced
    /\ CountsPlaced

(* A deployment does not stay in between: unless it is replaced, its       *)
(* canary gets everything or nothing in the end, and the loop lets go of   *)
(* it.                                                                     *)
CanarySettles ==
    auto[live] ~> ~auto[live] /\ (weights[live].canary = 0 \/ weights[live].canary >= Full)
==============================================================================
