----------------------------- MODULE CanaryProofs -----------------------------
(***************************************************************************)
(* Proofs about the canary's promotion and rollback, for any number of     *)
(* requests and deployments, any step and any configured weights, of any   *)
(* number of targets, that are not negative.                               *)
(***************************************************************************)
EXTENDS Canary, SequenceTheorems, TLAPS

(* The live deployment gets new weights. *)
Rewrite(s, c) ==
    /\ weights' = [weights EXCEPT ![live] = [stable |-> s, canary |-> c,
                                              others |-> weights[live].others]]
    /\ s \in Nat
    /\ c \in Nat

(* The other deployments keep theirs, and no deployment is added. *)
LEMMA RewriteFacts ==
    ASSUME TypeOK, NEW s, NEW c, Rewrite(s, c)
    PROVE  /\ weights' \in Seq(Weights)
           /\ Len(weights') = live
           /\ live' = live
           /\ live \in 1..live
           /\ weights'[live].stable = s
           /\ weights'[live].canary = c
           /\ weights'[live].others = weights[live].others
           /\ \A g \in 1..live : g # live => weights'[g] = weights[g]
<1>1. live \in 1..live /\ live \in Nat
  BY CanaryAssumption DEF TypeOK, CanaryAssumption, live
<1> DEFINE w == [stable |-> s, canary |-> c, others |-> weights[live].others]
<1>2. w \in Weights /\ w.stable = s /\ w.canary = c /\ w.others = weights[live].others
  <2>1. weights[live] \in Weights
    BY <1>1 DEF TypeOK, live
  <2> QED
    BY <2>1 DEF Rewrite, Weights
<1>3. weights' = [weights EXCEPT ![live] = w]
  BY DEF Rewrite
<1> HIDE DEF w
<1>4. weights' \in [1..live -> Weights]
  BY <1>1, <1>2, <1>3 DEF TypeOK, live
<1>5. weights' \in Seq(Weights) /\ Len(weights') = live
  BY <1>1, <1>4
<1>6. weights'[live] = w
  BY <1>1, <1>3 DEF TypeOK, live
<1>7. \A g \in 1..live : g # live => weights'[g] = weights[g]
  BY <1>1, <1>3 DEF TypeOK, live
<1> QED
  BY <1>1, <1>2, <1>5, <1>6, <1>7 DEF live

(* What the live deployment's weights are, and the two assignments to them. *)
LEMMA LiveWeights ==
    ASSUME TypeOK
    PROVE  /\ live \in 1..live /\ live \in Nat /\ live = Len(weights)
           /\ weights[live] \in Weights
           /\ weights[live].stable \in Nat /\ weights[live].canary \in Nat
           /\ weights[live].others \in Nat
<1>1. live \in 1..live /\ live \in Nat /\ live = Len(weights)
  BY CanaryAssumption DEF TypeOK, CanaryAssumption, live
<1>2. weights[live] \in Weights
  BY <1>1 DEF TypeOK
<1>3. /\ weights[live].stable \in Nat /\ weights[live].canary \in Nat
      /\ weights[live].others \in Nat
  BY <1>2 DEF Weights
<1> QED
  BY <1>1, <1>2, <1>3

(* A write of one weight is such a rewrite: the stable one, *)
LEMMA SetStable ==
    ASSUME TypeOK, NEW s \in Nat, weights' = [weights EXCEPT ![live].stable = s]
    PROVE  Rewrite(s, weights[live].canary)
<1> DEFINE w == [stable |-> s, canary |-> weights[live].canary, others |-> weights[live].others]
<1>1. [weights[live] EXCEPT !.stable = s] = w
  BY LiveWeights DEF Weights
<1>2. weights' = [weights EXCEPT ![live] = w]
  BY <1>1, LiveWeights DEF TypeOK
<1> QED
  BY <1>2, LiveWeights DEF Rewrite

(* and the canary's. *)
LEMMA SetCanary ==
    ASSUME TypeOK, NEW c \in Nat, weights' = [weights EXCEPT ![live].canary = c]
    PROVE  Rewrite(weights[live].stable, c)
<1> DEFINE w == [stable |-> weights[live].stable, canary |-> c, others |-> weights[live].others]
<1>1. [weights[live] EXCEPT !.canary = c] = w
  BY LiveWeights DEF Weights
<1>2. weights' = [weights EXCEPT ![live] = w]
  BY <1>1, LiveWeights DEF TypeOK
<1> QED
  BY <1>2, LiveWeights DEF Rewrite

(* While the loop works on the live deployment it is not rolled back, and  *)
(* a target other than the canary has some weight unless it was configured *)
(* without; so no request that read a zero there depends on the canary.    *)
(* The other deployments are as they were.                                 *)
LEMMA RewriteInv ==
    ASSUME IInv, loop \in {"deciding", "rolling", "clamping", "balancing"},
           NEW s, NEW c, Rewrite(s, c), UNCHANGED <<request, config>>
    PROVE  /\ ReadsPlaced' /\ AlwaysWeighted'
           /\ Sound(config[live]) => Weighted(weights[live])
           /\ \A g \in rolled : g # live /\ weights'[g].canary = 0
           /\ \A g \in 1..live : g # live =>
                 /\ weights'[g] = config[g] \/ Settled(weights'[g])
                 /\ Sound(config[g]) => Sound(weights'[g])
<1> USE DEF IInv
<1>1. Sound(config[live]) => Weighted(weights[live])
  BY LiveWeights, CanaryAssumption DEF WeightsPlaced, Sound, Weighted, CanaryAssumption
<1>2. ReadsPlaced'
  <2> SUFFICES ASSUME NEW r \in Requests, pc[r] = "summing", acc[r] = 0, Sound(config[gen[r]])
               PROVE  \/ weights'[gen[r]].others > 0
                      \/ weights'[gen[r]].stable = 0 /\ weights'[gen[r]].canary >= Full
    BY DEF ReadsPlaced, request
  <2>1. gen[r] \in 1..live
    BY DEF TypeOK
  <2>2. \/ weights[gen[r]].others > 0
        \/ weights[gen[r]].stable = 0 /\ weights[gen[r]].canary >= Full
    BY DEF ReadsPlaced
  <2>3. CASE gen[r] # live
    BY <2>1, <2>2, <2>3, RewriteFacts
  <2>4. CASE gen[r] = live
    <3>1. weights[live].others > 0
      BY <1>1, <2>2, <2>4, LiveWeights DEF Weighted
    <3> QED
      BY <2>4, <3>1, RewriteFacts
  <2> QED
    BY <2>3, <2>4
<1>3. AlwaysWeighted'
  BY DEF AlwaysWeighted, request
<1>4. \A g \in rolled : g \in 1..live /\ g # live
  BY DEF RolledPlaced, TypeOK
<1>5. \A g \in rolled : weights'[g].canary = 0
  BY <1>4, RewriteFacts DEF RolledPlaced
<1>6. \A g \in 1..live : g # live =>
        /\ weights'[g] = config[g] \/ Settled(weights'[g])
        /\ Sound(config[g]) => Sound(weights'[g])
  BY RewriteFacts DEF WeightsPlaced
<1> QED
  BY <1>1, <1>2, <1>3, <1>4, <1>5, <1>6

(* A rollback gives the stable version its full weight first. *)
LEMMA RollBackInv == ASSUME IInv, RollBack PROVE IInv'
<1> USE DEF IInv
<1>1. /\ loop = "deciding" /\ loop' = "rolling" /\ seen' = NoStats /\ ownSeen' = None
      /\ UNCHANGED <<auto, last, stats, request, config, rolled, own, foreign>>
  BY DEF RollBack, LoopGoto
<1>2. Rewrite(Full, weights[live].canary)
  <2>1. Full \in Nat
    BY CanaryAssumption DEF CanaryAssumption
  <2> QED
    BY <2>1, SetStable DEF RollBack
<1>3. TypeOK'
  BY <1>1, <1>2, RewriteFacts
     DEF TypeOK, request, LoopPC, NoStats, None, Stats, Counts, live
<1>4. WeightsPlaced'
  <2>1. weights[live].canary < Full
    BY <1>1 DEF WeightsPlaced
  <2> QED
    BY <1>1, <1>2, <2>1, RewriteFacts, RewriteInv, LiveWeights, CanaryAssumption
       DEF WeightsPlaced, Sound, Weighted, CanaryAssumption
<1>5. ReadsPlaced' /\ AlwaysWeighted'
  BY <1>1, <1>2, RewriteInv
<1>6. RolledPlaced'
  BY <1>1, <1>2, RewriteFacts, RewriteInv DEF RolledPlaced
<1>7. CountsPlaced'
  BY <1>1 DEF CountsPlaced
<1> QED
  BY <1>3, <1>4, <1>5, <1>6, <1>7

(* Then it takes the canary's: whoever read before it still finds a        *)
(* target.                                                                 *)
LEMMA RollBackCanaryInv == ASSUME IInv, RollBackCanary PROVE IInv'
<1> USE DEF IInv
<1>1. /\ loop = "rolling" /\ loop' = "forgetting"
      /\ auto' = [auto EXCEPT ![live] = FALSE] /\ rolled' = rolled \cup {live}
      /\ UNCHANGED <<last, seen, stats, request, config, own, ownSeen, foreign>>
  BY DEF RollBackCanary, LoopGoto
<1>2. Rewrite(Full, 0)
  <2>1. weights[live].stable = Full
    BY <1>1 DEF WeightsPlaced
  <2> QED
    BY <2>1, SetCanary DEF RollBackCanary
<1>3. /\ auto' \in Seq(BOOLEAN) /\ Len(auto') = live /\ ~auto'[live]
      /\ \A g \in 1..live : g # live => auto'[g] = auto[g]
  BY <1>1, LiveWeights DEF TypeOK
<1>4. TypeOK'
  BY <1>1, <1>2, <1>3, RewriteFacts DEF TypeOK, request, LoopPC, live
<1>5. WeightsPlaced'
  BY <1>1, <1>2, RewriteFacts, RewriteInv, LiveWeights, CanaryAssumption
     DEF WeightsPlaced, Settled, Sound, Weighted, CanaryAssumption
<1>6. ReadsPlaced' /\ AlwaysWeighted'
  BY <1>1, <1>2, RewriteInv
<1>7. RolledPlaced'
  BY <1>1, <1>2, <1>3, RewriteFacts, RewriteInv DEF RolledPlaced, TypeOK
<1>8. CountsPlaced'
  BY <1>1 DEF CountsPlaced
<1> QED
  BY <1>4, <1>5, <1>6, <1>7, <1>8

(* The canary's step, which may lead past the full weight. *)
LEMMA PromoteInv == ASSUME IInv, Promote PROVE IInv'
<1> USE DEF IInv
<1>1. /\ loop = "deciding" /\ loop' = "clamping" /\ ownSeen' = None
      /\ seen' = [NoStats EXCEPT !.exists = seen.exists]
      /\ UNCHANGED <<auto, last, stats, request, config, rolled, own, foreign>>
  BY DEF Promote, LoopGoto
<1>2. weights[live].canary < Full
  BY <1>1, LiveWeights DEF WeightsPlaced
<1>3. Rewrite(weights[live].stable, weights[live].canary + Step)
  <2>1. weights[live].canary + Step \in Nat
    BY LiveWeights, CanaryAssumption DEF CanaryAssumption
  <2> QED
    BY <2>1, SetCanary DEF Promote
<1>4. TypeOK'
  <2>1. seen' \in Stats /\ ownSeen' \in Counts
    BY <1>1 DEF TypeOK, NoStats, None, Stats, Counts
  <2> QED
    BY <1>1, <1>3, <2>1, RewriteFacts DEF TypeOK, request, LoopPC, live
<1>5. WeightsPlaced'
  BY <1>1, <1>2, <1>3, RewriteFacts, RewriteInv, LiveWeights, CanaryAssumption
     DEF WeightsPlaced, Settled, Sound, Weighted, CanaryAssumption
<1>6. ReadsPlaced' /\ AlwaysWeighted'
  BY <1>1, <1>3, RewriteInv
<1>7. RolledPlaced'
  BY <1>1, <1>3, RewriteFacts, RewriteInv DEF RolledPlaced
<1>8. CountsPlaced'
  BY <1>1 DEF CountsPlaced
<1> QED
  BY <1>4, <1>5, <1>6, <1>7, <1>8

(* A canary past the full weight is brought down to it. *)
LEMMA ClampInv == ASSUME IInv, Clamp PROVE IInv'
<1> USE DEF IInv
<1>1. /\ loop = "clamping" /\ loop' = "balancing"
      /\ UNCHANGED <<auto, last, seen, stats, request, config, rolled, own, ownSeen, foreign>>
  BY DEF Clamp, LoopGoto, history
<1> DEFINE c == IF weights[live].canary > Full THEN Full ELSE weights[live].canary
<1>2. c \in 0..Full
  BY LiveWeights, CanaryAssumption DEF CanaryAssumption
<1>3. weights' = [weights EXCEPT ![live].canary = c]
  BY DEF Clamp
<1> HIDE DEF c
<1>4. Rewrite(weights[live].stable, c)
  <2>1. c \in Nat
    BY <1>2, CanaryAssumption DEF CanaryAssumption
  <2> QED
    BY <1>3, <2>1, SetCanary
<1>5. TypeOK'
  BY <1>1, <1>4, RewriteFacts DEF TypeOK, request, LoopPC, live
<1>6. WeightsPlaced'
  BY <1>1, <1>2, <1>4, RewriteFacts, RewriteInv, LiveWeights, CanaryAssumption
     DEF WeightsPlaced, Sound, Weighted, CanaryAssumption
<1>7. ReadsPlaced' /\ AlwaysWeighted'
  BY <1>1, <1>4, RewriteInv
<1>8. RolledPlaced'
  BY <1>1, <1>4, RewriteFacts, RewriteInv DEF RolledPlaced
<1>9. CountsPlaced'
  BY <1>1 DEF CountsPlaced
<1> QED
  BY <1>5, <1>6, <1>7, <1>8, <1>9

(* The stable version gets what is left, and the sum is right again. *)
LEMMA BalanceInv == ASSUME IInv, Balance PROVE IInv'
<1> USE DEF IInv
<1>1. /\ loop = "balancing" /\ loop' = "resetting" /\ last' = "recent"
      /\ UNCHANGED <<auto, seen, stats, request, config, rolled, own, ownSeen, foreign>>
  BY DEF Balance, LoopGoto, history
<1>2. weights[live].canary \in 0..Full
  BY <1>1, LiveWeights, CanaryAssumption DEF WeightsPlaced, CanaryAssumption
<1>3. Rewrite(Full - weights[live].canary, weights[live].canary)
  <2>1. Full - weights[live].canary \in Nat
    BY <1>2, CanaryAssumption DEF CanaryAssumption
  <2> QED
    BY <2>1, SetStable DEF Balance
<1>4. TypeOK'
  BY <1>1, <1>3, RewriteFacts DEF TypeOK, request, LoopPC, live
<1>5. WeightsPlaced'
  BY <1>1, <1>2, <1>3, RewriteFacts, RewriteInv, LiveWeights, CanaryAssumption
     DEF WeightsPlaced, Settled, Sound, Weighted, CanaryAssumption
<1>6. ReadsPlaced' /\ AlwaysWeighted'
  BY <1>1, <1>3, RewriteInv
<1>7. RolledPlaced'
  BY <1>1, <1>3, RewriteFacts, RewriteInv DEF RolledPlaced
<1>8. CountsPlaced'
  BY <1>1 DEF CountsPlaced
<1> QED
  BY <1>4, <1>5, <1>6, <1>7, <1>8

(* The steps of the loop, and of time, that leave the weights alone. *)
Look ==
    \/ Complete \/ ReadStats \/ ForgetStats \/ Wait \/ ResetStats \/ Elapse

(* They change the statistics, and so what the loop decides on. *)
LEMMA LookInv == ASSUME IInv, Look PROVE IInv'
<1> USE DEF IInv
<1>1. UNCHANGED <<weights, request, config, rolled>>
  BY DEF Look, Complete, ReadStats, ForgetStats, Wait, ResetStats, Elapse, history
<1>2. /\ stats' \in Stats /\ seen' \in Stats /\ own' \in Counts /\ ownSeen' \in Counts
      /\ foreign' \in BOOLEAN /\ last' \in {"never", "recent", "due"} /\ loop' \in LoopPC
  <2>1. /\ NoStats \in Stats /\ None \in Counts
        /\ [NoStats EXCEPT !.exists = TRUE] \in Stats
    BY DEF NoStats, None, Stats, Counts
  <2>2. CASE Complete
    BY <2>2 DEF TypeOK, Complete, history
  <2>3. CASE ReadStats
    BY <2>3 DEF TypeOK, ReadStats, LoopGoto, LoopPC
  <2>4. CASE ForgetStats
    BY <2>1, <2>4 DEF TypeOK, ForgetStats, LoopGoto, LoopPC
  <2>5. CASE Wait
    BY <2>1, <2>5 DEF TypeOK, Wait, LoopGoto, LoopPC
  <2>6. CASE ResetStats
    BY <2>1, <2>6 DEF TypeOK, ResetStats, LoopGoto, LoopPC
  <2>7. CASE Elapse
    BY <2>7 DEF TypeOK, Elapse, history
  <2> QED
    BY <2>2, <2>3, <2>4, <2>5, <2>6, <2>7 DEF Look
<1>3. /\ auto' \in Seq(BOOLEAN) /\ Len(auto') = live
      /\ \A g \in 1..live : auto'[g] => auto[g]
  <2>1. CASE Complete
    BY <2>1, LiveWeights DEF Complete, TypeOK
  <2>2. CASE UNCHANGED auto
    BY <2>2 DEF TypeOK
  <2> QED
    BY <2>1, <2>2 DEF Look, ReadStats, ForgetStats, Wait, ResetStats, Elapse
<1>4. TypeOK'
  BY <1>1, <1>2, <1>3 DEF TypeOK, request, live
<1>5. WeightsPlaced'
  BY <1>1 DEF Look, Complete, ReadStats, ForgetStats, Wait, ResetStats, Elapse, LoopGoto,
              WeightsPlaced, live
<1>6. ReadsPlaced' /\ AlwaysWeighted'
  BY <1>1 DEF ReadsPlaced, AlwaysWeighted, request
<1>7. RolledPlaced'
  <2> SUFFICES ASSUME NEW g \in rolled
               PROVE  ~auto'[g] /\ (g = live => loop' \in {"waiting", "forgetting"})
    BY <1>1 DEF RolledPlaced, live
  <2>1. g \in 1..live /\ ~auto[g] /\ (g = live => loop \in {"waiting", "forgetting"})
    BY DEF RolledPlaced, TypeOK
  <2>2. g = live => loop' \in {"waiting", "forgetting"}
    BY <2>1 DEF Look, Complete, ReadStats, ForgetStats, Wait, ResetStats, Elapse, LoopGoto
  <2> QED
    BY <1>3, <2>1, <2>2
<1>8. CountsPlaced'
  <2>1. CASE Complete \/ Elapse
    BY <2>1 DEF Complete, Elapse, history, CountsPlaced
  <2>2. CASE ReadStats
    BY <2>2 DEF ReadStats, CountsPlaced, SameCounts
  <2>3. CASE ForgetStats
    BY <2>3 DEF ForgetStats, LoopGoto, CountsPlaced, SameCounts, NoStats, None
  <2>4. CASE Wait
    BY <2>4 DEF Wait, LoopGoto, CountsPlaced, SameCounts
  <2>5. CASE ResetStats /\ seen.exists
    BY <2>5 DEF ResetStats, LoopGoto, CountsPlaced, SameCounts, NoStats, None
  <2>6. CASE ResetStats /\ ~seen.exists
    BY <2>6 DEF ResetStats, LoopGoto, CountsPlaced, SameCounts
  <2> QED
    BY <2>1, <2>2, <2>3, <2>4, <2>5, <2>6 DEF Look
<1> QED
  BY <1>4, <1>5, <1>6, <1>7, <1>8

(* A deployment starts with its configured weights and with the URL's      *)
(* statistics.                                                             *)
LEMMA DeployInv == ASSUME IInv, Deploy PROVE IInv'
<1> USE DEF IInv
<1>1. /\ loop = "waiting" /\ live < MaxDeploys /\ own' = None /\ foreign' = (stats.total > 0)
      /\ auto' = Append(auto, TRUE)
      /\ UNCHANGED <<last, loop, seen, stats, request, rolled, ownSeen>>
  BY DEF Deploy
<1>2. PICK w \in Reconfigured : weights' = Append(weights, w) /\ config' = Append(config, w)
  BY DEF Deploy
<1>3. w \in Weights
  BY CanaryAssumption DEF CanaryAssumption
<1>4. /\ weights' \in Seq(Weights) /\ Len(weights') = live + 1 /\ live' = live + 1
      /\ weights'[live + 1] = w
      /\ \A g \in 1..live : weights'[g] = weights[g]
  BY <1>2, <1>3 DEF TypeOK, live
<1>12. /\ config' \in Seq(Weights) /\ Len(config') = live + 1
       /\ config'[live + 1] = w
       /\ \A g \in 1..live : config'[g] = config[g]
  BY <1>2, <1>3 DEF TypeOK
<1>5. /\ auto' \in Seq(BOOLEAN) /\ Len(auto') = live + 1
      /\ \A g \in 1..live : auto'[g] = auto[g]
  <2>1. auto \in Seq(BOOLEAN) /\ Len(auto) = live /\ TRUE \in BOOLEAN
    BY DEF TypeOK
  <2>2. Append(auto, TRUE) \in Seq(BOOLEAN)
    BY <2>1, AppendProperties
  <2>3. /\ Len(Append(auto, TRUE)) = live + 1
        /\ \A g \in 1..live : Append(auto, TRUE)[g] = auto[g]
    BY <2>1, AppendProperties
  <2> QED
    BY <1>1, <2>2, <2>3
<1>6. /\ live \in Nat /\ live + 1 \in 1..MaxDeploys /\ 1..live \subseteq 1..live + 1
      /\ live + 1 \notin 1..live /\ 1..live + 1 = 1..live \cup {live + 1}
  BY <1>1, LiveWeights, CanaryAssumption DEF CanaryAssumption
<1>7. TypeOK'
  <2>1. own' \in Counts /\ foreign' \in BOOLEAN
    BY <1>1 DEF Counts, None
  <2> QED
    BY <1>1, <1>4, <1>5, <1>6, <1>12, <2>1 DEF TypeOK, request
<1>8. WeightsPlaced'
  BY <1>1, <1>3, <1>4, <1>6, <1>12 DEF WeightsPlaced
<1>9. ReadsPlaced' /\ AlwaysWeighted'
  BY <1>1, <1>4, <1>12 DEF TypeOK, ReadsPlaced, AlwaysWeighted, request
<1>10. RolledPlaced'
  BY <1>1, <1>4, <1>5, <1>6 DEF TypeOK, RolledPlaced
<1>11. CountsPlaced'
  <2>1. stats.total \in Nat /\ stats.errors \in Nat /\ stats.errors <= stats.total
    BY DEF TypeOK, Stats, CountsPlaced
  <2>2. ~foreign' => SameCounts(stats, None)
    <3>1. ~foreign' => ~(stats.total > 0)
      BY <1>1
    <3> QED
      BY <2>1, <3>1 DEF SameCounts, None
  <2>3. stats' = stats /\ own' = None /\ loop' # "deciding"
    BY <1>1
  <2> QED
    BY <2>1, <2>2, <2>3 DEF CountsPlaced, SameCounts
<1> QED
  BY <1>7, <1>8, <1>9, <1>10, <1>11

------------------------------------------------------------------------------
(* Requests.  The weights, the loop and what it rolled back stay. *)

(* A request moves alone. *)
LEMMA ServeFacts ==
    ASSUME IInv, NEW r \in Requests, Serve(r)
    PROVE  /\ UNCHANGED engine /\ UNCHANGED <<config, rolled, ownSeen>>
           /\ gen' \in [Requests -> 1..live]
           /\ \A q \in Requests \ {r} : /\ pc'[q] = pc[q] /\ gen'[q] = gen[q]
                                        /\ acc'[q] = acc[q] /\ draw'[q] = draw[q]
                                        /\ target'[q] = target[q]
<1> USE DEF IInv
<1>1. UNCHANGED engine /\ UNCHANGED <<config, rolled, ownSeen>>
  BY DEF Serve, Match, SumStable, SumCanary, TryStable, TryCanary, Record, Leave, history
<1>2. gen' \in [Requests -> 1..live]
  <2>1. live \in 1..live /\ 1 \in 1..live
    BY LiveWeights
  <2>2. UNCHANGED gen \/ gen' = [gen EXCEPT ![r] = live] \/ gen' = [gen EXCEPT ![r] = 1]
    BY DEF Serve, Match, SumStable, SumCanary, TryStable, TryCanary, Record, Leave, Done
  <2> QED
    BY <2>1, <2>2 DEF TypeOK
<1>3. ASSUME NEW q \in Requests \ {r}
      PROVE  /\ pc'[q] = pc[q] /\ gen'[q] = gen[q] /\ acc'[q] = acc[q]
             /\ draw'[q] = draw[q] /\ target'[q] = target[q]
  <2>1. CASE Match(r)
    BY <2>1 DEF Match, Goto, TypeOK
  <2>2. CASE SumStable(r)
    BY <2>2 DEF SumStable, Goto, TypeOK
  <2>3. CASE SumCanary(r)
    BY <2>3 DEF SumCanary, Goto, TypeOK
  <2>4. CASE TryStable(r)
    BY <2>4 DEF TryStable, Goto, TypeOK
  <2>5. CASE TryCanary(r)
    BY <2>5 DEF TryCanary, Goto, TypeOK
  <2>6. CASE Record(r) \/ Leave(r)
    BY <2>6 DEF Record, Leave, Done, Goto, TypeOK
  <2> QED
    BY <2>1, <2>2, <2>3, <2>4, <2>5, <2>6 DEF Serve
<1> QED
  BY <1>1, <1>2, <1>3

(* What a request reads, and where that takes it. *)
LEMMA ReadFacts ==
    ASSUME IInv, NEW r \in Requests
    PROVE  /\ gen[r] \in 1..live
           /\ weights[gen[r]].stable \in Nat
           /\ weights[gen[r]].canary \in Nat
           /\ weights[gen[r]].others \in Nat
           /\ weights[gen[r]].stable = 0 /\ Sound(config[gen[r]]) =>
                 weights[gen[r]].others > 0 \/ weights[gen[r]].canary >= Full
<1> USE DEF IInv
<1>1. gen[r] \in 1..live /\ live = Len(weights) /\ live \in Nat
  BY LiveWeights DEF TypeOK
<1>2. weights[gen[r]] \in Weights
  BY <1>1 DEF TypeOK
<1>3. /\ weights[gen[r]].stable \in Nat /\ weights[gen[r]].canary \in Nat
      /\ weights[gen[r]].others \in Nat
  BY <1>2 DEF Weights
<1>4. Sound(config[gen[r]]) => Sound(weights[gen[r]])
  BY <1>1 DEF WeightsPlaced
<1> QED
  BY <1>1, <1>3, <1>4 DEF Sound, Weighted

(* What it has read so far fits the weights as they are now. *)
LEMMA ServeReads ==
    ASSUME IInv, NEW r \in Requests, Serve(r)
    PROVE  /\ pc' \in [Requests -> PC]
           /\ acc' \in [Requests -> Int]
           /\ draw' \in [Requests -> Nat]
           /\ target' \in [Requests -> {"stable", "canary", "other", "none"}]
           /\ pc'[r] = "summing" =>
                 /\ acc'[r] \in Nat
                 /\ acc'[r] = 0 /\ Sound(config[gen'[r]]) =>
                       \/ weights[gen'[r]].others > 0
                       \/ weights[gen'[r]].stable = 0 /\ weights[gen'[r]].canary >= Full
           /\ pc'[r] = "second" => draw'[r] >= acc'[r]
           /\ pc'[r] = "selected" /\ Sound(config[gen'[r]]) => target'[r] # "none"
<1> USE DEF IInv, PC
<1>1. CASE Match(r)
  BY <1>1 DEF Match, Goto, TypeOK
<1>2. CASE SumStable(r)
  <2>1. /\ pc' = [pc EXCEPT ![r] = "summing"] /\ UNCHANGED <<gen, draw, target>>
        /\ acc' = [acc EXCEPT ![r] = weights[gen[r]].stable]
    BY <1>2 DEF SumStable, Goto
  <2>2. weights[gen[r]].stable \in Int
    BY ReadFacts
  <2>3. acc' \in [Requests -> Int] /\ acc'[r] = weights[gen[r]].stable
    BY <2>1, <2>2 DEF TypeOK
  <2> QED
    BY <2>1, <2>3, ReadFacts DEF TypeOK
<1>3. CASE SumCanary(r)
  <2> DEFINE total == acc[r] + weights[gen[r]].canary + weights[gen[r]].others
  <2>1. pc[r] = "summing" /\ acc' = [acc EXCEPT ![r] = 0] /\ UNCHANGED gen
    BY <1>3 DEF SumCanary, Goto
  <2>2. total \in Int /\ (Sound(config[gen[r]]) => total > 0)
    BY <2>1, ReadFacts, CanaryAssumption DEF ReadsPlaced, CanaryAssumption
  <2>3. CASE total > 0
    <3>1. /\ pc' = [pc EXCEPT ![r] = "drawn"] /\ target' = target
          /\ \E n \in 0..total - 1 : draw' = [draw EXCEPT ![r] = n]
      BY <1>3, <2>3 DEF SumCanary, Goto
    <3> HIDE DEF total
    <3>2. draw' \in [Requests -> Nat]
      BY <2>2, <3>1 DEF TypeOK
    <3> QED
      BY <2>1, <3>1, <3>2 DEF TypeOK
  <2>4. CASE ~(total > 0)
    <3>1. /\ pc' = [pc EXCEPT ![r] = "selected"] /\ draw' = draw
          /\ target' = [target EXCEPT ![r] = "none"]
      BY <1>3, <2>4 DEF SumCanary, Goto
    <3>2. ~Sound(config[gen'[r]])
      BY <2>1, <2>2, <2>4
    <3> QED
      BY <2>1, <3>1, <3>2 DEF TypeOK
  <2> QED
    BY <2>3, <2>4
<1>4. CASE TryStable(r)
  <2>1. CASE draw[r] < weights[gen[r]].stable
    <3>1. /\ pc' = [pc EXCEPT ![r] = "selected"] /\ UNCHANGED acc
          /\ target' = [target EXCEPT ![r] = "stable"] /\ draw' = [draw EXCEPT ![r] = 0]
      BY <1>4, <2>1 DEF TryStable, Goto
    <3> QED
      BY <3>1 DEF TypeOK
  <2>2. CASE ~(draw[r] < weights[gen[r]].stable)
    <3>1. /\ pc' = [pc EXCEPT ![r] = "second"] /\ UNCHANGED <<target, draw>>
          /\ acc' = [acc EXCEPT ![r] = weights[gen[r]].stable]
      BY <1>4, <2>2 DEF TryStable, Goto
    <3>2. weights[gen[r]].stable \in Int /\ draw[r] \in Int
      BY ReadFacts DEF TypeOK
    <3>3. draw[r] >= weights[gen[r]].stable
      BY <2>2, <3>2
    <3> QED
      BY <3>1, <3>2, <3>3 DEF TypeOK
  <2> QED
    BY <2>1, <2>2
<1>5. CASE TryCanary(r)
  BY <1>5 DEF TryCanary, Goto, TypeOK
<1>6. CASE Record(r) \/ Leave(r)
  BY <1>6 DEF Record, Leave, Done, Goto, TypeOK
<1> QED
  BY <1>1, <1>2, <1>3, <1>4, <1>5, <1>6 DEF Serve

(* Counting a call. *)
LEMMA CountedFacts ==
    ASSUME NEW failed \in BOOLEAN
    PROVE  /\ \A s \in Stats : LET t == [Counted(s, failed) EXCEPT !.exists = TRUE]
                             IN  /\ t \in Stats /\ t.total = s.total + 1
                                 /\ t.errors = IF failed THEN s.errors + 1 ELSE s.errors
           /\ \A s \in Counts : LET t == Counted(s, failed)
                              IN  /\ t \in Counts /\ t.total = s.total + 1
                                  /\ t.errors = IF failed THEN s.errors + 1 ELSE s.errors
<1>1. \A s : s \in Stats \/ s \in Counts =>
              /\ s.total + 1 \in Nat
              /\ (IF failed THEN s.errors + 1 ELSE s.errors) \in Nat
  BY DEF Stats, Counts
<1>2. ASSUME NEW s \in Stats
      PROVE  LET t == [Counted(s, failed) EXCEPT !.exists = TRUE]
             IN  /\ t \in Stats /\ t.total = s.total + 1
                 /\ t.errors = IF failed THEN s.errors + 1 ELSE s.errors
  <2> DEFINE n == s.total + 1
             e == IF failed THEN s.errors + 1 ELSE s.errors
  <2>1. Counted(s, failed) = [s EXCEPT !.total = n, !.errors = e]
    BY DEF Counted
  <2>2. n \in Nat /\ e \in Nat
    BY <1>1
  <2> HIDE DEF n, e
  <2>3. LET t == [[s EXCEPT !.total = n, !.errors = e] EXCEPT !.exists = TRUE]
        IN  t \in Stats /\ t.total = n /\ t.errors = e
    BY <2>2 DEF Stats
  <2>4. LET t == [Counted(s, failed) EXCEPT !.exists = TRUE]
        IN  t \in Stats /\ t.total = n /\ t.errors = e
    BY <2>1, <2>3
  <2> QED
    BY <2>4 DEF n, e
<1>3. ASSUME NEW s \in Counts
      PROVE  LET t == Counted(s, failed)
             IN  /\ t \in Counts /\ t.total = s.total + 1
                 /\ t.errors = IF failed THEN s.errors + 1 ELSE s.errors
  <2> DEFINE n == s.total + 1
             e == IF failed THEN s.errors + 1 ELSE s.errors
  <2>1. Counted(s, failed) = [s EXCEPT !.total = n, !.errors = e]
    BY DEF Counted
  <2>2. n \in Nat /\ e \in Nat
    BY <1>1
  <2> HIDE DEF n, e
  <2>3. LET t == [s EXCEPT !.total = n, !.errors = e]
        IN  t \in Counts /\ t.total = n /\ t.errors = e
    BY <2>2 DEF Counts
  <2>4. LET t == Counted(s, failed)
        IN  t \in Counts /\ t.total = n /\ t.errors = e
    BY <2>1, <2>3
  <2> QED
    BY <2>4 DEF n, e
<1> QED
  BY <1>2, <1>3

(* What it adds to the statistics it adds to those of the deployment too. *)
LEMMA ServeCounts ==
    ASSUME IInv, NEW r \in Requests, Serve(r)
    PROVE  /\ stats' \in Stats /\ own' \in Counts /\ foreign' \in BOOLEAN
           /\ CountsPlaced'
<1> USE DEF IInv
<1>1. CASE Record(r)
  <2>1. /\ foreign' = (foreign \/ gen[r] # live)
        /\ UNCHANGED <<loop, seen, ownSeen>>
    BY <1>1 DEF Record, engine
  <2>2. PICK failed \in BOOLEAN :
            /\ stats' = [Counted(stats, failed) EXCEPT !.exists = TRUE]
            /\ own' = IF foreign' THEN None ELSE Counted(own, failed)
    BY <1>1 DEF Record
  <2>3. stats \in Stats /\ own \in Counts /\ foreign \in BOOLEAN
    BY DEF TypeOK
  <2>4. /\ stats' \in Stats /\ stats'.total = stats.total + 1
        /\ stats'.errors = IF failed THEN stats.errors + 1 ELSE stats.errors
    BY <2>2, <2>3, CountedFacts
  <2>5. own' \in Counts
    <3>1. None \in Counts
      BY DEF None, Counts
    <3> QED
      BY <2>2, <2>3, <3>1, CountedFacts
  <2>6. foreign' \in BOOLEAN /\ (~foreign' => ~foreign)
    BY <2>1, <2>3
  <2>7. ~foreign' => /\ own'.total = own.total + 1
                     /\ own'.errors = IF failed THEN own.errors + 1 ELSE own.errors
    BY <2>2, <2>3, CountedFacts
  <2>8. stats'.errors <= stats'.total
    BY <2>3, <2>4 DEF CountsPlaced, Stats
  <2>9. ~foreign' => stats'.total = own'.total /\ stats'.errors = own'.errors
    BY <2>4, <2>6, <2>7 DEF CountsPlaced, SameCounts
  <2> QED
    BY <2>1, <2>4, <2>5, <2>6, <2>8, <2>9 DEF CountsPlaced, SameCounts
<1>2. CASE UNCHANGED <<engine, stats, history>>
  BY <1>2 DEF TypeOK, CountsPlaced, engine, history
<1> QED
  BY <1>1, <1>2 DEF Serve, Match, SumStable, SumCanary, TryStable, TryCanary, Leave

(* So every step of a request keeps the invariant. *)
LEMMA ServeInv == ASSUME IInv, NEW r \in Requests, Serve(r) PROVE IInv'
<1> USE DEF IInv
<1>1. /\ UNCHANGED <<weights, auto, last, loop, seen, config, rolled, ownSeen>>
      /\ gen' \in [Requests -> 1..live]
  BY ServeFacts DEF engine
<1>2. TypeOK'
  BY <1>1, ServeReads, ServeCounts DEF TypeOK, live
<1>3. WeightsPlaced' /\ RolledPlaced'
  BY <1>1 DEF WeightsPlaced, RolledPlaced, live
<1>4. ReadsPlaced'
  <2> SUFFICES ASSUME NEW q \in Requests
               PROVE  /\ pc'[q] = "summing" => acc'[q] \in Nat
                      /\ pc'[q] = "summing" /\ acc'[q] = 0 /\ Sound(config[gen'[q]]) =>
                            \/ weights[gen'[q]].others > 0
                            \/ weights[gen'[q]].stable = 0 /\ weights[gen'[q]].canary >= Full
                      /\ pc'[q] = "second" => draw'[q] >= acc'[q]
    BY <1>1 DEF ReadsPlaced
  <2>1. CASE q = r
    BY <2>1, ServeReads
  <2>2. CASE q # r
    BY <2>2, ServeFacts DEF ReadsPlaced
  <2> QED
    BY <2>1, <2>2
<1>5. AlwaysWeighted'
  BY ServeFacts, ServeReads DEF AlwaysWeighted
<1> QED
  BY <1>2, <1>3, <1>4, <1>5, ServeCounts

(* The first deployment. *)
LEMMA InitIInv == ASSUME Init PROVE IInv
<1>1. PICK w \in Configured : weights = <<w>> /\ config = <<w>>
  BY DEF Init
<1>2. w \in Weights /\ NoStats \in Stats /\ None \in Counts
  BY CanaryAssumption DEF CanaryAssumption, NoStats, None, Stats, Counts
<1>3. /\ weights \in Seq(Weights) /\ live = 1 /\ weights[1] = w
      /\ config \in Seq(Weights) /\ Len(config) = 1 /\ config[1] = w
  BY <1>1, <1>2 DEF live
<1>4. auto \in Seq(BOOLEAN) /\ Len(auto) = 1
  BY DEF Init
<1>5. TypeOK
  <2>1. 1 \in 1..MaxDeploys
    BY CanaryAssumption DEF CanaryAssumption
  <2>2. pc \in [Requests -> PC] /\ loop \in LoopPC
    BY DEF Init, PC, LoopPC
  <2>3. gen \in [Requests -> 1..live] /\ rolled \subseteq 1..live
    BY <1>3 DEF Init
  <2>4. /\ stats \in Stats /\ seen \in Stats /\ own \in Counts /\ ownSeen \in Counts
        /\ foreign \in BOOLEAN /\ last \in {"never", "recent", "due"}
    BY <1>2 DEF Init
  <2>5. /\ acc \in [Requests -> Int] /\ draw \in [Requests -> Nat]
        /\ target \in [Requests -> {"stable", "canary", "other", "none"}]
    BY DEF Init
  <2> QED
    BY <1>3, <1>4, <2>1, <2>2, <2>3, <2>4, <2>5 DEF TypeOK
<1>6. WeightsPlaced
  BY <1>2, <1>3 DEF Init, WeightsPlaced
<1>7. ReadsPlaced /\ AlwaysWeighted
  BY DEF Init, ReadsPlaced, AlwaysWeighted
<1>8. RolledPlaced
  BY DEF Init, RolledPlaced
<1>9. CountsPlaced
  BY DEF Init, CountsPlaced, SameCounts, NoStats, None
<1> QED
  BY <1>5, <1>6, <1>7, <1>8, <1>9 DEF IInv

(* The steps together. *)
LEMMA NextIInv == ASSUME IInv, [Next]_vars PROVE IInv'
<1>1. CASE Look
  BY <1>1, LookInv
<1>2. CASE RollBack \/ RollBackCanary
  BY <1>2, RollBackInv, RollBackCanaryInv
<1>3. CASE Promote \/ Clamp \/ Balance
  BY <1>3, PromoteInv, ClampInv, BalanceInv
<1>4. CASE Deploy
  BY <1>4, DeployInv
<1>5. CASE \E r \in Requests : Serve(r)
  BY <1>5, ServeInv
<1>6. CASE UNCHANGED vars
  BY <1>6 DEF vars, engine, request, history, IInv, TypeOK, live, WeightsPlaced, ReadsPlaced,
              AlwaysWeighted, RolledPlaced, CountsPlaced
<1> QED
  BY <1>1, <1>2, <1>3, <1>4, <1>5, <1>6 DEF Next, Pass, Look

------------------------------------------------------------------------------

(* The inductive invariant of the loop and the requests: what the weights, *)
(* the reads under way and the statistics are at each place of the loop.   *)
THEOREM CanaryInvariant == Spec => []IInv
<1> QED
  BY InitIInv, NextIInv, PTL DEF Spec

(* Whatever the loop writes between two of its reads, a request finds a    *)
(* weighted target (selectTarget), unless the route was configured with    *)
(* all of its weight, or none, on a canary below 100 percent.              *)
THEOREM RequestsFindTarget == Spec => []AlwaysWeighted
<1>1. IInv => AlwaysWeighted
  BY DEF IInv
<1> QED
  BY <1>1, CanaryInvariant, PTL

(* Between two passes of the loop every deployment's weights stand as      *)
(* configured, or the two that the loop writes split 100 percent.          *)
THEOREM PassesKeepTheSum == Spec => []WeightsAddUp
<1>1. IInv => WeightsAddUp
  BY DEF IInv, WeightsPlaced, WeightsAddUp, Settled
<1> QED
  BY <1>1, CanaryInvariant, PTL

(* What a step does to a deployment that was rolled back: its canary gets  *)
(* no weight, and a request that ends its selection in the step did not    *)
(* take it.                                                                *)
LEMMA RollbackStep ==
    ASSUME IInv, [Next]_vars
    PROVE  /\ \A g \in rolled : weights'[g].canary = 0
           /\ \A r \in Requests :
                 pc[r] # "selected" /\ pc'[r] = "selected" /\ gen[r] \in rolled
                    => target'[r] # "canary"
<1>1. rolled \subseteq rolled'
  BY ServeFacts DEF Next, Pass, Complete, ReadStats, RollBack, RollBackCanary, ForgetStats, Wait,
     Promote, Clamp, Balance, ResetStats, Deploy, Elapse, history, vars
<1>2. \A g \in rolled : weights'[g].canary = 0
  BY <1>1, NextIInv DEF IInv, RolledPlaced
<1>3. ASSUME NEW r \in Requests, pc[r] # "selected", pc'[r] = "selected", gen[r] \in rolled
      PROVE  target'[r] # "canary"
  <2>1. Serve(r)
    <3>1. \A q \in Requests : Serve(q) => q = r
      BY <1>3, ServeFacts
    <3> QED
      BY <1>3, <3>1 DEF Next, Pass, Complete, ReadStats, RollBack, RollBackCanary, ForgetStats,
         Wait, Promote, Clamp, Balance, ResetStats, Deploy, Elapse, request, vars
  <2>2. pc \in [Requests -> PC] /\ target \in [Requests -> {"stable", "canary", "other", "none"}]
    BY DEF IInv, TypeOK
  <2>3. CASE SumCanary(r)
    BY <1>3, <2>2, <2>3 DEF SumCanary, Goto
  <2>4. CASE TryStable(r)
    BY <1>3, <2>2, <2>4 DEF TryStable, Goto
  <2>5. CASE TryCanary(r)
    <3>1. pc[r] = "second" /\ (~(draw[r] < acc[r] + weights[gen[r]].canary)
                                => target'[r] # "canary")
      BY <2>2, <2>5 DEF TryCanary, Goto
    <3>2. draw[r] >= acc[r] /\ draw[r] \in Int /\ acc[r] \in Int /\ weights[gen[r]].canary = 0
      BY <1>3, <3>1 DEF IInv, TypeOK, ReadsPlaced, RolledPlaced
    <3>3. ~(draw[r] < acc[r] + weights[gen[r]].canary)
      BY <3>2
    <3> QED
      BY <2>2, <3>1, <3>3
  <2>6. ~Match(r) /\ ~SumStable(r) /\ ~Record(r) /\ ~Leave(r)
    BY <1>3, <2>2 DEF Match, SumStable, Record, Leave, Done, Goto
  <2> QED
    BY <2>1, <2>3, <2>4, <2>5, <2>6 DEF Serve
<1> QED
  BY <1>2, <1>3

(* A rollback holds: the canary of that deployment never gets weight again *)
(* and no selection that was under way still takes it.                     *)
THEOREM RollbackIsForGood == Spec => RollbackHolds
<1>1. IInv /\ [Next]_vars =>
        [/\ \A g \in rolled : weights'[g].canary = 0
         /\ \A r \in Requests :
               pc[r] # "selected" /\ pc'[r] = "selected" /\ gen[r] \in rolled
                  => target'[r] # "canary"]_vars
  BY RollbackStep
<1> QED
  BY <1>1, CanaryInvariant, PTL DEF Spec, RollbackHolds

(* The loop decides on the calls of its own deployment, unless earlier     *)
(* ones are left in the statistics.                                        *)
THEOREM DecisionsAreOwn == Spec => DecidesOnOwnCalls
<1>1. IInv /\ [Next]_vars =>
        [~foreign /\ loop = "deciding" =>
            /\ Promote => ~Breach(ownSeen)
            /\ RollBack => Breach(ownSeen)]_vars
  <2> SUFFICES ASSUME IInv, ~foreign, loop = "deciding"
               PROVE  /\ Promote => ~Breach(ownSeen)
                      /\ RollBack => Breach(ownSeen)
    OBVIOUS
  <2>1. seen.total = ownSeen.total /\ seen.errors = ownSeen.errors
    BY DEF IInv, CountsPlaced, SameCounts
  <2>2. Breach(seen) <=> Breach(ownSeen)
    BY <2>1 DEF Breach
  <2> QED
    BY <2>2 DEF Promote, RollBack
<1> QED
  BY <1>1, CanaryInvariant, PTL DEF Spec, DecidesOnOwnCalls
==============================================================================
