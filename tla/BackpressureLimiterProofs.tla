----------------------- MODULE BackpressureLimiterProofs -----------------------
(***************************************************************************)
(* What holds of the limiter for any number of requests, slots and places. *)
(***************************************************************************)
EXTENDS BackpressureLimiter, FiniteSetTheorems, TLAPS

SlotPlace  == {"granted", "holding"}
QueuePlace == {"queued", "granted", "gaveup"}

(* A request that moves joins or leaves the two sets of token holders      *)
(* according to the place it moves to.                                     *)
LEMMA GotoFacts ==
    ASSUME TypeOK, NEW r \in Requests, NEW from \in Place, NEW to \in Place,
           Goto(r, from, to)
    PROVE  /\ at' \in [Requests -> Place]
           /\ r \in SlotHolders <=> from \in SlotPlace
           /\ r \in QueueHolders <=> from \in QueuePlace
           /\ SlotHolders' = IF to \in SlotPlace THEN SlotHolders \cup {r}
                                                 ELSE SlotHolders \ {r}
           /\ QueueHolders' = IF to \in QueuePlace THEN QueueHolders \cup {r}
                                                   ELSE QueueHolders \ {r}
BY DEF TypeOK, Goto, SlotHolders, QueueHolders, SlotPlace, QueuePlace

(* What each action does to the counters and to the sets. *)
LEMMA StepFacts ==
    ASSUME TypeOK, NEW r \in Requests, Acquire(r) \/ Release(r) \/ Answer(r)
    PROVE  /\ at' \in [Requests -> Place]
           /\ \/ /\ r \notin SlotHolders
                 /\ SlotHolders' = SlotHolders \cup {r}
                 /\ sem < MaxConcurrent /\ sem' = sem + 1
                 /\ QueueHolders' = QueueHolders /\ queue' = queue
              \/ /\ r \in SlotHolders \ QueueHolders
                 /\ SlotHolders' = SlotHolders \ {r}
                 /\ sem > 0 /\ sem' = sem - 1
                 /\ QueueHolders' = QueueHolders /\ queue' = queue
              \/ /\ r \notin SlotHolders \cup QueueHolders
                 /\ QueueHolders' = QueueHolders \cup {r}
                 /\ queue < MaxQueue /\ queue' = queue + 1
                 /\ SlotHolders' = SlotHolders /\ sem' = sem
              \/ /\ r \in QueueHolders
                 /\ QueueHolders' = QueueHolders \ {r}
                 /\ queue > 0 /\ queue' = queue - 1
                 /\ SlotHolders' = SlotHolders /\ sem' = sem
              \/ /\ SlotHolders' = SlotHolders /\ sem' = sem
                 /\ QueueHolders' = QueueHolders /\ queue' = queue
<1> USE GotoFacts DEF Place, SlotPlace, QueuePlace
<1>1. CASE TakeSlot(r)
  BY <1>1 DEF TakeSlot
<1>2. CASE NoSlot(r)
  BY <1>2 DEF NoSlot
<1>3. CASE Enqueue(r)
  BY <1>3 DEF Enqueue
<1>4. CASE QueueFull(r)
  BY <1>4 DEF QueueFull
<1>5. CASE GetSlot(r)
  BY <1>5 DEF GetSlot
<1>6. CASE GiveUp(r)
  BY <1>6 DEF GiveUp
<1>7. CASE LeaveQueue(r)
  <2>1. CASE Goto(r, "granted", "holding")
    BY <1>7, <2>1 DEF LeaveQueue
  <2>2. CASE Goto(r, "gaveup", "timeout")
    BY <1>7, <2>2 DEF LeaveQueue
  <2> QED
    BY <1>7, <2>1, <2>2 DEF LeaveQueue
<1>8. CASE Release(r)
  BY <1>8 DEF Release
<1>9. CASE Answer(r)
  <2>1. CASE Goto(r, "full", "out")
    BY <1>9, <2>1 DEF Answer
  <2>2. CASE Goto(r, "timeout", "out")
    BY <1>9, <2>2 DEF Answer
  <2> QED
    BY <1>9, <2>1, <2>2 DEF Answer
<1> QED
  BY <1>1, <1>2, <1>3, <1>4, <1>5, <1>6, <1>7, <1>8, <1>9 DEF Acquire

(* The initial states have no holder. *)
LEMMA InitIInv == Init => IInv
<1> SUFFICES ASSUME Init PROVE IInv
  OBVIOUS
<1>1. TypeOK
  BY LimiterAssumption DEF Init, TypeOK, Place
<1>2. SlotHolders = {} /\ QueueHolders = {}
  BY DEF Init, SlotHolders, QueueHolders
<1> QED
  BY <1>1, <1>2, FS_EmptySet DEF Init, IInv, TokensAccounted

(* Every step moves a token and its holder together. *)
LEMMA NextIInv == IInv /\ [Next]_limiterVars => IInv'
<1> SUFFICES ASSUME IInv, [Next]_limiterVars PROVE IInv'
  OBVIOUS
<1>1. CASE UNCHANGED limiterVars
  BY <1>1 DEF limiterVars, IInv, TypeOK, TokensAccounted, SlotHolders, QueueHolders
<1>2. ASSUME NEW r \in Requests, Acquire(r) \/ Release(r) \/ Answer(r)
      PROVE  IInv'
  <2>0. /\ TypeOK
        /\ sem \in 0..MaxConcurrent /\ queue \in 0..MaxQueue
        /\ IsFiniteSet(SlotHolders) /\ Cardinality(SlotHolders) = sem
        /\ IsFiniteSet(QueueHolders) /\ Cardinality(QueueHolders) = queue
    BY DEF IInv, TypeOK, TokensAccounted
  <2>1. /\ IsFiniteSet(SlotHolders \cup {r}) /\ IsFiniteSet(SlotHolders \ {r})
        /\ r \notin SlotHolders => Cardinality(SlotHolders \cup {r}) = sem + 1
        /\ r \in SlotHolders => Cardinality(SlotHolders \ {r}) = sem - 1
    BY <2>0, FS_AddElement, FS_RemoveElement
  <2>2. /\ IsFiniteSet(QueueHolders \cup {r}) /\ IsFiniteSet(QueueHolders \ {r})
        /\ r \notin QueueHolders => Cardinality(QueueHolders \cup {r}) = queue + 1
        /\ r \in QueueHolders => Cardinality(QueueHolders \ {r}) = queue - 1
    BY <2>0, FS_AddElement, FS_RemoveElement
  <2>3. TypeOK'
    BY <1>2, <2>0, StepFacts, LimiterAssumption DEF TypeOK
  <2>4. TokensAccounted'
    BY <1>2, <2>0, <2>1, <2>2, StepFacts DEF TokensAccounted
  <2> QED
    BY <2>3, <2>4 DEF IInv
<1> QED
  BY <1>1, <1>2 DEF Next

------------------------------------------------------------------------------

(* The channels of a limiter never lose or invent a token, whatever mix of *)
(* immediate, queued, timed-out and cancelled requests used it (Acquire).  *)
THEOREM Accounting == Spec => []IInv
<1>1. Init => IInv
  BY InitIInv
<1>2. IInv /\ [Next]_limiterVars => IInv'
  BY NextIInv
<1> QED
  BY <1>1, <1>2, PTL DEF Spec

(* No channel of the limiter is ever over its capacity or below empty.     *)
THEOREM ChannelsInBounds == Spec => []TypeOK
<1>1. IInv => TypeOK
  BY DEF IInv
<1> QED
  BY <1>1, Accounting, PTL

(* The tokens in the channels are the requests that will take one out      *)
(* again, so the deferred receives of Acquire and ServeHTTP never block.   *)
THEOREM TokensNeverLeak == Spec => []TokensAccounted
<1>1. IInv => TokensAccounted
  BY DEF IInv
<1> QED
  BY <1>1, Accounting, PTL

(* The limiter built from two channels implements the room with a lobby:   *)
(* at most MaxConcurrent requests are past Acquire and at most MaxQueue    *)
(* wait, in every interleaving of Acquire and release.                     *)
THEOREM Refinement == Spec => Implements
<1>1. Init => Abs!Init
  BY DEF Init, Abs!Init, SlotHolders, QueueHolders
<1>2. IInv /\ [Next]_limiterVars => [Abs!Next]_(Abs!vars)
  <2> SUFFICES ASSUME IInv, [Next]_limiterVars PROVE [Abs!Next]_(Abs!vars)
    OBVIOUS
  <2>1. CASE UNCHANGED limiterVars
    BY <2>1 DEF limiterVars, Abs!vars, SlotHolders, QueueHolders
  <2>2. ASSUME NEW r \in Requests, Acquire(r) \/ Release(r) \/ Answer(r)
        PROVE  \/ Abs!Enter(r) \/ Abs!Wait(r) \/ Abs!LeaveLobby(r) \/ Abs!Exit(r)
               \/ UNCHANGED Abs!vars
    <3>1. /\ Abs!Cardinality(SlotHolders) = Cardinality(SlotHolders)
          /\ Abs!Cardinality(QueueHolders) = Cardinality(QueueHolders)
      BY DEF Cardinality, Abs!Cardinality, IsFiniteSet, Abs!IsFiniteSet
    <3> QED
      BY <2>2, <3>1, StepFacts
         DEF IInv, TokensAccounted, Abs!Enter, Abs!Wait, Abs!LeaveLobby, Abs!Exit, Abs!vars
  <2> QED
    BY <2>1, <2>2 DEF Next, Abs!Next
<1> QED
  BY <1>1, <1>2, Accounting, PTL DEF Spec, Implements, Abs!Spec
==============================================================================
