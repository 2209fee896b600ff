-------------------------- MODULE BackpressureLimiter --------------------------
(***************************************************************************)
(* The concurrency limiter of a route (src/pkg/proxy/handler.go,           *)
(* BackpressureLimiter): two buffered channels of empty structs, one for   *)
(* the slots, one for the places in the queue.  Only their fill counts,    *)
(* so each is a number; a send blocks at the capacity, a receive at 0.     *)
(*                                                                         *)
(* Acquire is four selects and receives, and other goroutines run between  *)
(* them: the request may find no slot, be overtaken, and find no place     *)
(* either.  When several cases of a select are ready Go picks one at       *)
(* random, and the model lets whoever comes next take a freed slot, a      *)
(* parked sender or a newcomer.                                            *)
(***************************************************************************)
EXTENDS Integers, FiniteSets

CONSTANTS Requests,       \* goroutines serving requests of the route
          MaxConcurrent,  \* cap(sem)
          MaxQueue        \* cap(queue); 0 makes the channel unbuffered

(* NewBackpressureLimiter returns nil, no limiter, for MaxConcurrent <= 0. *)
ASSUME LimiterAssumption ==
    /\ MaxConcurrent \in Nat \ {0}
    /\ MaxQueue \in Nat

VARIABLES
    sem,    \* len(l.sem)
    queue,  \* len(l.queue)
    at      \* at[r]: where request r is

limiterVars == <<sem, queue, at>>

Place == {"out",        \* before Acquire
          "noslot",     \* the first select found sem full
          "queued",     \* in the queue, waiting for slot, timer or ctx
          "granted",    \* got a slot; the deferred <-l.queue is still to run
          "gaveup",     \* timer or ctx; the deferred <-l.queue is still to run
          "holding",    \* Acquire returned a release function
          "full",       \* Acquire returned "queue full": 429
          "timeout"}    \* Acquire returned "queue timeout" or ctx.Err(): 503

TypeOK ==
    /\ sem \in 0..MaxConcurrent
    /\ queue \in 0..MaxQueue
    /\ at \in [Requests -> Place]

Init ==
    /\ sem = 0
    /\ queue = 0
    /\ at = [r \in Requests |-> "out"]

------------------------------------------------------------------------------
(* Acquire *)

Goto(r, from, to) ==
    /\ at[r] = from
    /\ at' = [at EXCEPT ![r] = to]

(* case l.sem <- struct{}{}: of the first select, or its default. *)
TakeSlot(r) ==
    /\ sem < MaxConcurrent
    /\ sem' = sem + 1
    /\ Goto(r, "out", "holding")
    /\ UNCHANGED queue

NoSlot(r) ==
    /\ sem = MaxConcurrent
    /\ Goto(r, "out", "noslot")
    /\ UNCHANGED <<sem, queue>>

(* case l.queue <- struct{}{}:, or the default. *)
Enqueue(r) ==
    /\ queue < MaxQueue
    /\ queue' = queue + 1
    /\ Goto(r, "noslot", "queued")
    /\ UNCHANGED sem

QueueFull(r) ==
    /\ queue = MaxQueue
    /\ Goto(r, "noslot", "full")
    /\ UNCHANGED <<sem, queue>>

(* Mutant: a queued request takes a slot that is not there. *)
GetSlotOver(r) ==
    /\ sem <= MaxConcurrent
    /\ sem' = sem + 1
    /\ Goto(r, "queued", "granted")
    /\ UNCHANGED queue

(* The select of a queued request: slot, timer or ctx.Done. *)
GetSlot(r) ==
    /\ sem < MaxConcurrent
    /\ sem' = sem + 1
    /\ Goto(r, "queued", "granted")
    /\ UNCHANGED queue

(* Mutants: giving up forgets the queue place; there is no timer. *)
GiveUpLeaks(r) ==
    /\ Goto(r, "queued", "timeout")
    /\ UNCHANGED <<sem, queue>>

GiveUpNever(r) == FALSE

GiveUp(r) ==
    /\ Goto(r, "queued", "gaveup")
    /\ UNCHANGED <<sem, queue>>

(* Mutant: a request that gave up is told it was admitted. *)
LeaveQueueAdmits(r) ==
    /\ queue > 0
    /\ queue' = queue - 1
    /\ \E from \in {"granted", "gaveup"} : Goto(r, from, "holding")
    /\ UNCHANGED sem

(* defer func() { <-l.queue }() *)
LeaveQueue(r) ==
    /\ queue > 0
    /\ queue' = queue - 1
    /\ \/ Goto(r, "granted", "holding")
       \/ Goto(r, "gaveup", "timeout")
    /\ UNCHANGED sem

------------------------------------------------------------------------------
(* ServeHTTP's side: defer release(), or the 429 or 503 answer. *)

Release(r) ==
    /\ sem > 0
    /\ sem' = sem - 1
    /\ Goto(r, "holding", "out")
    /\ UNCHANGED queue

Answer(r) ==
    /\ Goto(r, "full", "out") \/ Goto(r, "timeout", "out")
    /\ UNCHANGED <<sem, queue>>

Acquire(r) ==
    \/ TakeSlot(r) \/ NoSlot(r)
    \/ Enqueue(r) \/ QueueFull(r)
    \/ GetSlot(r) \/ GiveUp(r)
    \/ LeaveQueue(r)

Next == \E r \in Requests : Acquire(r) \/ Release(r) \/ Answer(r)

Spec == Init /\ [][Next]_limiterVars

(* Goroutines run and timers fire.  Nothing is assumed of Release: a slow  *)
(* backend may hold its slot forever.                                      *)
FairSpec ==
    Spec /\ \A r \in Requests : WF_limiterVars(at[r] # "out" /\ Acquire(r))

------------------------------------------------------------------------------
(* Properties *)

SlotHolders == {r \in Requests : at[r] \in {"granted", "holding"}}

QueueHolders == {r \in Requests : at[r] \in {"queued", "granted", "gaveup"}}

(* No token is lost or doubled on any path through Acquire: the channels   *)
(* hold exactly one token per request that will take one out again, so     *)
(* neither deferred receive can block and no capacity leaks.               *)
TokensAccounted ==
    /\ IsFiniteSet(SlotHolders) /\ Cardinality(SlotHolders) = sem
    /\ IsFiniteSet(QueueHolders) /\ Cardinality(QueueHolders) = queue

IInv == TypeOK /\ TokensAccounted

(* A request that found no slot gets an answer from Acquire even if no     *)
(* slot is ever released: timer and ctx bound the wait.                    *)
AcquireReturns ==
    \A r \in Requests : at[r] = "noslot" ~> at[r] \in {"holding", "full", "timeout"}

(* The channels implement the room and the lobby of AdmissionControl: no   *)
(* interleaving of Acquire and release lets a request in, keeps one        *)
(* waiting or frees a place other than as promised.                        *)
Abs == INSTANCE AdmissionControl WITH inside <- SlotHolders, lobby <- QueueHolders

Implements == Abs!Spec
==============================================================================
