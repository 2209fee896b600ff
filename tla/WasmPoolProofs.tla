---------------------------- MODULE WasmPoolProofs ----------------------------
(***************************************************************************)
(* Proofs about Register and Run, for any number of Runs, instances and    *)
(* Registers and any size of pool.                                         *)
(***************************************************************************)
EXTENDS WasmPool, FiniteSetTheorems, TLAPS

(* The steps of a Run that leave instances and pools alone. *)
Walk(r) ==
    \/ Call(r) \/ Lookup(r) \/ PoolEmpty(r) \/ StartModule(r) \/ CodeMissing(r)
    \/ StartEnded(r) \/ Transformed(r) \/ Return(r)

(* A Run gives its instance up: to be closed, or to the garbage collector. *)
Drop(r) ==
    /\ mod[r] # None
    /\ inst' = [inst EXCEPT ![mod[r]] = 0]
    /\ mod' = [mod EXCEPT ![r] = None]
    /\ \E to \in {"done", "panicked"} : pc' = [pc EXCEPT ![r] = to]
    /\ UNCHANGED <<manager, ver, start, pool, mu>>

(* Every step of a Run is one of five kinds. *)
LEMMA RunSteps ==
    ASSUME TypeOK, RunsPlaced, NEW r \in Runs, Call(r) \/ Lock(r) \/ Guest(r) \/ Step(r)
    PROVE  Walk(r) \/ TakePooled(r) \/ Started(r) \/ GiveBack(r) \/ Drop(r)
<1>1. CASE FallBack(r) \/ PoolFull(r) \/ SendOnClosed(r)
  BY <1>1 DEF FallBack, PoolFull, SendOnClosed, CloseModule, Goto, Drop, RunsPlaced
<1> QED
  BY <1>1 DEF Lock, Guest, Step, Walk

(* A Walk changes neither instances nor pools, and takes or gives the lock *)
(* only as its place says.                                                 *)
LEMMA WalkFacts ==
    ASSUME TypeOK, RunsPlaced, NEW r \in Runs, Walk(r)
    PROVE  /\ UNCHANGED <<manager, mod, pool, inst>>
           /\ pc' \in [Runs -> PC]
           /\ ver' \in [Runs -> 0..MaxGen]
           /\ start' \in [Runs -> 0..MaxGen]
           /\ mu' \in Runs \cup {None, "register"}
           /\ mu' = "register" <=> mu = "register"
           /\ RunsPlaced'
           /\ mod[r] # None => ver'[r] = ver[r] /\ start'[r] = start[r]
           /\ \A s \in Runs \ {r} : ver'[s] = ver[s] /\ start'[s] = start[s]
<1> USE PoolAssumption DEF PoolAssumption, TypeOK, PC, Goto, manager
<1>1. CASE Call(r)
  BY <1>1 DEF Call, RunsPlaced
<1>2. CASE Lookup(r)
  BY <1>2 DEF Lookup, RunsPlaced
<1>3. CASE PoolEmpty(r)
  BY <1>3 DEF PoolEmpty, RunsPlaced
<1>4. CASE StartModule(r)
  <2>1. /\ pc' = [pc EXCEPT ![r] = "starting"] /\ mu = None /\ mu' = r
        /\ pc[r] = "instantiate" /\ UNCHANGED <<manager, mod, ver, start, pool, inst>>
    BY <1>4 DEF StartModule
  <2>2. \A s \in Runs : mu' = s <=> pc'[s] = "starting"
    BY <2>1 DEF RunsPlaced
  <2>3. mu' # "register" /\ mu # "register"
    BY <2>1
  <2> QED
    BY <2>1, <2>2, <2>3 DEF RunsPlaced
<1>5. CASE CodeMissing(r)
  BY <1>5 DEF CodeMissing, RunsPlaced
<1>6. CASE StartEnded(r)
  <2>1. /\ pc' = [pc EXCEPT ![r] = "done"] /\ mu' = None /\ pc[r] = "starting"
        /\ UNCHANGED <<manager, mod, ver, start, pool, inst>>
    BY <1>6 DEF StartEnded
  <2>2. mu = r
    BY <2>1 DEF RunsPlaced
  <2>3. \A s \in Runs : mu' = s <=> pc'[s] = "starting"
    BY <2>1, <2>2 DEF RunsPlaced
  <2>4. mu' # "register" /\ mu # "register"
    BY <2>1, <2>2
  <2> QED
    BY <2>1, <2>3, <2>4 DEF RunsPlaced
<1>7. CASE Transformed(r)
  BY <1>7 DEF Transformed, RunsPlaced
<1>8. CASE Return(r)
  BY <1>8 DEF Return, RunsPlaced
<1> QED
  BY <1>1, <1>2, <1>3, <1>4, <1>5, <1>6, <1>7, <1>8 DEF Walk

(* A Walk keeps the invariant. *)
LEMMA WalkInv == ASSUME IInv, NEW r \in Runs, Walk(r) PROVE IInv'
<1>1. TypeOK /\ RunsPlaced
  BY DEF IInv
<1>2. TypeOK'
  BY <1>1, WalkFacts DEF TypeOK, manager
<1>3. InstanceExclusive'
  BY <1>1, WalkFacts DEF IInv, InstanceExclusive
<1>4. RightLogic'
  BY <1>1, WalkFacts DEF IInv, RightLogic
<1>5. PoolsPlaced'
  BY <1>1, WalkFacts DEF IInv, PoolsPlaced, manager
<1> QED
  BY <1>1, <1>2, <1>3, <1>4, <1>5, WalkFacts DEF IInv

(* Taking from a pool keeps it within its limit. *)
LEMMA SmallerPool ==
    ASSUME IInv, \A g \in Gen : pool'[g] \subseteq pool[g]
    PROVE  \A g \in Gen : IsFiniteSet(pool'[g]) /\ Cardinality(pool'[g]) <= PoolSize
<1> SUFFICES ASSUME NEW g \in Gen
             PROVE  IsFiniteSet(pool'[g]) /\ Cardinality(pool'[g]) <= PoolSize
  OBVIOUS
<1>1. /\ IsFiniteSet(pool[g]) /\ Cardinality(pool[g]) <= PoolSize /\ PoolSize \in Nat
      /\ Cardinality(pool[g]) \in Nat
  BY FS_CardinalityType, PoolAssumption DEF IInv, TypeOK, PoolsPlaced, PoolAssumption
<1>2. IsFiniteSet(pool'[g]) /\ Cardinality(pool'[g]) <= Cardinality(pool[g])
  BY <1>1, FS_Subset
<1> QED
  BY <1>1, <1>2, FS_CardinalityType

(* An instance goes from the pool to a Run. *)
LEMMA TakePooledInv == ASSUME IInv, NEW r \in Runs, TakePooled(r) PROVE IInv'
<1> USE DEF IInv
<1>1. /\ pc[r] = "looked" /\ pc' = [pc EXCEPT ![r] = "running"]
      /\ UNCHANGED <<gen, digest, engine, closing, open, ver, start, mu, inst>>
  BY DEF TakePooled, Goto, manager
<1>2. PICK i \in pool[ver[r]] : /\ pool' = [pool EXCEPT ![ver[r]] = @ \ {i}]
                                /\ mod' = [mod EXCEPT ![r] = i]
  BY DEF TakePooled
<1>3. ver[r] \in Gen /\ ver[r] \in 1..gen /\ mod[r] = None /\ start[r] <= ver[r]
  BY <1>1 DEF TypeOK, RunsPlaced, Gen
<1>4. i \in Instances /\ i # None /\ inst[i] = ver[r]
  BY <1>2, <1>3, PoolAssumption DEF TypeOK, InstanceExclusive, PoolAssumption
<1>5. /\ \A g \in Gen : pool'[g] \subseteq pool[g]
      /\ \A g \in Gen : i \notin pool'[g]
  BY <1>2, <1>3, <1>4 DEF TypeOK, InstanceExclusive, Gen
<1>6. \A g \in Gen : IsFiniteSet(pool'[g]) /\ Cardinality(pool'[g]) <= PoolSize
  BY <1>5, SmallerPool
<1>7. TypeOK'
  BY <1>1, <1>2, <1>3, <1>4, <1>6 DEF TypeOK, PC
<1>8. InstanceExclusive'
  <2>1. \A s \in Runs : s # r => mod'[s] = mod[s]
    BY <1>2 DEF TypeOK
  <2>2. mod'[r] = i /\ \A s \in Runs : mod[s] # i
    BY <1>2, <1>3 DEF TypeOK, InstanceExclusive
  <2>3. \A s \in Runs, g \in Gen : mod'[s] \notin pool'[g]
    BY <1>5, <2>1, <2>2 DEF InstanceExclusive
  <2>4. \A s \in Runs : mod'[s] # None => inst[mod'[s]] # 0
    BY <1>3, <1>4, <2>1, <2>2 DEF InstanceExclusive
  <2> QED
    BY <1>1, <1>5, <2>1, <2>2, <2>3, <2>4 DEF InstanceExclusive
<1>9. RightLogic'
  BY <1>1, <1>2, <1>3, <1>4 DEF TypeOK, RightLogic
<1>10. RunsPlaced'
  BY <1>1, <1>2, <1>3, <1>4 DEF TypeOK, RunsPlaced
<1>11. PoolsPlaced'
  BY <1>1, <1>5, <1>6 DEF PoolsPlaced
<1> QED
  BY <1>7, <1>8, <1>9, <1>10, <1>11

(* A new instance is nobody else's. *)
LEMMA StartedInv == ASSUME IInv, NEW r \in Runs, Started(r) PROVE IInv'
<1> USE DEF IInv
<1>1. /\ pc[r] = "starting" /\ pc' = [pc EXCEPT ![r] = "running"] /\ mu' = None
      /\ UNCHANGED <<gen, digest, engine, closing, open, ver, start, pool>>
  BY DEF Started, Goto, manager
<1>2. PICK i \in Instances : /\ inst[i] = 0
                             /\ inst' = [inst EXCEPT ![i] = ver[r]]
                             /\ mod' = [mod EXCEPT ![r] = i]
  BY DEF Started
<1>3. /\ mu = r /\ mod[r] = None /\ i # None /\ start[r] <= ver[r]
      /\ ver[r] \in 1..gen /\ ver[r] \in Gen
  BY <1>1, PoolAssumption DEF TypeOK, RunsPlaced, Gen, PoolAssumption
<1>4. /\ \A s \in Runs : mod[s] # i
      /\ \A g \in Gen : i \notin pool[g]
  BY <1>2, <1>3 DEF TypeOK, InstanceExclusive, Gen
<1>5. TypeOK'
  BY <1>1, <1>2, <1>3 DEF TypeOK, PC, Gen
<1>6. InstanceExclusive'
  <2>1. mod'[r] = i /\ \A s \in Runs : s # r => mod'[s] = mod[s]
    BY <1>2 DEF TypeOK
  <2>2. inst'[i] # 0 /\ \A j \in Instances : j # i => inst'[j] = inst[j]
    BY <1>2, <1>3 DEF TypeOK, Gen
  <2>3. \A s \in Runs : mod'[s] # None => inst'[mod'[s]] # 0
    BY <1>3, <1>4, <2>1, <2>2 DEF TypeOK, InstanceExclusive
  <2>4. \A g \in Gen : \A j \in pool[g] : inst'[j] = g
    BY <1>4, <2>2 DEF TypeOK, InstanceExclusive
  <2> QED
    BY <1>1, <1>4, <2>1, <2>3, <2>4 DEF InstanceExclusive
<1>7. RightLogic'
  <2> SUFFICES ASSUME NEW s \in Runs, mod'[s] # None
               PROVE  inst'[mod'[s]] = ver'[s] /\ ver'[s] >= start'[s]
    BY DEF RightLogic
  <2>1. CASE s = r
    BY <1>1, <1>2, <1>3, <2>1 DEF TypeOK
  <2>2. CASE s # r
    BY <1>1, <1>2, <1>4, <2>2 DEF TypeOK, RightLogic
  <2> QED
    BY <2>1, <2>2
<1>8. RunsPlaced'
  <2>1. \A s \in Runs : mu' = s <=> pc'[s] = "starting"
    BY <1>1, <1>3, PoolAssumption DEF TypeOK, RunsPlaced, PoolAssumption
  <2> QED
    BY <1>1, <1>2, <1>3, <2>1 DEF TypeOK, RunsPlaced
<1>9. PoolsPlaced'
  BY <1>1, <1>3, PoolAssumption DEF PoolsPlaced, PoolAssumption
<1> QED
  BY <1>5, <1>6, <1>7, <1>8, <1>9

(* Nobody else loses the instance a Run gives up. *)
LEMMA DropInv == ASSUME IInv, NEW r \in Runs, Drop(r) PROVE IInv'
<1> USE DEF IInv
<1>1. /\ mod[r] # None
      /\ inst' = [inst EXCEPT ![mod[r]] = 0]
      /\ mod' = [mod EXCEPT ![r] = None]
      /\ UNCHANGED <<gen, digest, engine, closing, open, ver, start, pool, mu>>
  BY DEF Drop, manager
<1>2. PICK to \in {"done", "panicked"} : pc' = [pc EXCEPT ![r] = to]
  BY DEF Drop
<1>3. mod[r] \in Instances /\ pc[r] \in {"running", "giving"}
  BY <1>1 DEF TypeOK, RunsPlaced
<1>4. /\ \A s \in Runs : s # r => mod'[s] = mod[s] /\ mod[s] # mod[r]
      /\ \A g \in Gen : mod[r] \notin pool[g]
      /\ \A i \in Instances : i # mod[r] => inst'[i] = inst[i]
      /\ mod'[r] = None
  BY <1>1, <1>3 DEF TypeOK, InstanceExclusive
<1>5. TypeOK'
  <2>1. inst' \in [Instances -> 0..MaxGen]
    BY <1>1, <1>3, PoolAssumption DEF TypeOK, PoolAssumption
  <2>2. pc' \in [Runs -> PC]
    BY <1>2 DEF TypeOK, PC
  <2> QED
    BY <1>1, <2>1, <2>2 DEF TypeOK
<1>6. InstanceExclusive'
  <2>1. \A s \in Runs, g \in Gen : mod'[s] \notin pool[g]
    BY <1>4, PoolAssumption DEF TypeOK, InstanceExclusive, PoolAssumption
  <2>2. \A s \in Runs : mod'[s] # None => inst'[mod'[s]] # 0
    BY <1>4 DEF TypeOK, InstanceExclusive
  <2>3. \A g \in Gen : \A i \in pool[g] : inst'[i] = g
    BY <1>4 DEF TypeOK, InstanceExclusive
  <2> QED
    BY <1>1, <1>4, <2>1, <2>2, <2>3 DEF InstanceExclusive
<1>7. RightLogic'
  BY <1>1, <1>4 DEF TypeOK, RightLogic
<1>8. RunsPlaced'
  BY <1>1, <1>2, <1>3, <1>4 DEF TypeOK, RunsPlaced
<1>9. PoolsPlaced'
  BY <1>1 DEF PoolsPlaced
<1> QED
  BY <1>5, <1>6, <1>7, <1>8, <1>9

(* An instance goes from a Run to the pool of its generation, if that is   *)
(* still the current one and not full.                                     *)
LEMMA GiveBackInv == ASSUME IInv, NEW r \in Runs, GiveBack(r) PROVE IInv'
<1> USE DEF IInv
<1>1. /\ pc[r] = "giving" /\ pc' = [pc EXCEPT ![r] = "done"]
      /\ open[ver[r]] /\ Cardinality(pool[ver[r]]) < PoolSize
      /\ pool' = [pool EXCEPT ![ver[r]] = @ \cup {mod[r]}]
      /\ mod' = [mod EXCEPT ![r] = None]
      /\ UNCHANGED <<gen, digest, engine, closing, open, ver, start, mu, inst>>
  BY DEF GiveBack, Goto, manager
<1>2. mod[r] \in Instances /\ mod[r] # None /\ ver[r] \in Gen
  BY <1>1 DEF TypeOK, RunsPlaced, Gen
<1>3. ver[r] = gen /\ mu # "register" /\ inst[mod[r]] = ver[r]
  BY <1>1, <1>2 DEF PoolsPlaced, RightLogic
<1>4. /\ \A s \in Runs : s # r => mod'[s] = mod[s] /\ mod[s] # mod[r]
      /\ mod'[r] = None
  BY <1>1, <1>2 DEF TypeOK, InstanceExclusive
<1>5. /\ pool'[ver[r]] = pool[ver[r]] \cup {mod[r]}
      /\ \A g \in Gen : g # ver[r] => pool'[g] = pool[g]
  BY <1>1, <1>2 DEF TypeOK
<1>6. \A g \in Gen : IsFiniteSet(pool'[g]) /\ Cardinality(pool'[g]) <= PoolSize
  <2>1. IsFiniteSet(pool[ver[r]]) /\ Cardinality(pool[ver[r]]) \in Nat /\ PoolSize \in Nat
    BY <1>2, FS_CardinalityType, PoolAssumption DEF PoolsPlaced, PoolAssumption
  <2>2. /\ IsFiniteSet(pool'[ver[r]])
        /\ Cardinality(pool'[ver[r]]) = Cardinality(pool[ver[r]]) + 1
    <3>1. mod[r] \notin pool[ver[r]]
      BY <1>2 DEF InstanceExclusive
    <3>2. /\ IsFiniteSet(pool[ver[r]] \cup {mod[r]})
          /\ Cardinality(pool[ver[r]] \cup {mod[r]}) = Cardinality(pool[ver[r]]) + 1
      BY <2>1, <3>1, FS_AddElement
    <3> QED
      BY <1>5, <3>2
  <2>3. Cardinality(pool'[ver[r]]) \in Nat
    BY <2>2, FS_CardinalityType
  <2>4. Cardinality(pool'[ver[r]]) <= PoolSize
    BY <1>1, <2>1, <2>2, <2>3
  <2> QED
    BY <1>5, <2>2, <2>4 DEF TypeOK, PoolsPlaced
<1>7. TypeOK'
  BY <1>1, <1>2, <1>6 DEF TypeOK, PC
<1>8. InstanceExclusive'
  <2>1. \A s \in Runs, g \in Gen : mod'[s] \notin pool'[g]
    BY <1>2, <1>4, <1>5, PoolAssumption DEF TypeOK, InstanceExclusive, PoolAssumption
  <2>2. \A g \in Gen : \A i \in pool'[g] : inst[i] = g
    BY <1>2, <1>3, <1>5 DEF InstanceExclusive
  <2> QED
    BY <1>1, <1>4, <2>1, <2>2 DEF InstanceExclusive
<1>9. RightLogic'
  BY <1>1, <1>4 DEF RightLogic
<1>10. RunsPlaced'
  BY <1>1, <1>4 DEF TypeOK, RunsPlaced
<1>11. PoolsPlaced'
  BY <1>1, <1>3, <1>5, <1>6 DEF PoolsPlaced
<1> QED
  BY <1>7, <1>8, <1>9, <1>10, <1>11

(* Register closes the old pool before the new one exists. *)
LEMMA RegisterSwapInv == ASSUME IInv, NEW d \in Digests, RegisterSwap(d) PROVE IInv'
<1> USE PoolAssumption DEF IInv, PoolAssumption
<1>1. /\ mu = None /\ mu' = "register" /\ gen' = gen + 1 /\ gen < MaxGen /\ gen \in Nat
      /\ UNCHANGED <<pc, ver, start, mod, pool, inst>>
  BY DEF RegisterSwap, TypeOK, run
<1>2. gen' \in Gen /\ (gen > 0 => gen \in Gen)
  BY <1>1 DEF Gen
<1>3. TypeOK'
  <2>1. digest' \in [Gen -> Digests \cup {None}] /\ engine' \subseteq Digests
    BY DEF RegisterSwap, TypeOK
  <2>2. closing' \subseteq Gen
    BY <1>2 DEF RegisterSwap, TypeOK
  <2>3. open' \in [Gen -> BOOLEAN]
    BY DEF RegisterSwap, TypeOK
  <2>4. gen' \in 0..MaxGen
    BY <1>1
  <2> QED
    BY <1>1, <2>1, <2>2, <2>3, <2>4 DEF TypeOK
<1>4. InstanceExclusive' /\ RightLogic'
  BY <1>1 DEF InstanceExclusive, RightLogic
<1>5. RunsPlaced'
  <2>1. \A r \in Runs : mu' = r <=> pc'[r] = "starting"
    BY <1>1 DEF RunsPlaced
  <2>2. \A r \in Runs : start'[r] <= gen'
    BY <1>1 DEF TypeOK, RunsPlaced
  <2>3. 1..gen \subseteq 1..gen'
    BY <1>1
  <2> QED
    BY <1>1, <2>1, <2>2, <2>3 DEF RunsPlaced
<1>6. PoolsPlaced'
  <2>1. \A g \in Gen : ~open'[g]
    <3>1. \A g \in Gen : open[g] => g = gen
      BY <1>1 DEF PoolsPlaced
    <3>2. CASE gen > 0
      BY <1>2, <3>1, <3>2 DEF RegisterSwap, TypeOK
    <3>3. CASE gen = 0
      BY <3>1, <3>3 DEF RegisterSwap, Gen
    <3> QED
      BY <1>1, <3>2, <3>3
  <2> QED
    BY <1>1, <2>1 DEF PoolsPlaced
<1> QED
  BY <1>3, <1>4, <1>5, <1>6

(* Draining closes instances that wait in the old pool, which no Run has. *)
LEMMA DrainInv == ASSUME IInv, Drain PROVE IInv'
<1> USE DEF IInv
<1>1. /\ mu = "register" /\ gen > 1
      /\ UNCHANGED <<gen, digest, engine, closing, open, pc, ver, start, mod, mu>>
  BY DEF Drain, manager, run
<1>2. PICK i \in pool[gen - 1] : /\ pool' = [pool EXCEPT ![gen - 1] = @ \ {i}]
                                 /\ inst' = [inst EXCEPT ![i] = 0]
  BY DEF Drain
<1>3. gen - 1 \in Gen /\ i \in Instances
  <2>1. gen - 1 \in Gen
    BY <1>1, PoolAssumption DEF TypeOK, Gen, PoolAssumption
  <2> QED
    BY <2>1 DEF TypeOK
<1>4. /\ \A s \in Runs : mod[s] # i
      /\ \A g \in Gen : i \notin pool'[g] /\ pool'[g] \subseteq pool[g]
      /\ \A j \in Instances : j # i => inst'[j] = inst[j]
  <2>1. \A s \in Runs : mod[s] # i
    BY <1>2, <1>3 DEF InstanceExclusive
  <2>2. inst[i] = gen - 1
    BY <1>2, <1>3 DEF InstanceExclusive
  <2>3. \A g \in Gen : g # gen - 1 => i \notin pool[g]
    BY <2>2 DEF InstanceExclusive
  <2>4. \A g \in Gen : i \notin pool'[g] /\ pool'[g] \subseteq pool[g]
    BY <1>2, <1>3, <2>3 DEF TypeOK
  <2>5. \A j \in Instances : j # i => inst'[j] = inst[j]
    BY <1>2, <1>3 DEF TypeOK
  <2> QED
    BY <2>1, <2>4, <2>5
<1>5. \A g \in Gen : IsFiniteSet(pool'[g]) /\ Cardinality(pool'[g]) <= PoolSize
  BY <1>4, SmallerPool
<1>6. TypeOK'
  <2>1. inst' \in [Instances -> 0..MaxGen]
    BY <1>2, <1>3, PoolAssumption DEF TypeOK, PoolAssumption
  <2>2. pool' \in [Gen -> SUBSET Instances]
    BY <1>2, <1>3 DEF TypeOK
  <2> QED
    BY <1>1, <1>5, <2>1, <2>2 DEF TypeOK
<1>7. InstanceExclusive'
  <2>1. \A s \in Runs, g \in Gen : mod[s] \notin pool'[g]
    BY <1>4 DEF InstanceExclusive
  <2>2. \A s \in Runs : mod[s] # None => inst'[mod[s]] # 0
    BY <1>4 DEF TypeOK, InstanceExclusive
  <2>3. \A g \in Gen : \A j \in pool'[g] : inst'[j] = g
    BY <1>4 DEF TypeOK, InstanceExclusive
  <2> QED
    BY <1>1, <2>1, <2>2, <2>3 DEF InstanceExclusive
<1>8. RightLogic'
  BY <1>1, <1>4 DEF TypeOK, RightLogic
<1>9. RunsPlaced'
  BY <1>1 DEF RunsPlaced
<1>10. PoolsPlaced'
  BY <1>1, <1>4, <1>5 DEF PoolsPlaced
<1> QED
  BY <1>6, <1>7, <1>8, <1>9, <1>10

(* The new pool opens when the old one is empty. *)
LEMMA RegisterDoneInv == ASSUME IInv, RegisterDone PROVE IInv'
<1> USE PoolAssumption DEF IInv, PoolAssumption
<1>1. /\ mu = "register" /\ mu' = None /\ (gen > 1 => pool[gen - 1] = {})
      /\ open' = [open EXCEPT ![gen] = TRUE]
      /\ UNCHANGED <<gen, digest, engine, closing, pc, ver, start, mod, pool, inst>>
  BY DEF RegisterDone, run
<1>2. gen \in Gen
  BY <1>1 DEF TypeOK, PoolsPlaced, Gen
<1>3. TypeOK'
  BY <1>1 DEF TypeOK
<1>4. InstanceExclusive' /\ RightLogic'
  BY <1>1 DEF InstanceExclusive, RightLogic
<1>5. RunsPlaced'
  BY <1>1 DEF RunsPlaced
<1>6. PoolsPlaced'
  <2>1. \A g \in Gen : open'[g] <=> g = gen
    BY <1>1, <1>2 DEF TypeOK, PoolsPlaced
  <2>2. \A g \in Gen : pool[g] = {}
    BY <1>1, <1>2 DEF PoolsPlaced, Gen
  <2>3. \A g \in Gen : IsFiniteSet(pool[g])
    BY DEF PoolsPlaced
  <2> QED
    BY <1>1, <2>1, <2>2, <2>3 DEF PoolsPlaced
<1> QED
  BY <1>3, <1>4, <1>5, <1>6

(* The closer of the old compiled module touches neither pools nor Runs. *)
LEMMA CloseOldInv == ASSUME IInv, NEW g \in Gen, CloseOld(g) PROVE IInv'
<1>1. TypeOK'
  BY DEF IInv, CloseOld, TypeOK, run
<1> QED
  BY <1>1 DEF CloseOld, run, IInv, InstanceExclusive, RightLogic, RunsPlaced, PoolsPlaced

(* Nothing is registered and nobody runs. *)
LEMMA InitIInv == ASSUME Init PROVE IInv
<1> USE PoolAssumption DEF Init, PoolAssumption
<1>1. \A g \in Gen : IsFiniteSet(pool[g]) /\ Cardinality(pool[g]) <= PoolSize
  <2>1. IsFiniteSet({}) /\ Cardinality({}) = 0
    BY FS_EmptySet
  <2> QED
    BY <2>1
<1>2. TypeOK
  BY <1>1 DEF TypeOK, PC, Gen
<1>3. InstanceExclusive /\ RightLogic
  BY DEF InstanceExclusive, RightLogic
<1>4. RunsPlaced
  BY DEF RunsPlaced
<1>5. PoolsPlaced
  BY <1>1 DEF PoolsPlaced, Gen
<1> QED
  BY <1>2, <1>3, <1>4, <1>5 DEF IInv

(* The steps together. *)
LEMMA NextIInv == ASSUME IInv, [Next]_vars PROVE IInv'
<1>1. CASE \E d \in Digests : RegisterSwap(d)
  BY <1>1, RegisterSwapInv
<1>2. CASE Drain
  BY <1>2, DrainInv
<1>3. CASE RegisterDone
  BY <1>3, RegisterDoneInv
<1>4. CASE \E g \in Gen : CloseOld(g)
  BY <1>4, CloseOldInv
<1>5. ASSUME NEW r \in Runs, Call(r) \/ Lock(r) \/ Guest(r) \/ Step(r)
      PROVE  IInv'
  <2>1. Walk(r) \/ TakePooled(r) \/ Started(r) \/ GiveBack(r) \/ Drop(r)
    BY <1>5, RunSteps DEF IInv
  <2> QED
    BY <2>1, WalkInv, TakePooledInv, StartedInv, GiveBackInv, DropInv
<1>6. CASE UNCHANGED vars
  BY <1>6 DEF vars, manager, run, IInv, TypeOK, InstanceExclusive, RightLogic, RunsPlaced,
              PoolsPlaced
<1> QED
  BY <1>1, <1>2, <1>3, <1>4, <1>5, <1>6 DEF Next

------------------------------------------------------------------------------

(* The inductive invariant of the manager: types, the bound of the pools,  *)
(* what each Run holds where, and which pool holds instances.              *)
THEOREM ManagerInvariant == Spec => []IInv
<1> QED
  BY InitIInv, NextIInv, PTL DEF Spec

(* An instance has one user at a time, and is not closed under it, however *)
(* the steps of Run and Register fall between each other.                  *)
THEOREM OneUser == Spec => []InstanceExclusive
<1>1. IInv => InstanceExclusive
  BY DEF IInv
<1> QED
  BY <1>1, ManagerInvariant, PTL

(* A Run works with an instance of the generation it looked up, which is   *)
(* no older than the one registered when it was called.                    *)
THEOREM NewCallsNewLogic == Spec => []RightLogic
<1>1. IInv => RightLogic
  BY DEF IInv
<1> QED
  BY <1>1, ManagerInvariant, PTL

(* Once Register returned, the pool it replaced is empty and stays empty.  *)
THEOREM ReplacedPoolsEmpty == Spec => []NothingStranded
<1>1. IInv => NothingStranded
  BY DEF IInv, TypeOK, PoolsPlaced, NothingStranded, Gen
<1> QED
  BY <1>1, ManagerInvariant, PTL
==============================================================================
