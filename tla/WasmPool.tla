------------------------------- MODULE WasmPool -------------------------------
(***************************************************************************)
(* The WASM middleware manager (src/pkg/wasm/runner.go) for one middleware *)
(* name: Register swaps the compiled module and the instance pool while    *)
(* Runs are under way.  m.mu guards the two maps, and Run also holds it    *)
(* while it instantiates; taking from and giving to the pool channel needs *)
(* no lock, so those steps fall between the steps of a Register.           *)
(*                                                                         *)
(* A generation is what one Register installs: the compiled module and its *)
(* pool.  wazero's engine keeps compiled code by the digest of the bytes,  *)
(* without counting users, which is modelled from the vendored engine.     *)
(***************************************************************************)
EXTENDS Integers, FiniteSets

CONSTANTS Runs,      \* goroutines calling Run
          Instances,  \* identities of module instances
          Digests,   \* digests of uploaded modules
          PoolSize,  \* capacity of a pool (10 in the code)
          MaxGen,    \* bound: Registers in a behaviour
          None

ASSUME PoolAssumption ==
    /\ PoolSize \in Nat \ {0}
    /\ MaxGen \in Nat \ {0}
    /\ None \notin Instances \cup Digests \cup Runs
    /\ "register" \notin Runs \cup {None}

Gen == 1..MaxGen

VARIABLES
    gen,       \* generation in m.cache[name] and m.pools[name]; 0: not registered
    digest,    \* digest[g]: of the module of generation g
    engine,    \* digests whose code the engine holds
    closing,   \* generations whose compiled module a sleeping goroutine will close
    pool,      \* pool[g]: instances in the channel of generation g
    open,      \* open[g]: the channel exists and is not closed
    mu,        \* who holds m.mu: None, "register" or a Run
    pc,        \* pc[r]: where Run r is
    ver,       \* ver[r]: the generation Run r looked up
    start,     \* history: gen when Run r was called
    mod,       \* mod[r]: the instance Run r works with
    inst       \* inst[i]: generation of a live instance, 0 otherwise

manager == <<gen, digest, engine, closing, open>>
run     == <<pc, ver, start, mod>>
vars    == <<manager, run, pool, mu, inst>>

PC == {"idle", "called", "looked", "instantiate", "starting", "running", "giving",
       "done", "missing", "panicked"}

TypeOK ==
    /\ gen \in 0..MaxGen
    /\ digest \in [Gen -> Digests \cup {None}]
    /\ engine \subseteq Digests
    /\ closing \subseteq Gen
    /\ pool \in [Gen -> SUBSET Instances]
    /\ \A g \in Gen : Cardinality(pool[g]) <= PoolSize
    /\ open \in [Gen -> BOOLEAN]
    /\ mu \in Runs \cup {None, "register"}
    /\ pc \in [Runs -> PC]
    /\ ver \in [Runs -> 0..MaxGen]
    /\ start \in [Runs -> 0..MaxGen]
    /\ mod \in [Runs -> Instances \cup {None}]
    /\ inst \in [Instances -> 0..MaxGen]

Init ==
    /\ gen = 0
    /\ digest = [g \in Gen |-> None]
    /\ engine = {}
    /\ closing = {}
    /\ pool = [g \in Gen |-> {}]
    /\ open = [g \in Gen |-> FALSE]
    /\ mu = None
    /\ pc = [r \in Runs |-> "idle"]
    /\ ver = [r \in Runs |-> 0]
    /\ start = [r \in Runs |-> 0]
    /\ mod = [r \in Runs |-> None]
    /\ inst = [i \in Instances |-> 0]

Goto(r, from, to) ==
    /\ pc[r] = from
    /\ pc' = [pc EXCEPT ![r] = to]

------------------------------------------------------------------------------
(* Register.  A module that does not compile changes nothing. *)

(* Mutant: the old pool is drained but not closed. *)
RegisterSwapUnclosed(d) ==
    /\ mu = None
    /\ gen < MaxGen
    /\ mu' = "register"
    /\ gen' = gen + 1
    /\ digest' = [digest EXCEPT ![gen + 1] = d]
    /\ engine' = engine \cup {d}
    /\ closing' = IF gen > 0 THEN closing \cup {gen} ELSE closing
    /\ UNCHANGED <<open, run, pool, inst>>

(* Lock, compile, start the closer of the old module, replace it, and      *)
(* close the old pool.                                                     *)
RegisterSwap(d) ==
    /\ mu = None
    /\ gen < MaxGen
    /\ mu' = "register"
    /\ gen' = gen + 1
    /\ digest' = [digest EXCEPT ![gen + 1] = d]
    /\ engine' = engine \cup {d}
    /\ closing' = IF gen > 0 THEN closing \cup {gen} ELSE closing
    /\ open' = IF gen > 0 THEN [open EXCEPT ![gen] = FALSE] ELSE open
    /\ UNCHANGED <<run, pool, inst>>

(* for mod := range oldPool { mod.Close(ctx) } *)
Drain ==
    /\ mu = "register"
    /\ gen > 1
    /\ \E i \in pool[gen - 1] :
          /\ pool' = [pool EXCEPT ![gen - 1] = @ \ {i}]
          /\ inst' = [inst EXCEPT ![i] = 0]
    /\ UNCHANGED <<manager, run, mu>>

(* Make the new pool and unlock. *)
RegisterDone ==
    /\ mu = "register"
    /\ gen > 1 => pool[gen - 1] = {}
    /\ open' = [open EXCEPT ![gen] = TRUE]
    /\ mu' = None
    /\ UNCHANGED <<gen, digest, engine, closing, run, pool, inst>>

(* The goroutine that sleeps 5s and closes the old compiled module. *)
CloseOld(g) ==
    /\ g \in closing
    /\ closing' = closing \ {g}
    /\ engine' = engine \ {digest[g]}
    /\ UNCHANGED <<gen, digest, open, run, pool, mu, inst>>

------------------------------------------------------------------------------
(* Run *)

Call(r) ==
    /\ Goto(r, "idle", "called")
    /\ start' = [start EXCEPT ![r] = gen]
    /\ UNCHANGED <<manager, ver, mod, pool, mu, inst>>

(* The first critical section; an unknown name is an error. *)
Lookup(r) ==
    /\ mu = None
    /\ Goto(r, "called", IF gen = 0 THEN "done" ELSE "looked")
    /\ ver' = [ver EXCEPT ![r] = gen]
    /\ UNCHANGED <<manager, start, mod, pool, mu, inst>>

(* The select on the pool: a closed channel still hands out what it holds. *)
TakePooled(r) ==
    /\ Goto(r, "looked", "running")
    /\ \E i \in pool[ver[r]] :
          /\ pool' = [pool EXCEPT ![ver[r]] = @ \ {i}]
          /\ mod' = [mod EXCEPT ![r] = i]
    /\ UNCHANGED <<manager, ver, start, mu, inst>>

PoolEmpty(r) ==
    /\ Goto(r, "looked", "instantiate")
    /\ pool[ver[r]] = {}
    /\ UNCHANGED <<manager, ver, start, mod, pool, mu, inst>>

(* Lock and InstantiateModule: the guest's start function runs under m.mu. *)
StartModule(r) ==
    /\ mu = None
    /\ Goto(r, "instantiate", "starting")
    /\ digest[ver[r]] \in engine
    /\ mu' = r
    /\ UNCHANGED <<manager, ver, start, mod, pool, inst>>

(* Mutant: on an error the pool is tried again. *)
CodeMissingRetries(r) ==
    /\ mu = None
    /\ Goto(r, "instantiate", "looked")
    /\ digest[ver[r]] \notin engine
    /\ UNCHANGED <<manager, ver, start, mod, pool, mu, inst>>

(* "source module must be compiled before instantiation" *)
CodeMissing(r) ==
    /\ mu = None
    /\ Goto(r, "instantiate", "missing")
    /\ digest[ver[r]] \notin engine
    /\ UNCHANGED <<manager, ver, start, mod, pool, mu, inst>>

Started(r) ==
    /\ Goto(r, "starting", "running")
    /\ \E i \in Instances :
          /\ inst[i] = 0
          /\ inst' = [inst EXCEPT ![i] = ver[r]]
          /\ mod' = [mod EXCEPT ![r] = i]
    /\ mu' = None
    /\ UNCHANGED <<manager, ver, start, pool>>

(* The start function failed, or it was the whole program and exited. *)
StartEnded(r) ==
    /\ Goto(r, "starting", "done")
    /\ mu' = None
    /\ UNCHANGED <<manager, ver, start, mod, pool, inst>>

(* transform answered: the instance is offered to the pool it belongs to. *)
Transformed(r) ==
    /\ Goto(r, "running", "giving")
    /\ UNCHANGED <<manager, ver, start, mod, pool, mu, inst>>

(* mod.Close: no direct-memory interface, or a step of it failed. *)
CloseModule(r, from) ==
    /\ Goto(r, from, "done")
    /\ inst' = [inst EXCEPT ![mod[r]] = 0]
    /\ mod' = [mod EXCEPT ![r] = None]
    /\ UNCHANGED <<manager, ver, start, pool, mu>>

FallBack(r) == CloseModule(r, "running")

(* Mutants: no return after the send, so that the instance is closed; the  *)
(* pool is looked up again by name; the pool has no limit.                 *)
GiveBackCloses(r) ==
    /\ Goto(r, "giving", "done")
    /\ open[ver[r]]
    /\ Cardinality(pool[ver[r]]) < PoolSize
    /\ pool' = [pool EXCEPT ![ver[r]] = @ \cup {mod[r]}]
    /\ inst' = [inst EXCEPT ![mod[r]] = 0]
    /\ mod' = [mod EXCEPT ![r] = None]
    /\ UNCHANGED <<manager, ver, start, mu>>

GiveBackToCurrent(r) ==
    /\ Goto(r, "giving", "done")
    /\ open[gen]
    /\ Cardinality(pool[gen]) < PoolSize
    /\ pool' = [pool EXCEPT ![gen] = @ \cup {mod[r]}]
    /\ mod' = [mod EXCEPT ![r] = None]
    /\ UNCHANGED <<manager, ver, start, mu, inst>>

GiveBackUnbounded(r) ==
    /\ Goto(r, "giving", "done")
    /\ open[ver[r]]
    /\ pool' = [pool EXCEPT ![ver[r]] = @ \cup {mod[r]}]
    /\ mod' = [mod EXCEPT ![r] = None]
    /\ UNCHANGED <<manager, ver, start, mu, inst>>

(* select { case pool <- mod: default: } *)
GiveBack(r) ==
    /\ Goto(r, "giving", "done")
    /\ open[ver[r]]
    /\ Cardinality(pool[ver[r]]) < PoolSize
    /\ pool' = [pool EXCEPT ![ver[r]] = @ \cup {mod[r]}]
    /\ mod' = [mod EXCEPT ![r] = None]
    /\ UNCHANGED <<manager, ver, start, mu, inst>>

PoolFull(r) ==
    /\ CloseModule(r, "giving")
    /\ open[ver[r]]
    /\ Cardinality(pool[ver[r]]) >= PoolSize

(* A send on a closed channel panics, also in a select with a default.     *)
(* Nobody refers to the instance any more.                                 *)
SendOnClosed(r) ==
    /\ Goto(r, "giving", "panicked")
    /\ ~open[ver[r]]
    /\ inst' = [inst EXCEPT ![mod[r]] = 0]
    /\ mod' = [mod EXCEPT ![r] = None]
    /\ UNCHANGED <<manager, ver, start, pool, mu>>

Return(r) ==
    /\ \E from \in {"done", "missing", "panicked"} : Goto(r, from, "idle")
    /\ ver' = [ver EXCEPT ![r] = 0]
    /\ start' = [start EXCEPT ![r] = 0]
    /\ UNCHANGED <<manager, mod, pool, mu, inst>>

------------------------------------------------------------------------------

Lock(r) == Lookup(r) \/ StartModule(r) \/ CodeMissing(r)

Guest(r) == Started(r) \/ StartEnded(r) \/ Transformed(r) \/ FallBack(r)

Step(r) == TakePooled(r) \/ PoolEmpty(r) \/ GiveBack(r) \/ PoolFull(r) \/ SendOnClosed(r) \/ Return(r)

Next ==
    \/ \E d \in Digests : RegisterSwap(d)
    \/ Drain \/ RegisterDone
    \/ \E g \in Gen : CloseOld(g)
    \/ \E r \in Runs : Call(r) \/ Lock(r) \/ Guest(r) \/ Step(r)

Spec == Init /\ [][Next]_vars

(* Goroutines run, and sync.Mutex starves nobody.  Nothing is assumed of   *)
(* the guest: the runtime is not told to stop it when ctx is done.         *)
FairSpec ==
    /\ Spec
    /\ WF_vars(Drain \/ RegisterDone)
    /\ \A r \in Runs : WF_vars(Step(r)) /\ SF_vars(Lock(r))

------------------------------------------------------------------------------
(* Properties *)

(* An instance has one user: the Run that works with it or the pool it     *)
(* waits in, never two, and it is not closed meanwhile.  Instances are not *)
(* safe for concurrent calls.                                              *)
InstanceExclusive ==
    /\ \A r, s \in Runs : mod[r] # None /\ mod[r] = mod[s] => r = s
    /\ \A r \in Runs, g \in Gen : mod[r] \notin pool[g]
    /\ \A r \in Runs : mod[r] # None => inst[mod[r]] # 0
    /\ \A g \in Gen : \A i \in pool[g] : inst[i] = g

(* "Existing in-flight requests finish with old logic, new requests use    *)
(* new logic": the instance a Run works with is of the generation it       *)
(* looked up, which is no older than the one current when it was called.   *)
RightLogic ==
    \A r \in Runs : mod[r] # None => inst[mod[r]] = ver[r] /\ ver[r] >= start[r]

(* Register leaves nothing behind: once it returned, the pool it replaced  *)
(* holds no instance and gets none from the Runs that still use it.        *)
NothingStranded ==
    \A g \in Gen : g < gen /\ mu # "register" => pool[g] = {}

(* What makes them inductive.  Where a Run is tells what it holds: an      *)
(* instance, the lock, a generation that has been registered.              *)
RunsPlaced ==
    /\ \A r \in Runs : mod[r] # None <=> pc[r] \in {"running", "giving"}
    /\ \A r \in Runs : mu = r <=> pc[r] = "starting"
    /\ \A r \in Runs : start[r] <= gen
    /\ \A r \in Runs :
          pc[r] \in {"looked", "instantiate", "starting", "running", "giving"} =>
              ver[r] \in 1..gen /\ start[r] <= ver[r]

(* Only the current pool takes instances, and only it, or the one that a   *)
(* Register is draining, holds any.                                        *)
PoolsPlaced ==
    /\ mu = "register" => gen > 0
    /\ \A g \in Gen : open[g] <=> g = gen /\ mu # "register"
    /\ \A g \in Gen : pool[g] # {} => g = IF mu = "register" THEN gen - 1 ELSE gen
    /\ \A g \in Gen : IsFiniteSet(pool[g])

(* The inductive invariant of Register and Run.                            *)
IInv == TypeOK /\ InstanceExclusive /\ RightLogic /\ RunsPlaced /\ PoolsPlaced

(* As long as guests return, so do Run and Register: neither the drain of  *)
(* the old pool nor the lock held during instantiation blocks them.        *)
RunsReturn ==
    (\A r \in Runs : []<>(pc[r] \notin {"starting", "running"}))
        => /\ mu = "register" ~> mu # "register"
           /\ \A r \in Runs : pc[r] = "called" ~> pc[r] = "idle"

(* "WASM middleware hot-swap without request drops": no Run panics because *)
(* a Register closed its pool (the send at the end of Run).                *)
HotSwapDropsNothing == \A r \in Runs : pc[r] # "panicked"

(* "New requests use new logic": a Run of the registered generation finds  *)
(* its code (the closer started by Register).                              *)
NewLogicServes == \A r \in Runs : pc[r] = "missing" => ver[r] # gen
==============================================================================
