--------------------------- MODULE RouteAdminProofs ---------------------------
(***************************************************************************)
(* Proofs about the configuration of routes, for any number of handlers,   *)
(* prefixes and configurations, and for both providers.                    *)
(***************************************************************************)
EXTENDS RouteAdmin, TLAPS

Places == {"idle", "pulling", "saving", "writing", "updating"}

(* A handler without work cannot be interfered with. *)
LEMMA IdleFacts ==
    /\ Idle \in Job
    /\ Idle.at = "idle"
    /\ ~Idle.clean
    /\ Interfered(Idle) = Idle
<1>1. Idle \in Job
  BY DEF Idle, Job, Config
<1>2. Idle.at = "idle" /\ Idle.goal = {} /\ Idle.clean = FALSE
  BY DEF Idle
<1>3. ASSUME NEW j \in Job, j.goal = {}, j.clean = FALSE
      PROVE  Interfered(j) = j
  <2>1. [j EXCEPT !.clean = FALSE] = j
    BY <1>3 DEF Job
  <2>2. [j EXCEPT !.goal = {}] = j
    BY <1>3 DEF Job
  <2> QED
    BY <2>1, <2>2 DEF Interfered
<1> QED
  BY <1>1, <1>2, <1>3

(* Work that was interfered with goes on as before. *)
LEMMA InterferedFacts ==
    ASSUME NEW j \in Job
    PROVE  /\ Interfered(j) \in Job
           /\ Interfered(j).at = j.at
           /\ Interfered(j).cur = j.cur
           /\ ~Interfered(j).clean
<1>1. {} \in Config
  BY DEF Config
<1>2. Interfered(j) \in Job
  BY <1>1 DEF Interfered, Job
<1>3. Interfered(j).at = j.at /\ Interfered(j).cur = j.cur /\ ~Interfered(j).clean
  BY DEF Interfered, Job
<1> QED
  BY <1>2, <1>3

(* A handler whose save failed is done, or is the console's. *)
LEMMA AfterFailureFacts ==
    ASSUME NEW j \in Job
    PROVE  /\ AfterFailure(j) \in Job
           /\ AfterFailure(j).at \in {"idle", "updating"}
           /\ ~AfterFailure(j).clean
<1>1. [Interfered(j) EXCEPT !.at = "updating"] \in Job
  BY InterferedFacts DEF Job
<1>2. /\ [Interfered(j) EXCEPT !.at = "updating"].at = "updating"
      /\ ~[Interfered(j) EXCEPT !.at = "updating"].clean
  BY InterferedFacts DEF Job
<1> QED
  BY <1>1, <1>2, IdleFacts DEF AfterFailure

(* A poller that was overtaken applies what it has, but not cleanly. *)
LEMMA OvertakenFacts ==
    ASSUME TypeOK
    PROVE  /\ Overtaken \in Poll
           /\ Overtaken.cur = poll.cur
           /\ ~Overtaken.clean
           /\ poll = Resting => Overtaken = Resting
<1>1. poll \in Poll
  BY DEF TypeOK
<1>2. Overtaken \in Poll /\ Overtaken.cur = poll.cur /\ ~Overtaken.clean
  BY <1>1 DEF Overtaken, Poll
<1>3. ASSUME poll = Resting PROVE Overtaken = Resting
  <2>1. poll.clean = FALSE
    BY <1>3 DEF Resting
  <2>2. [poll EXCEPT !.clean = FALSE] = poll
    BY <1>1, <2>1 DEF Poll
  <2> QED
    BY <1>3, <2>2 DEF Overtaken
<1> QED
  BY <1>1, <1>2, <1>3

(* A handler begins: the others, and the poller, are interfered with. *)
LEMMA BeginFacts ==
    ASSUME IInv, NEW w \in Workers, NEW j \in Job, Begin(w, j)
    PROVE  /\ process = "up" /\ job[w] = Idle
           /\ job' \in [Workers -> Job]
           /\ \A v \in Workers \ {w} : job'[v] = Interfered(job[v])
           /\ job'[w].at = j.at
           /\ ~Quiet => ~job'[w].clean
           /\ Quiet => job'[w] = j /\ \A v \in Workers \ {w} : job'[v] = Idle
           /\ \A v \in Workers : job'[v].clean => v = w /\ Quiet
           /\ \A v \in Workers : job[v].at # "idle" => job'[v].at = job[v].at
<1>1. job \in [Workers -> Job]
  BY DEF IInv, TypeOK
<1>2. /\ process = "up" /\ job[w] = Idle
      /\ job' = [v \in Workers |->
                   IF v # w THEN Interfered(job[v])
                   ELSE IF Quiet THEN j ELSE Interfered(j)]
  BY DEF Begin
<1>3. \A v \in Workers \ {w} : job'[v] = Interfered(job[v])
  BY <1>2
<1>4. job'[w] = IF Quiet THEN j ELSE Interfered(j)
  BY <1>2
<1>5. \A v \in Workers \ {w} : /\ job'[v] \in Job /\ ~job'[v].clean
                                /\ job'[v].at = job[v].at
  BY <1>1, <1>3, InterferedFacts
<1>6. /\ job'[w] \in Job /\ job'[w].at = j.at /\ (~Quiet => ~job'[w].clean)
      /\ (Quiet => job'[w] = j)
  BY <1>4, InterferedFacts
<1>7. job' \in [Workers -> Job]
  BY <1>2, <1>5, <1>6
<1>8. Quiet => \A v \in Workers \ {w} : job'[v] = Idle
  BY <1>3, IdleFacts DEF Quiet
<1>9. \A v \in Workers : job'[v].clean => v = w /\ Quiet
  BY <1>5, <1>6
<1>10. \A v \in Workers : job[v].at # "idle" => job'[v].at = job[v].at
  BY <1>2, <1>5, IdleFacts
<1> QED
  BY <1>2, <1>3, <1>6, <1>7, <1>8, <1>9, <1>10

(* It keeps the invariant if it has not saved yet and knows what is wanted. *)
LEMMA BeginInv ==
    ASSUME IInv, NEW w \in Workers, NEW j \in Job, Begin(w, j),
           UNCHANGED <<provider, store, late, process, live, last, history>>,
           j.clean => j.at # "updating",
           Synced /\ ~drift /\ j.clean /\ j.at \in {"saving", "writing"} => j.goal = j.cur
    PROVE  IInv'
<1> USE DEF IInv
<1>1. poll' = Overtaken /\ UNCHANGED <<stored, status, late, cut, drift, want, pending>>
  BY DEF Begin, store, history
<1>2. TypeOK'
  <2>1. process' = "up" /\ job' \in [Workers -> Job] /\ poll' \in Poll
    BY <1>1, BeginFacts, OvertakenFacts
  <2> QED
    BY <1>1, <2>1 DEF TypeOK
<1>3. TornIsCut'
  <2>1. \A v \in Workers : job[v].at = "writing" => job'[v].at = "writing"
    BY BeginFacts
  <2> QED
    BY <1>1, <2>1 DEF TornIsCut
<1>4. SyncedOrUnfinished'
  <2>1. \A v \in Workers : job[v].at \in {"writing", "updating"} =>
                               job'[v].at \in {"writing", "updating"}
    BY BeginFacts
  <2> QED
    BY <1>1, <2>1 DEF SyncedOrUnfinished, Synced, Unfinished
<1>5. CleanJobs'
  <2> SUFFICES ASSUME NEW v \in Workers, job'[v].clean
               PROVE  /\ poll' = Resting
                      /\ \A u \in Workers \ {v} : job'[u] = Idle
                      /\ job'[v].at = "updating" => stored' = job'[v].cur /\ status' # "torn"
                      /\ ~drift' /\ job'[v].at \in {"saving", "writing", "updating"}
                            => job'[v].goal = job'[v].cur
    BY DEF CleanJobs
  <2>1. v = w /\ Quiet /\ job'[v] = j
    BY BeginFacts
  <2>2. poll' = Resting /\ \A u \in Workers \ {v} : job'[u] = Idle
    BY <1>1, <2>1, BeginFacts, OvertakenFacts DEF Quiet
  <2>3. ~drift => Synced
    BY <2>1, IdleFacts DEF SyncedOrUnfinished, Unfinished, Quiet
  <2> QED
    BY <1>1, <2>1, <2>2, <2>3
<1>6. CleanPoll'
  BY <1>1, OvertakenFacts DEF CleanPoll
<1> QED
  BY <1>2, <1>3, <1>4, <1>5, <1>6

(* The four handlers begin that way. *)
LEMMA NewFacts == New \in Job /\ New.at = "idle" /\ New.clean
BY IdleFacts DEF New, Job

(* A route added or taken away from what is stored. *)
LEMMA ChangeInv ==
    ASSUME IInv, NEW w \in Workers, NEW c \in Config, NEW g \in Config,
           Synced /\ ~drift => g = c,
           Begin(w, [New EXCEPT !.at = "saving", !.cur = c, !.goal = IF drift THEN {} ELSE g]),
           UNCHANGED <<provider, store, late, process, live, last, history>>
    PROVE  IInv'
<1> DEFINE goal == IF drift THEN {} ELSE g
           j == [New EXCEPT !.at = "saving", !.cur = c, !.goal = goal]
<1>1. goal \in Config /\ (~drift => goal = g)
  BY DEF Config
<1> HIDE DEF goal
<1>2. j \in Job /\ j.at = "saving" /\ j.cur = c /\ j.goal = goal
  BY <1>1, NewFacts DEF Job
<1>3. Begin(w, j)
  BY DEF goal
<1> HIDE DEF j
<1>4. Synced /\ ~drift => j.goal = j.cur
  BY <1>1, <1>2
<1> QED
  BY <1>2, <1>3, <1>4, BeginInv

(* A whole configuration from the console; it skips the save when the load *)
(* fails.                                                                  *)
LEMMA ConsoleSyncInv ==
    ASSUME IInv, NEW w \in Workers, NEW c \in Payloads, ConsoleSync(w, c) PROVE IInv'
<1>1. PICK loads \in {Loadable, FALSE} :
          Begin(w, [New EXCEPT !.at = IF loads THEN "saving" ELSE "updating",
                                !.sync = TRUE, !.clean = loads,
                                !.cur = c, !.goal = IF drift THEN {} ELSE c])
  BY DEF ConsoleSync
<1> DEFINE at == IF loads THEN "saving" ELSE "updating"
           goal == IF drift THEN {} ELSE c
           j == [New EXCEPT !.at = at, !.sync = TRUE, !.clean = loads, !.cur = c, !.goal = goal]
<1>2. /\ c \in Config /\ goal \in Config /\ (~drift => goal = c)
      /\ at \in Places /\ loads \in BOOLEAN /\ (loads => at # "updating")
  BY RouteAdminAssumption DEF RouteAdminAssumption, Config, Places, Loadable
<1>3. Begin(w, j) /\ UNCHANGED <<provider, store, late, process, live, last, history>>
  BY <1>1 DEF ConsoleSync
<1> HIDE DEF goal, at
<1>4. j \in Job
  BY <1>2, NewFacts DEF Job, Places
<1>5. j.at = at /\ j.cur = c /\ j.goal = goal
  BY <1>2, NewFacts DEF Job, Places
<1>6. j.clean => loads
  BY <1>2, NewFacts DEF Job, Places
<1> HIDE DEF j
<1>7. j.clean => j.at # "updating"
  BY <1>2, <1>5, <1>6
<1>8. ~drift => j.goal = j.cur
  BY <1>2, <1>5
<1> QED
  BY <1>3, <1>4, <1>7, <1>8, BeginInv

(* A pull that begins changes neither store nor routes. *)
LEMMA GitPullInv == ASSUME IInv, NEW w \in Workers, GitPull(w) PROVE IInv'
<1> DEFINE j == [New EXCEPT !.at = "pulling"]
<1>1. j \in Job /\ j.at = "pulling"
  BY NewFacts DEF Job
<1>2. Begin(w, j) /\ UNCHANGED <<provider, store, late, process, live, last, history>>
  BY DEF GitPull
<1> HIDE DEF j
<1> QED
  BY <1>1, <1>2, BeginInv

(* Each of the four handlers. *)
LEMMA HandlersInv ==
    ASSUME IInv, NEW w \in Workers,
           \/ \E p \in Posts : PostRoute(w, p)
           \/ \E p \in Deletes : DeleteRoute(w, p)
           \/ \E c \in Payloads : ConsoleSync(w, c)
           \/ GitPull(w)
    PROVE  IInv'
<1>1. stored \in Config /\ want \in Config
  BY DEF IInv, TypeOK
<1>2. ASSUME NEW p \in Posts, PostRoute(w, p) PROVE IInv'
  <2>1. stored \cup {p} \in Config /\ want \cup {p} \in Config
    BY <1>1, RouteAdminAssumption DEF RouteAdminAssumption, Config
  <2>2. Synced => want \cup {p} = stored \cup {p}
    BY DEF Synced
  <2> QED
    BY <1>2, <2>1, <2>2, ChangeInv DEF PostRoute
<1>3. ASSUME NEW p \in Deletes, DeleteRoute(w, p) PROVE IInv'
  <2>1. stored \ {p} \in Config /\ want \ {p} \in Config
    BY <1>1 DEF Config
  <2>2. Synced => want \ {p} = stored \ {p}
    BY DEF Synced
  <2> QED
    BY <1>3, <2>1, <2>2, ChangeInv DEF DeleteRoute
<1> QED
  BY <1>2, <1>3, ConsoleSyncInv, GitPullInv

------------------------------------------------------------------------------
(* A handler at work moves on.                                             *)

Typed ==
    /\ stored' \in Config /\ status' \in {"ok", "expired", "torn"} /\ live' \in Config
    /\ cut' \in BOOLEAN /\ drift' \in BOOLEAN /\ want' \in Config
    /\ pending' \in Config \cup {None} /\ late' \subseteq Config

(* A handler moves alone. *)
LEMMA SetJobFacts ==
    ASSUME TypeOK, NEW w \in Workers, NEW j \in Job, SetJob(w, j)
    PROVE  /\ job' \in [Workers -> Job]
           /\ job'[w] = j
           /\ \A v \in Workers \ {w} : job'[v] = job[v]
BY DEF TypeOK, SetJob

(* What a handler under way has to see to, whatever it changes. *)
LEMMA MoveInv ==
    ASSUME IInv, NEW w \in Workers, NEW j \in Job, job[w].at # "idle", SetJob(w, j),
           UNCHANGED <<provider, process, last, poll>>, Typed,
           j.clean => job[w].clean,
           j.clean /\ j.at = "updating" => stored' = j.cur /\ status' # "torn",
           j.clean /\ ~drift' /\ j.at \in {"saving", "writing", "updating"} => j.goal = j.cur,
           TornIsCut', SyncedOrUnfinished'
    PROVE  IInv'
<1> USE DEF IInv
<1>1. job[w] # Idle
  BY IdleFacts
<1>2. TypeOK'
  <2>1. process # "down"
    BY <1>1 DEF TypeOK
  <2> QED
    BY <2>1, SetJobFacts DEF TypeOK, Typed
<1>3. CleanJobs'
  <2> SUFFICES ASSUME NEW v \in Workers, job'[v].clean
               PROVE  /\ poll' = Resting
                      /\ \A u \in Workers \ {v} : job'[u] = Idle
                      /\ job'[v].at = "updating" => stored' = job'[v].cur /\ status' # "torn"
                      /\ ~drift' /\ job'[v].at \in {"saving", "writing", "updating"}
                            => job'[v].goal = job'[v].cur
    BY DEF CleanJobs
  <2>1. v = w
    BY <1>1, SetJobFacts DEF CleanJobs
  <2>2. job'[v] = j /\ job[w].clean
    BY <2>1, SetJobFacts
  <2>3. poll' = Resting /\ \A u \in Workers \ {v} : job'[u] = Idle
    BY <2>1, <2>2, SetJobFacts DEF CleanJobs
  <2> QED
    BY <2>2, <2>3
<1>4. CleanPoll'
  BY <1>1 DEF CleanPoll
<1> QED
  BY <1>2, <1>3, <1>4

(* What was pulled is loaded, or the handler gives up. *)
LEMMA GitLoadInv == ASSUME IInv, NEW w \in Workers, GitLoad(w) PROVE IInv'
<1> DEFINE goal == IF drift THEN {} ELSE want
           loaded == [job[w] EXCEPT !.at = "updating", !.cur = stored, !.goal = goal]
<1>1. PICK j \in {loaded, Idle} :
          /\ job[w].at = "pulling" /\ SetJob(w, j) /\ (j = loaded => Loadable \/ loaded = Idle)
          /\ UNCHANGED <<provider, stored, status, late, process, live, last, poll, cut, drift,
                         want, pending>>
  BY DEF GitLoad, store, history
<1>2. /\ stored \in Config /\ goal \in Config /\ (~drift => goal = want)
      /\ job \in [Workers -> Job] /\ job[w] \in Job
  BY DEF IInv, TypeOK, Config
<1> HIDE DEF goal
<1>3. /\ loaded \in Job /\ loaded.at = "updating" /\ loaded.cur = stored /\ loaded.goal = goal
      /\ loaded.clean = job[w].clean
  BY <1>2 DEF Job
<1> HIDE DEF loaded
<1>4. j \in Job /\ j.at \in {"idle", "updating"} /\ (j.clean => j = loaded /\ Loadable)
  BY <1>1, <1>3, IdleFacts
<1>5. j.clean => job[w].clean
  BY <1>3, <1>4
<1>6. j.clean => stored' = j.cur /\ status' # "torn"
  BY <1>1, <1>3, <1>4 DEF Loadable
<1>7. j.clean /\ ~drift' => j.goal = j.cur
  <2> SUFFICES ASSUME j.clean, ~drift PROVE j.goal = j.cur
    BY <1>1
  <2>1. ~Unfinished
    BY <1>1, <1>5, IdleFacts DEF IInv, CleanJobs, Unfinished
  <2>2. stored = want
    BY <2>1 DEF IInv, SyncedOrUnfinished, Synced
  <2> QED
    BY <1>2, <1>3, <1>4, <2>2
<1>8. \A v \in Workers : job[v].at \in {"writing", "updating"} => job'[v].at = job[v].at
  BY <1>1, <1>4, SetJobFacts DEF IInv
<1>9. TornIsCut' /\ SyncedOrUnfinished'
  BY <1>1, <1>8 DEF IInv, TornIsCut, SyncedOrUnfinished, Synced, Unfinished
<1>10. Typed
  BY <1>1 DEF Typed, IInv, TypeOK
<1> QED
  BY <1>1, <1>4, <1>5, <1>6, <1>7, <1>9, <1>10, MoveInv

(* The saves.  What a failed one leaves to do is interfered with. *)
LEMMA FailedSave ==
    ASSUME IInv, NEW w \in Workers, job[w].at # "idle", SetJob(w, AfterFailure(job[w])),
           UNCHANGED <<provider, process, last, poll>>, Typed, TornIsCut', SyncedOrUnfinished'
    PROVE  IInv'
<1>1. job[w] \in Job
  BY DEF IInv, TypeOK
<1> QED
  BY <1>1, AfterFailureFacts, MoveInv

(* A handler goes on to another place with the configuration it has. *)
LEMMA WentOn ==
    ASSUME IInv, NEW w \in Workers, NEW at \in {"writing", "updating"},
           SetJob(w, [job[w] EXCEPT !.at = at])
    PROVE  LET j == [job[w] EXCEPT !.at = at]
           IN  /\ j \in Job /\ j.at = at /\ j.cur = job[w].cur /\ j.goal = job[w].goal
               /\ j.clean = job[w].clean /\ job'[w] = j
               /\ \A v \in Workers \ {w} : job'[v] = job[v]
<1>1. job[w] \in Job
  BY DEF IInv, TypeOK
<1>2. LET j == [job[w] EXCEPT !.at = at]
      IN  /\ j \in Job /\ j.at = at /\ j.cur = job[w].cur /\ j.goal = job[w].goal
          /\ j.clean = job[w].clean
  BY <1>1 DEF Job
<1> QED
  BY <1>2, SetJobFacts DEF IInv

(* The types of what Put writes. *)
LEMMA PutFacts ==
    ASSUME IInv, NEW c \in Config, NEW s \in {"ok", "expired", "torn"}, Put(c, s)
    PROVE  /\ stored' \in Config /\ status' \in {"ok", "expired", "torn"}
           /\ pending' \in Config \cup {None}
BY DEF Put, IInv, TypeOK

(* A save that succeeds: storage has the handler's configuration, and the  *)
(* handler is about to update memory.                                      *)
LEMMA SavedInv ==
    ASSUME IInv, NEW w \in Workers, job[w].at \in {"saving", "writing"},
           Put(job[w].cur, "ok"), SetJob(w, [job[w] EXCEPT !.at = "updating"]),
           UNCHANGED <<provider, late, process, live, last, poll, cut, drift, want>>
    PROVE  IInv'
<1> DEFINE j == [job[w] EXCEPT !.at = "updating"]
<1>1. /\ j \in Job /\ j.at = "updating" /\ j.cur = job[w].cur /\ j.goal = job[w].goal
      /\ j.clean = job[w].clean /\ job'[w] = j /\ SetJob(w, j)
  BY WentOn
<1> HIDE DEF j
<1>2. job[w].cur \in Config
  BY DEF IInv, TypeOK, Job
<1>3. Typed
  BY <1>2, PutFacts DEF Typed, IInv, TypeOK
<1>4. stored' = j.cur /\ status' = "ok"
  BY <1>1 DEF Put
<1>5. j.clean /\ ~drift' => j.goal = j.cur
  BY <1>1 DEF IInv, CleanJobs
<1>6. TornIsCut' /\ SyncedOrUnfinished'
  BY <1>1, <1>4 DEF TornIsCut, SyncedOrUnfinished, Unfinished
<1>7. j.clean => job[w].clean
  BY <1>1
<1> QED
  BY <1>1, <1>3, <1>4, <1>5, <1>6, <1>7, MoveInv

(* A save that fails without touching storage. *)
LEMMA NotSavedInv ==
    ASSUME IInv, NEW w \in Workers, job[w].at = "saving", SetJob(w, AfterFailure(job[w])),
           UNCHANGED <<provider, process, stored, status, live, last, poll, cut, drift, want,
                       pending>>,
           late' \subseteq Config
    PROVE  IInv'
<1>1. job[w] \in Job
  BY DEF IInv, TypeOK
<1>2. \A v \in Workers : job[v].at \in {"writing", "updating"} => job'[v].at = job[v].at
  BY <1>1, AfterFailureFacts, SetJobFacts DEF IInv
<1>3. TornIsCut' /\ SyncedOrUnfinished'
  BY <1>2 DEF IInv, TornIsCut, SyncedOrUnfinished, Synced, Unfinished
<1>4. Typed
  BY DEF Typed, IInv, TypeOK
<1> QED
  BY <1>3, <1>4, FailedSave

(* A PUT takes effect or not, and is answered or not. *)
LEMMA PutObjectInv == ASSUME IInv, NEW w \in Workers, PutObject(w) PROVE IInv'
<1>1. /\ job[w].at = "saving" /\ UNCHANGED <<provider, process, live, last, poll, cut>>
      /\ job[w] \in Job
  BY DEF PutObject, IInv, TypeOK
<1>2. job[w].cur \in Config /\ late' \subseteq Config
  <2>1. job[w].cur \in Config /\ late \subseteq Config
    BY <1>1 DEF Job, IInv, TypeOK
  <2>2. late' = late \/ late' = late \cup {job[w].cur}
    BY DEF PutObject
  <2> QED
    BY <2>1, <2>2
<1>3. CASE /\ Put(job[w].cur, "ok") /\ UNCHANGED <<drift, want, late>>
           /\ SetJob(w, [job[w] EXCEPT !.at = "updating"])
  BY <1>1, <1>3, SavedInv
<1>4. CASE Put(job[w].cur, "ok") /\ SetJob(w, AfterFailure(job[w])) /\ Drifts
  <2>1. job[w].cur \in Config /\ late' \subseteq Config
    BY <1>2
  <2>2. drift' = TRUE /\ want' = {} /\ status' = "ok"
    BY <1>4 DEF Drifts, Put
  <2>3. Typed
    BY <1>1, <1>4, <2>1, <2>2, PutFacts DEF Typed, IInv, TypeOK, Config
  <2>4. TornIsCut' /\ SyncedOrUnfinished'
    BY <2>2 DEF TornIsCut, SyncedOrUnfinished
  <2> QED
    BY <1>1, <1>4, <2>3, <2>4, FailedSave
<1>5. CASE SetJob(w, AfterFailure(job[w])) /\ UNCHANGED <<store, drift, want, pending>>
  BY <1>1, <1>5, <1>2, NotSavedInv DEF store
<1> QED
  BY <1>3, <1>4, <1>5 DEF PutObject

(* The file is torn, and its writer not done. *)
LEMMA TruncateInv == ASSUME IInv, NEW w \in Workers, Truncate(w) PROVE IInv'
<1>1. /\ job[w].at = "saving" /\ job[w] \in Job
      /\ UNCHANGED <<provider, late, process, live, last, poll, cut, drift, want>>
  BY DEF Truncate, IInv, TypeOK
<1>2. CASE SetJob(w, [job[w] EXCEPT !.at = "writing"]) /\ Put(stored, "torn")
  <2> DEFINE j == [job[w] EXCEPT !.at = "writing"]
  <2>1. /\ j \in Job /\ j.at = "writing" /\ j.cur = job[w].cur /\ j.goal = job[w].goal
        /\ j.clean = job[w].clean /\ job'[w] = j /\ SetJob(w, j)
    BY <1>2, WentOn
  <2> HIDE DEF j
  <2>2. stored \in Config
    BY DEF IInv, TypeOK
  <2>3. Typed
    BY <1>1, <1>2, <2>2, PutFacts DEF Typed, IInv, TypeOK
  <2>4. j.clean /\ ~drift' => j.goal = j.cur
    BY <1>1, <2>1 DEF IInv, CleanJobs
  <2>5. TornIsCut' /\ SyncedOrUnfinished'
    BY <2>1 DEF TornIsCut, SyncedOrUnfinished, Unfinished
  <2>6. j.clean => job[w].clean
    BY <2>1
  <2> QED
    BY <1>1, <2>1, <2>3, <2>4, <2>5, <2>6, MoveInv
<1>3. CASE SetJob(w, AfterFailure(job[w])) /\ UNCHANGED <<store, pending>>
  <2>1. late' \subseteq Config
    BY <1>1 DEF IInv, TypeOK
  <2> QED
    BY <1>1, <1>3, <2>1, NotSavedInv DEF store
<1> QED
  BY <1>2, <1>3 DEF Truncate

(* The file is whole again. *)
LEMMA WriteFileInv == ASSUME IInv, NEW w \in Workers, WriteFile(w) PROVE IInv'
<1>1. /\ job[w].at = "writing" /\ job[w] \in Job
      /\ UNCHANGED <<provider, late, process, live, last, poll>>
  BY DEF WriteFile, IInv, TypeOK
<1>2. CASE /\ Put(job[w].cur, "ok") /\ UNCHANGED <<cut, drift, want>>
           /\ SetJob(w, [job[w] EXCEPT !.at = "updating"])
  BY <1>1, <1>2, SavedInv
<1>3. CASE /\ Put(stored, "torn") \/ UNCHANGED <<store, pending>>
           /\ SetJob(w, AfterFailure(job[w])) /\ cut' = TRUE /\ Drifts
  <2>1. drift' = TRUE /\ want' = {}
    BY <1>3 DEF Drifts
  <2>2. /\ stored' \in Config /\ status' \in {"ok", "expired", "torn"}
        /\ pending' \in Config \cup {None}
    BY <1>3, PutFacts DEF IInv, TypeOK, store
  <2>3. Typed
    BY <1>1, <1>3, <2>1, <2>2 DEF Typed, IInv, TypeOK, Config
  <2>4. TornIsCut' /\ SyncedOrUnfinished'
    BY <1>3, <2>1 DEF TornIsCut, SyncedOrUnfinished
  <2> QED
    BY <1>1, <1>3, <2>3, <2>4, FailedSave
<1> QED
  BY <1>2, <1>3 DEF WriteFile

(* A change made alone brings memory and storage in step; any other one    *)
(* counts as drift.                                                        *)
LEMMA FinishInv == ASSUME IInv, NEW w \in Workers, Finish(w) PROVE IInv'
<1>1. /\ job[w].at = "updating" /\ SetJob(w, Idle) /\ UpdateRoutes(job[w].cur) /\ Settle(job[w])
      /\ UNCHANGED <<provider, stored, status, late, process, last, poll, cut>> /\ job[w] \in Job
  BY DEF Finish, IInv, TypeOK, store
<1>2. job[w].cur \in Config /\ job[w].goal \in Config
  BY <1>1 DEF Job
<1>3. live' = job[w].cur /\ pending' \in Config \cup {None}
  BY <1>1 DEF UpdateRoutes, IInv, TypeOK
<1>4. CASE job[w].clean
  <2>1. drift' = FALSE /\ want' = job[w].cur
    <3>1. ~drift => job[w].goal = job[w].cur
      BY <1>1, <1>4 DEF IInv, CleanJobs
    <3> QED
      BY <1>1, <1>4, <3>1 DEF Settle, InStepAt
  <2>2. stored' = job[w].cur /\ status' # "torn"
    BY <1>1, <1>4 DEF IInv, CleanJobs
  <2> QED
    <3>1. TornIsCut' /\ SyncedOrUnfinished'
      BY <1>3, <2>1, <2>2 DEF TornIsCut, SyncedOrUnfinished, Synced
    <3>2. Typed
      BY <1>1, <1>2, <1>3, <2>1 DEF Typed, IInv, TypeOK
    <3> QED
      BY <1>1, <3>1, <3>2, IdleFacts, MoveInv
<1>5. CASE ~job[w].clean
  <2>1. drift' = TRUE /\ want' = {}
    BY <1>1, <1>5 DEF Settle, Drifts
  <2>2. TornIsCut' /\ SyncedOrUnfinished'
    <3>1. \A v \in Workers : job[v].at = "writing" => job'[v].at = "writing"
      BY <1>1, IdleFacts, SetJobFacts DEF IInv
    <3> QED
      BY <1>1, <2>1, <3>1 DEF IInv, TornIsCut, SyncedOrUnfinished
  <2>3. Typed
    BY <1>1, <1>2, <1>3, <2>1 DEF Typed, IInv, TypeOK, Config
  <2> QED
    BY <1>1, <2>2, <2>3, IdleFacts, MoveInv
<1> QED
  BY <1>4, <1>5

------------------------------------------------------------------------------
(* The poller, the process and the world outside *)

(* Everybody at work is interfered with. *)
LEMMA InterferedAll ==
    ASSUME IInv, job' = [w \in Workers |-> Interfered(job[w])]
    PROVE  /\ job' \in [Workers -> Job]
           /\ \A w \in Workers : ~job'[w].clean /\ job'[w].at = job[w].at
           /\ \A w \in Workers : job[w] = Idle => job'[w] = Idle
<1>1. job \in [Workers -> Job]
  BY DEF IInv, TypeOK
<1>2. \A w \in Workers : job'[w] = Interfered(job[w])
  OBVIOUS
<1>3. \A w \in Workers : /\ job'[w] \in Job /\ ~job'[w].clean /\ job'[w].at = job[w].at
                         /\ job[w] = Idle => job'[w] = Idle
  BY <1>1, <1>2, InterferedFacts, IdleFacts
<1> QED
  BY <1>3

(* The poller has read what is stored. *)
LEMMA PollLoadInv == ASSUME IInv, PollLoad PROVE IInv'
<1> USE DEF IInv
<1>1. /\ process # "down" /\ Loadable /\ poll' = [cur |-> stored, clean |-> Quiet]
      /\ job' = [w \in Workers |-> Interfered(job[w])]
      /\ UNCHANGED <<provider, stored, status, late, process, live, last, cut, drift, want, pending>>
  BY DEF PollLoad, store, history
<1>2. stored \in Config /\ Quiet \in BOOLEAN
  BY DEF TypeOK, Quiet
<1>3. poll' \in Poll /\ poll'.cur = stored /\ (poll'.clean => Quiet)
  BY <1>1, <1>2 DEF Poll
<1>4. TypeOK'
  BY <1>1, <1>3, InterferedAll DEF TypeOK
<1>5. TornIsCut' /\ SyncedOrUnfinished'
  BY <1>1, InterferedAll DEF TornIsCut, SyncedOrUnfinished, Synced, Unfinished
<1>6. CleanJobs'
  BY <1>1, InterferedAll DEF CleanJobs
<1>7. CleanPoll'
  BY <1>1, <1>2, <1>3, InterferedAll DEF CleanPoll, Quiet, Loadable
<1> QED
  BY <1>4, <1>5, <1>6, <1>7

(* The poller makes it live. *)
LEMMA PollApplyInv == ASSUME IInv, PollApply PROVE IInv'
<1> USE DEF IInv
<1>1. /\ poll # Resting /\ poll' = Resting /\ last' = poll.cur /\ UpdateRoutes(poll.cur)
      /\ UNCHANGED <<provider, stored, status, late, process, job, cut>>
      /\ (IF poll.clean THEN InStepAt(poll.cur) ELSE Drifts)
  BY DEF PollApply, store
<1>2. poll.cur \in Config
  BY <1>1 DEF CleanPoll
<1>3. live' = poll.cur /\ pending' \in Config \cup {None}
  BY <1>1 DEF UpdateRoutes, TypeOK
<1>4. drift' \in BOOLEAN /\ want' \in Config
  BY <1>1, <1>2 DEF InStepAt, Drifts, Config
<1>5. Resting \in Poll /\ ~Resting.clean
  BY DEF Resting, Poll
<1>6. TypeOK'
  BY <1>1, <1>2, <1>3, <1>4, <1>5 DEF TypeOK
<1>7. TornIsCut'
  BY <1>1 DEF TornIsCut
<1>8. SyncedOrUnfinished'
  <2>1. CASE poll.clean
    BY <1>1, <1>3, <2>1 DEF InStepAt, CleanPoll, SyncedOrUnfinished, Synced
  <2>2. CASE ~poll.clean
    BY <1>1, <2>2 DEF Drifts, SyncedOrUnfinished
  <2> QED
    BY <2>1, <2>2
<1>9. CleanJobs'
  BY <1>1 DEF CleanJobs
<1>10. CleanPoll'
  BY <1>1, <1>5 DEF CleanPoll
<1> QED
  BY <1>6, <1>7, <1>8, <1>9, <1>10

(* Somebody else writes the bucket. *)
LEMMA PublishInv == ASSUME IInv, NEW c \in Published, Publish(c) PROVE IInv'
<1> USE DEF IInv
<1>1. /\ stored' = c /\ status' = "ok" /\ poll' = Overtaken /\ drift' = TRUE /\ want' = {}
      /\ pending' \in {c, None} /\ job' = [w \in Workers |-> Interfered(job[w])]
      /\ UNCHANGED <<provider, late, process, live, last, cut>>
  BY DEF Publish, Drifts
<1>2. c \in Config /\ {} \in Config
  BY RouteAdminAssumption DEF RouteAdminAssumption, Config
<1>3. TypeOK'
  BY <1>1, <1>2, InterferedAll, OvertakenFacts DEF TypeOK
<1>4. TornIsCut' /\ SyncedOrUnfinished'
  BY <1>1 DEF TornIsCut, SyncedOrUnfinished
<1>5. CleanJobs'
  BY <1>1, InterferedAll DEF CleanJobs
<1>6. CleanPoll'
  BY <1>1, OvertakenFacts DEF CleanPoll
<1> QED
  BY <1>3, <1>4, <1>5, <1>6

(* A PUT that was given up lands. *)
LEMMA LandLateInv == ASSUME IInv, NEW c \in late, LandLate(c) PROVE IInv'
<1> USE DEF IInv
<1>1. /\ stored' = c /\ status' = "ok" /\ poll' = Overtaken /\ drift' = TRUE /\ want' = {}
      /\ pending' \in {pending, None} /\ late' = late \ {c}
      /\ job' = [w \in Workers |-> Interfered(job[w])]
      /\ UNCHANGED <<provider, process, live, last, cut>>
  BY DEF LandLate, Put, Drifts
<1>2. /\ c \in Config /\ {} \in Config /\ late' \subseteq Config
      /\ pending' \in Config \cup {None}
  BY <1>1 DEF TypeOK, Config
<1>3. TypeOK'
  BY <1>1, <1>2, InterferedAll, OvertakenFacts DEF TypeOK
<1>4. TornIsCut' /\ SyncedOrUnfinished'
  BY <1>1 DEF TornIsCut, SyncedOrUnfinished
<1>5. CleanJobs'
  BY <1>1, InterferedAll DEF CleanJobs
<1>6. CleanPoll'
  BY <1>1, OvertakenFacts DEF CleanPoll
<1> QED
  BY <1>3, <1>4, <1>5, <1>6

(* A registration, the end of a signature's day and SIGTERM. *)
LEMMA AsideInv ==
    ASSUME IInv, Expire \/ Terminate \/ \E p \in Posts : RegisterRoute(p)
    PROVE  IInv'
<1> USE DEF IInv
<1>1. CASE Expire
  <2>1. /\ status = "ok" /\ status' = "expired" /\ stored' = stored
        /\ pending' \in Config \cup {None}
        /\ UNCHANGED <<provider, late, process, live, job, last, poll, cut, drift, want>>
    BY <1>1 DEF Expire, Put, Loadable, TypeOK
  <2> QED
    BY <2>1 DEF TypeOK, TornIsCut, SyncedOrUnfinished, Synced, Unfinished, CleanJobs, CleanPoll
<1>2. CASE Terminate
  <2>1. /\ process' = "draining" /\ pending' = None
        /\ UNCHANGED <<provider, stored, status, late, live, job, last, poll, cut, drift, want>>
    BY <1>2 DEF Terminate, store
  <2> QED
    BY <2>1 DEF TypeOK, TornIsCut, SyncedOrUnfinished, Synced, Unfinished, CleanJobs, CleanPoll
<1>3. CASE \E p \in Posts : RegisterRoute(p)
  <2>1. PICK p \in Posts : RegisterRoute(p)
    BY <1>3
  <2>2. /\ live' = live \cup {p} /\ drift' = TRUE /\ want' = {}
        /\ pending' \in Config \cup {None}
        /\ UNCHANGED <<provider, stored, status, late, process, job, last, poll, cut>>
    BY <2>1 DEF RegisterRoute, UpdateRoutes, Drifts, store, TypeOK
  <2>3. live' \in Config /\ want' \in Config
    BY <2>2, RouteAdminAssumption DEF RouteAdminAssumption, TypeOK, Config
  <2>4. TypeOK'
    BY <2>2, <2>3 DEF TypeOK
  <2> QED
    BY <2>2, <2>4 DEF TornIsCut, SyncedOrUnfinished, CleanJobs, CleanPoll
<1> QED
  BY <1>1, <1>2, <1>3

(* The process ends; a write under way is cut. *)
LEMMA ExitInv == ASSUME IInv, Exit PROVE IInv'
<1> USE DEF IInv
<1>1. /\ process' = "down" /\ job' = [w \in Workers |-> Idle] /\ poll' = Resting
      /\ pending' = None /\ drift' = TRUE /\ want' = {} /\ live' = {} /\ last' = {}
      /\ UNCHANGED <<provider, stored, late>>
  BY DEF Exit, Drifts
<1>2. status' \in {"ok", "expired", "torn"} /\ cut' \in BOOLEAN
  BY DEF Exit, TypeOK
<1>3. {} \in Config /\ Resting \in Poll /\ ~Resting.clean
  BY DEF Config, Resting, Poll
<1>4. TypeOK'
  BY <1>1, <1>2, <1>3, IdleFacts DEF TypeOK
<1>5. TornIsCut'
  BY DEF Exit, TornIsCut
<1>6. SyncedOrUnfinished'
  BY <1>1 DEF SyncedOrUnfinished
<1>7. CleanJobs' /\ CleanPoll'
  BY <1>1, <1>3, IdleFacts DEF CleanJobs, CleanPoll
<1> QED
  BY <1>4, <1>5, <1>6, <1>7

(* A start makes live what is stored. *)
LEMMA BootInv == ASSUME IInv, Boot PROVE IInv'
<1> USE DEF IInv
<1>1. /\ status = "ok" /\ process' = "up" /\ live' = stored /\ last' = stored
      /\ drift' = FALSE /\ want' = stored
      /\ UNCHANGED <<provider, stored, status, late, job, poll, cut, pending>>
      /\ poll = Resting /\ \A w \in Workers : job[w] = Idle
  BY DEF Boot, Loadable, InStepAt, store, TypeOK
<1>2. TypeOK'
  BY <1>1 DEF TypeOK
<1>3. TornIsCut' /\ SyncedOrUnfinished'
  BY <1>1 DEF TornIsCut, SyncedOrUnfinished, Synced
<1>4. CleanJobs' /\ CleanPoll'
  BY <1>1, IdleFacts DEF CleanJobs, CleanPoll
<1> QED
  BY <1>2, <1>3, <1>4

(* A gateway that has just started. *)
LEMMA InitIInv == ASSUME Init PROVE IInv
<1> USE DEF Init
<1>1. /\ stored \in Config /\ Resting \in Poll /\ ~Resting.clean
  BY RouteAdminAssumption DEF RouteAdminAssumption, Config, Resting, Poll
<1>2. TypeOK
  BY <1>1, IdleFacts DEF TypeOK
<1>3. TornIsCut /\ SyncedOrUnfinished
  BY DEF TornIsCut, SyncedOrUnfinished, Synced
<1>4. CleanJobs /\ CleanPoll
  BY <1>1, IdleFacts DEF CleanJobs, CleanPoll
<1> QED
  BY <1>2, <1>3, <1>4 DEF IInv

(* The steps together. *)
LEMMA NextIInv == ASSUME IInv, [Next]_vars PROVE IInv'
<1>1. CASE PollLoad \/ PollApply
  BY <1>1, PollLoadInv, PollApplyInv
<1>2. CASE Exit \/ Boot
  BY <1>2, ExitInv, BootInv
<1>3. CASE Expire \/ Terminate \/ \E p \in Posts : RegisterRoute(p)
  BY <1>3, AsideInv
<1>4. CASE (\E c \in Published : Publish(c)) \/ (\E c \in late : LandLate(c))
  BY <1>4, PublishInv, LandLateInv
<1>5. ASSUME NEW w \in Workers,
             \/ \E p \in Posts : PostRoute(w, p)
             \/ \E p \in Deletes : DeleteRoute(w, p)
             \/ \E c \in Payloads : ConsoleSync(w, c)
             \/ GitPull(w)
      PROVE  IInv'
  BY <1>5, HandlersInv
<1>6. ASSUME NEW w \in Workers, GitLoad(w) \/ Save(w) \/ Finish(w)
      PROVE  IInv'
  BY <1>6, GitLoadInv, PutObjectInv, TruncateInv, WriteFileInv, FinishInv DEF Save
<1>7. CASE UNCHANGED vars
  BY <1>7 DEF vars, store, history, IInv, TypeOK, TornIsCut, SyncedOrUnfinished, Synced,
              Unfinished, CleanJobs, CleanPoll
<1> QED
  BY <1>1, <1>2, <1>3, <1>4, <1>5, <1>6, <1>7 DEF Next

------------------------------------------------------------------------------

(* The inductive invariant of the configuration: what a handler or a poll  *)
(* that nothing interfered with may rely on.                               *)
THEOREM RoutesInvariant == Spec => []IInv
<1> QED
  BY InitIInv, NextIInv, PTL DEF Spec

(* The file does not load only while it is being written or after a write  *)
(* that was cut short, whoever writes it at the same time.                 *)
THEOREM TornOnlyByCut == Spec => []TornIsCut
<1>1. IInv => TornIsCut
  BY DEF IInv
<1> QED
  BY <1>1, RoutesInvariant, PTL

(* When nobody is at work and nothing made them drift, the routes that are *)
(* served are the stored ones, and the ones the changes so far amount to.  *)
THEOREM ServedIsStored == Spec => []InStep
<1>1. IInv => InStep
  BY IdleFacts DEF IInv, SyncedOrUnfinished, Synced, Unfinished, Quiet, InStep
<1> QED
  BY <1>1, RoutesInvariant, PTL
==============================================================================
