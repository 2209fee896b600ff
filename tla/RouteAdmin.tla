------------------------------ MODULE RouteAdmin ------------------------------
(***************************************************************************)
(* The configuration of routes: the copy in storage (a file or an object   *)
(* in a bucket, src/pkg/proxy/provider.go), the copy in memory that        *)
(* ServeHTTP matches against, the admin handlers that change both, the     *)
(* poller of the bucket, and start, shutdown and crash of the process      *)
(* (src/main.go).  No lock spans the load, the save and the update of a    *)
(* handler.                                                                *)
(*                                                                         *)
(* A configuration is the set of prefixes that have a route.  Order and    *)
(* contents of the routes, and the limiters, caches and loggers made for   *)
(* new prefixes, are left out; storage is never deleted under a running    *)
(* gateway.                                                                *)
(***************************************************************************)
EXTENDS Integers, FiniteSets

CONSTANTS Workers,    \* goroutines of the admin handlers
          Prefixes,   \* route prefixes
          Providers,  \* "file", "s3", or both
          Posts,      \* prefixes that are posted and registered
          Deletes,    \* prefixes that are deleted
          Payloads,   \* configurations the console sends
          Published,  \* configurations others put into storage
          MaxLate,    \* bound on the PUTs given up and still on their way
          None

ASSUME RouteAdminAssumption ==
    /\ Providers \subseteq {"file", "s3"}
    /\ Posts \subseteq Prefixes
    /\ Deletes \subseteq Prefixes
    /\ Payloads \subseteq SUBSET Prefixes
    /\ Published \subseteq SUBSET Prefixes
    /\ MaxLate \in Nat

VARIABLES
    provider,  \* prov
    stored,    \* the configuration in storage
    status,    \* "ok", "expired" (its signature) or "torn": cannot be loaded
    late,      \* PUTs that were given up and may still take effect
    process,   \* "up", "draining" after SIGTERM, "down"
    live,      \* h.routes
    job,       \* job[w]: the admin request of worker w
    last,      \* lastRoutesBytes of the poller
    poll,      \* what the poller has loaded and is about to apply, or Resting
    cut,       \* history: a write of the file was cut short
    drift,     \* history: memory and storage may differ
    want,      \* history: if not, what the changes so far amount to
    pending    \* history: a configuration others stored, while it is not live

store   == <<stored, status>>
history == <<cut, drift, want, pending>>
vars    == <<provider, store, late, process, live, job, last, poll, history>>

Config == SUBSET Prefixes

(* A handler at work: the configuration it loaded and changed, the one     *)
(* that is wanted if nothing interferes, and whether nothing has.          *)
Job == [at : {"idle", "pulling", "saving", "writing", "updating"},
        sync : BOOLEAN, cur : Config, goal : Config, clean : BOOLEAN]

Idle ==
    [at |-> "idle", sync |-> FALSE, cur |-> {}, goal |-> {}, clean |-> FALSE]

New == [Idle EXCEPT !.clean = TRUE]

Poll == [cur : Config \cup {None}, clean : BOOLEAN]

Resting == [cur |-> None, clean |-> FALSE]

TypeOK ==
    /\ provider \in Providers
    /\ stored \in Config
    /\ status \in {"ok", "expired", "torn"}
    /\ late \subseteq Config
    /\ process \in {"up", "draining", "down"}
    /\ live \in Config
    /\ job \in [Workers -> Job]
    /\ last \in Config
    /\ poll \in Poll
    /\ cut \in BOOLEAN
    /\ drift \in BOOLEAN
    /\ want \in Config
    /\ pending \in Config \cup {None}
    /\ process = "down" => poll = Resting /\ \A w \in Workers : job[w] = Idle

(* The gateway has loaded its configuration. *)
Init ==
    /\ provider \in Providers
    /\ stored \in Published
    /\ status = "ok"
    /\ late = {}
    /\ process = "up"
    /\ live = stored
    /\ job = [w \in Workers |-> Idle]
    /\ last = stored
    /\ poll = Resting
    /\ cut = FALSE
    /\ drift = FALSE
    /\ want = stored
    /\ pending = None

------------------------------------------------------------------------------

(* Load succeeds: the JSON decodes and its signature is valid. *)
Loadable == status = "ok"

Quiet == poll = Resting /\ \A w \in Workers : job[w] = Idle

(* Memory and storage may differ from here on, or are in step at c. *)
Drifts == drift' = TRUE /\ want' = {}

InStepAt(c) == drift' = FALSE /\ want' = c

(* A change made alone brings them in step. *)
Settle(j) ==
    IF j.clean THEN InStepAt(IF drift THEN j.cur ELSE j.goal) ELSE Drifts

Interfered(j) == [j EXCEPT !.clean = FALSE, !.goal = {}]

Overtaken == [poll EXCEPT !.clean = FALSE]

(* A handler begins, after authentication, with work j; it interferes with *)
(* everyone at work, and they with it.                                     *)
Begin(w, j) ==
    /\ process = "up"
    /\ job[w] = Idle
    /\ job' = [v \in Workers |->
                 IF v # w THEN Interfered(job[v])
                 ELSE IF Quiet THEN j ELSE Interfered(j)]
    /\ poll' = Overtaken

SetJob(w, j) == job' = [job EXCEPT ![w] = j]

(* Storage changes: a publication that is not live is overtaken. *)
Put(c, s) ==
    /\ stored' = c
    /\ status' = s
    /\ pending' = IF c = pending /\ s = "ok" THEN pending ELSE None

(* handler.UpdateRoutes, under routesMu. *)
UpdateRoutes(c) ==
    /\ live' = c
    /\ pending' = IF c = pending THEN None ELSE pending

------------------------------------------------------------------------------
(* POST and DELETE of a route *)

(* Load, and change the loaded copy.  After a load that fails, or for a    *)
(* prefix that is not there to delete, the handler answers an error.       *)
PostRoute(w, p) ==
    /\ Loadable
    /\ Begin(w, [New EXCEPT !.at = "saving", !.cur = stored \cup {p},
                             !.goal = IF drift THEN {} ELSE want \cup {p}])
    /\ UNCHANGED <<provider, store, late, process, live, last, history>>

DeleteRoute(w, p) ==
    /\ Loadable
    /\ p \in stored
    /\ Begin(w, [New EXCEPT !.at = "saving", !.cur = stored \ {p},
                             !.goal = IF drift THEN {} ELSE want \ {p}])
    /\ UNCHANGED <<provider, store, late, process, live, last, history>>

(* The console's configuration replaces the routes of the loaded one; if   *)
(* it cannot be loaded, or the load fails, only memory changes.            *)
ConsoleSync(w, c) ==
    /\ \E loads \in {Loadable, FALSE} :
          Begin(w, [New EXCEPT !.at = IF loads THEN "saving" ELSE "updating",
                                !.sync = TRUE, !.clean = loads,
                                !.cur = c, !.goal = IF drift THEN {} ELSE c])
    /\ UNCHANGED <<provider, store, late, process, live, last, history>>

(* GitOps: git pull runs as long as it likes, its failure is only logged;  *)
(* what it pulls into the file is a Publish.  Then load and update.        *)
GitPull(w) ==
    /\ Begin(w, [New EXCEPT !.at = "pulling"])
    /\ UNCHANGED <<provider, store, late, process, live, last, history>>

GitLoad(w) ==
    /\ job[w].at = "pulling"
    /\ \/ /\ Loadable
          /\ SetJob(w, [job[w] EXCEPT !.at = "updating", !.cur = stored,
                                      !.goal = IF drift THEN {} ELSE want])
       \/ SetJob(w, Idle)
    /\ UNCHANGED <<provider, store, late, process, live, last, poll, history>>

------------------------------------------------------------------------------
(* prov.Save, which signs what it writes *)

(* A failed save ends POST and DELETE with an error; the console's sync    *)
(* ignores it.                                                             *)
AfterFailure(j) ==
    IF j.sync THEN [Interfered(j) EXCEPT !.at = "updating"] ELSE Idle

(* The PUT of the object.  It may fail, before or after it took effect, or *)
(* be given up after five seconds and take effect later.                   *)
PutObject(w) ==
    /\ provider = "s3"
    /\ job[w].at = "saving"
    /\ \/ /\ Put(job[w].cur, "ok")
          /\ \/ /\ SetJob(w, [job[w] EXCEPT !.at = "updating"])
                /\ UNCHANGED <<drift, want>>
             \/ SetJob(w, AfterFailure(job[w])) /\ Drifts
          /\ UNCHANGED late
       \/ /\ SetJob(w, AfterFailure(job[w]))
          /\ \/ UNCHANGED late
             \/ /\ Cardinality(late) < MaxLate
                /\ late' = late \cup {job[w].cur}
          /\ UNCHANGED <<store, drift, want, pending>>
    /\ UNCHANGED <<provider, process, live, last, poll, cut>>

(* A PUT that was given up takes effect, whatever the gateway does now.    *)
LandLate(c) ==
    /\ late' = late \ {c}
    /\ Put(c, "ok")
    /\ job' = [w \in Workers |-> Interfered(job[w])]
    /\ poll' = Overtaken
    /\ Drifts
    /\ UNCHANGED <<provider, process, live, last, cut>>

(* Mutant: an empty configuration is not written. *)
TruncateOnly(w) ==
    /\ provider = "file"
    /\ job[w].at = "saving"
    /\ \/ /\ SetJob(w, [job[w] EXCEPT
                           !.at = IF job[w].cur = {} THEN "updating"
                                                     ELSE "writing"])
          /\ Put(stored, "torn")
       \/ /\ SetJob(w, AfterFailure(job[w]))
          /\ UNCHANGED <<store, pending>>
    /\ UNCHANGED <<provider, late, process, live, last, poll, cut, drift, want>>

(* os.WriteFile truncates the file ... *)
Truncate(w) ==
    /\ provider = "file"
    /\ job[w].at = "saving"
    /\ \/ /\ SetJob(w, [job[w] EXCEPT !.at = "writing"])
          /\ Put(stored, "torn")
       \/ /\ SetJob(w, AfterFailure(job[w]))
          /\ UNCHANGED <<store, pending>>
    /\ UNCHANGED <<provider, late, process, live, last, poll, cut, drift, want>>

(* ... and writes it in place.  What a longer text left behind it is not   *)
(* read.  A write that fails leaves a part of the text, or nothing.        *)
WriteFile(w) ==
    /\ job[w].at = "writing"
    /\ \/ /\ Put(job[w].cur, "ok")
          /\ SetJob(w, [job[w] EXCEPT !.at = "updating"])
          /\ UNCHANGED <<cut, drift, want>>
       \/ /\ Put(stored, "torn") \/ UNCHANGED <<store, pending>>
          /\ SetJob(w, AfterFailure(job[w]))
          /\ cut' = TRUE
          /\ Drifts
    /\ UNCHANGED <<provider, late, process, live, last, poll>>

(* Mutant: memory is not updated after the save. *)
FinishUnapplied(w) ==
    /\ job[w].at = "updating"
    /\ SetJob(w, Idle)
    /\ Settle(job[w])
    /\ UNCHANGED <<provider, store, late, process, live, last, poll, cut, pending>>

(* UpdateRoutes, and the answer. *)
Finish(w) ==
    /\ job[w].at = "updating"
    /\ UpdateRoutes(job[w].cur)
    /\ SetJob(w, Idle)
    /\ Settle(job[w])
    /\ UNCHANGED <<provider, store, late, process, last, poll, cut>>

------------------------------------------------------------------------------
(* RegisterRoute changes memory only. *)
RegisterRoute(p) ==
    /\ process = "up"
    /\ UpdateRoutes(live \cup {p})
    /\ Drifts
    /\ UNCHANGED <<provider, store, late, process, job, last, poll, cut>>

(* The poller: load, and if it is not what was seen last, apply. *)
PollLoad ==
    /\ provider = "s3"
    /\ process # "down"
    /\ poll = Resting
    /\ Loadable
    /\ stored # last
    /\ poll' = [cur |-> stored, clean |-> Quiet]
    /\ job' = [w \in Workers |-> Interfered(job[w])]
    /\ UNCHANGED <<provider, store, late, process, live, last, history>>

(* Mutant: the new configuration is noted and not applied. *)
PollSkips ==
    /\ poll # Resting
    /\ last' = poll.cur
    /\ poll' = Resting
    /\ Drifts
    /\ UNCHANGED <<provider, store, late, process, live, job, cut, pending>>

PollApply ==
    /\ poll # Resting
    /\ UpdateRoutes(poll.cur)
    /\ last' = poll.cur
    /\ poll' = Resting
    /\ IF poll.clean THEN InStepAt(poll.cur) ELSE Drifts
    /\ UNCHANGED <<provider, store, late, process, job, cut>>

------------------------------------------------------------------------------
(* The world outside *)

(* Somebody else puts a signed configuration into storage. *)
Publish(c) ==
    /\ c # stored \/ ~Loadable
    /\ stored' = c
    /\ status' = "ok"
    /\ pending' = IF process = "up" /\ live # c THEN c ELSE None
    /\ job' = [w \in Workers |-> Interfered(job[w])]
    /\ poll' = Overtaken
    /\ Drifts
    /\ UNCHANGED <<provider, late, process, live, last, cut>>

(* 24 hours after it was signed. *)
Expire ==
    /\ Loadable
    /\ Put(stored, "expired")
    /\ UNCHANGED <<provider, late, process, live, job, last, poll, cut, drift, want>>

(* SIGTERM: no new requests, five seconds for those at work. *)
Terminate ==
    /\ process = "up"
    /\ process' = "draining"
    /\ pending' = None
    /\ UNCHANGED <<provider, store, late, live, job, last, poll, cut, drift, want>>

(* The process ends: everyone is done, the deadline passes, or it crashes. *)
(* A write under way may have left a part.                                 *)
Exit ==
    /\ process # "down"
    /\ process' = "down"
    /\ IF \E w \in Workers : job[w].at = "writing"
       THEN /\ status' \in {status, "torn"}
            /\ cut' = TRUE
       ELSE UNCHANGED <<status, cut>>
    /\ job' = [w \in Workers |-> Idle]
    /\ poll' = Resting
    /\ pending' = None
    /\ Drifts
    /\ live' = {}
    /\ last' = {}
    /\ UNCHANGED <<provider, stored, late>>

(* main: without a configuration that loads the process ends again. *)
Boot ==
    /\ process = "down"
    /\ Loadable
    /\ process' = "up"
    /\ live' = stored
    /\ last' = stored
    /\ InStepAt(stored)
    /\ UNCHANGED <<provider, store, late, job, poll, cut, pending>>

Save(w) == PutObject(w) \/ Truncate(w) \/ WriteFile(w)

Next ==
    \/ PollLoad \/ PollApply \/ Expire \/ Terminate \/ Exit \/ Boot
    \/ \E c \in Published : Publish(c)
    \/ \E c \in late : LandLate(c)
    \/ \E p \in Posts : RegisterRoute(p)
    \/ \E w \in Workers :
          \/ \E p \in Posts : PostRoute(w, p)
          \/ \E p \in Deletes : DeleteRoute(w, p)
          \/ \E c \in Payloads : ConsoleSync(w, c)
          \/ GitPull(w) \/ GitLoad(w) \/ Save(w) \/ Finish(w)

Spec == Init /\ [][Next]_vars

(* The poller's ticker fires, and what a handler does itself gets done; a  *)
(* git pull may hang, and nobody has to publish or to restart.  A poll     *)
(* that fails on the way changes nothing; fairness of PollLoad presumes    *)
(* that not every one of them does.                                        *)
FairSpec ==
    /\ Spec
    /\ WF_vars(PollLoad) /\ WF_vars(PollApply)
    /\ \A w \in Workers : WF_vars(Save(w) \/ Finish(w))

------------------------------------------------------------------------------
(* Properties *)

(* The file is half written only while somebody writes it, or after a      *)
(* write was cut short by a failure or the end of the process: handlers    *)
(* that write it at the same time leave a configuration that loads.        *)
TornIsCut == status = "torn" => cut \/ \E w \in Workers : job[w].at = "writing"

(* Memory and storage are the same, and what the changes so far amount to, *)
(* unless one of a few things happened since the last change that nothing  *)
(* interfered with: overlapping handlers or poll, a registration, a        *)
(* publication, a failure to load or to save, or a save given up that      *)
(* takes effect later.  One change made alone, or a restart, brings them   *)
(* together again.                                                         *)
InStep ==
    process = "up" /\ Quiet /\ ~drift =>
        status # "torn" /\ stored = want /\ live = want

(* What makes them inductive.  Until something makes them drift, memory    *)
(* and storage are in step, or a handler is on its way to changing both.   *)
Synced == stored = want /\ live = want /\ status # "torn"

Unfinished == \E w \in Workers : job[w].at \in {"writing", "updating"}

SyncedOrUnfinished == ~drift => Synced \/ Unfinished

(* A handler that nothing interfered with is alone, and once it has saved, *)
(* what it saved is still there.                                           *)
CleanJobs ==
    \A w \in Workers : job[w].clean =>
        /\ poll = Resting
        /\ \A v \in Workers \ {w} : job[v] = Idle
        /\ job[w].at = "updating" => stored = job[w].cur /\ status # "torn"
        /\ ~drift /\ job[w].at \in {"saving", "writing", "updating"}
              => job[w].goal = job[w].cur

(* The same for the poller. *)
CleanPoll ==
    /\ poll # Resting => poll.cur \in Config
    /\ poll.clean => /\ \A w \in Workers : job[w] = Idle
                     /\ stored = poll.cur
                     /\ status # "torn"

(* The inductive invariant of the handlers, the poller and the process. *)
IInv == TypeOK /\ TornIsCut /\ SyncedOrUnfinished /\ CleanJobs /\ CleanPoll

(* The poller applies a configuration that was put into the bucket and is  *)
(* not the one it saw last, unless it is overtaken.                        *)
PollerApplies ==
    \A c \in Published :
        (provider = "s3" /\ pending = c /\ c # last) ~> (pending # c)

(* "Watch config.json (or ServStore bucket) for changes and apply route    *)
(* updates without restarting": what others put into storage goes live,    *)
(* unless it is overtaken.                                                 *)
HotReload == \A c \in Published : pending = c ~> pending # c
==============================================================================
