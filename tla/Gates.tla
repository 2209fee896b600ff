-------------------------------- MODULE Gates --------------------------------
(***************************************************************************)
(* What a request passes before the backpressure limiter                   *)
(* (src/pkg/proxy/handler.go, the first part of ServeHTTP): tenant policy, *)
(* authentication with session revocation and policy version, route match, *)
(* API key, schema registry, MCP and IP lists, access policy, rate limit;  *)
(* and the admin handlers that change revocations and policy under it      *)
(* (src/main.go).  All of that state is in memory: a restart clears it.    *)
(*                                                                         *)
(* One user, one client, one route.  Times are ages in ticks, Second of    *)
(* them to a second; a revocation falls inside its tick, a token's iat is  *)
(* the beginning of its second.  Of a schema is kept which installation it *)
(* is; what it says depends on the request too.                            *)
(***************************************************************************)
EXTENDS RateLimiter

CONSTANTS Admins,      \* goroutines of the policy reload handlers
          Configs,     \* is there an AuthToken, RateLimitRPM, what policies may say,
                       \* and a bound on policy reloads
          Second,      \* ticks of a second
          MaxAge,      \* bound on the age of tokens and of the revocation
          MaxReloads,  \* the largest such bound
          Static,      \* the AuthToken as a credential
          Invalid,     \* a credential ValidateJWT refuses
          None         \* no value

(* The claims of a JWT that matter here. *)
JWT == [age : 0..MaxAge, iat : BOOLEAN, ver : 0..MaxReloads]

(* What a request may carry. *)
Token == JWT \cup {Static, Invalid, None}

ASSUME GatesAssumption ==
    /\ Configs \subseteq [auth : BOOLEAN, rpm : Limits,
                           verdicts : SUBSET [deny : BOOLEAN, rpm : Limits],
                           reloads : 0..MaxReloads]
    /\ Second \in Nat \ {0}
    /\ MaxAge \in Nat
    /\ MaxReloads \in Nat
    /\ JWT \cap {Static, Invalid, None} = {}
    /\ Static # Invalid /\ Static # None /\ Invalid # None
    /\ None \notin Nat

VARIABLES
    config,         \* the running configuration
    phase,          \* ticks since the last full second
    revoked,        \* age of h.revokedSessions[user], or None
    policyVersion,  \* h.policyVersion
    policySchema,   \* h.policySchema: how many were installed before; 0 is nil
    admin,          \* admin[a]: the installation whose version is to be counted, or None
    pc,             \* pc[r]: the gate request r is at
    token,          \* token[r]: its credential, until it is looked at
    refresh,        \* refresh[r]: X-Token-Refresh is set
    barred,         \* history: r began with a token revoked before
    outdated,       \* history: r began with a token older than the version
    settled,        \* history: last installation a reload has answered for
    base            \* history: what was settled when r last looked

policy  == <<config, phase, revoked, policyVersion, policySchema, admin, settled>>
request == <<pc, token, refresh, barred, outdated, base>>
vars    == <<limiterVars, policy, request>>

PC == {"idle", "validating", "versioning", "routing", "judging", "limiting", "passed"}

TypeOK ==
    /\ LimiterTypeOK
    /\ config \in Configs
    /\ phase \in 0..Second - 1
    /\ revoked \in 0..MaxAge \cup {None}
    /\ policyVersion \in 0..MaxReloads
    /\ policySchema \in Nat
    /\ admin \in [Admins -> Nat \cup {None}]
    /\ pc \in [Requests -> PC]
    /\ token \in [Requests -> Token]
    /\ refresh \in [Requests -> BOOLEAN]
    /\ barred \in [Requests -> BOOLEAN]
    /\ outdated \in [Requests -> BOOLEAN]
    /\ settled \in Nat
    /\ base \in [Requests -> Nat]

Init ==
    /\ LimiterInit
    /\ config \in Configs
    /\ phase = 0
    /\ revoked = None
    /\ policyVersion = 0
    /\ policySchema = 0
    /\ admin = [a \in Admins |-> None]
    /\ pc = [r \in Requests |-> "idle"]
    /\ token = [r \in Requests |-> None]
    /\ refresh = [r \in Requests |-> FALSE]
    /\ barred = [r \in Requests |-> FALSE]
    /\ outdated = [r \in Requests |-> FALSE]
    /\ settled = 0
    /\ base = [r \in Requests |-> 0]

------------------------------------------------------------------------------
(* Requests *)

(* The request goes on to another gate; v is its credential from there on. *)
Goto(r, from, to, v) ==
    /\ pc[r] = from
    /\ pc' = [pc EXCEPT ![r] = to]
    /\ token' = [token EXCEPT ![r] = v]

(* The handler answers and returns. *)
End(r) ==
    /\ pc' = [pc EXCEPT ![r] = "idle"]
    /\ token' = [token EXCEPT ![r] = None]
    /\ refresh' = [refresh EXCEPT ![r] = FALSE]
    /\ barred' = [barred EXCEPT ![r] = FALSE]
    /\ outdated' = [outdated EXCEPT ![r] = FALSE]
    /\ base' = [base EXCEPT ![r] = 0]

(* Endpoints of the gateway itself and a tenant that is not allowed here   *)
(* are answered at once, and the rest is not reached.                      *)
Begin(r) ==
    /\ base' = [base EXCEPT ![r] = settled]
    /\ IF config.auth
       THEN \E t \in Token \ {None} :
               /\ Goto(r, "idle", "validating", t)
               /\ barred' = [barred EXCEPT ![r] =
                                t \in JWT /\ t.iat /\ revoked # None /\ t.age >= revoked]
               /\ outdated' = [outdated EXCEPT ![r] = t \in JWT /\ t.ver < policyVersion]
       ELSE /\ Goto(r, "idle", "routing", None)
            /\ UNCHANGED <<barred, outdated>>
    /\ UNCHANGED <<limiterVars, policy, refresh>>

(* Age of a token's iat, and of the second of the revocation. *)
SecondOf(age) == age + ((phase - age) % Second)

(* Mutants: the revocation is rounded down too, and its second let in; a   *)
(* token of the following second is caught.                                *)
RevokedRounded(t) == t.iat /\ revoked # None /\ SecondOf(t.age) > SecondOf(revoked)

RevokedLater(t) == t.iat /\ revoked # None /\ SecondOf(t.age) + Second >= revoked

(* exists && claims.Iat > 0 && time.Unix(claims.Iat, 0).Before(revTime) *)
Revoked(t) == t.iat /\ revoked # None /\ SecondOf(t.age) >= revoked

(* ValidateJWT and ValidateJWTWithPolicy; the AuthToken itself is neither  *)
(* revoked nor versioned.                                                  *)
Authenticate(r) ==
    /\ \/ token[r] = Static /\ Goto(r, "validating", "routing", None)
       \/ token[r] \in JWT /\ ~Revoked(token[r]) /\ Goto(r, "validating", "versioning", token[r])
    /\ UNCHANGED <<limiterVars, policy, refresh, barred, outdated, base>>

Unauthorized(r) ==
    /\ pc[r] = "validating"
    /\ token[r] = Invalid \/ (token[r] \in JWT /\ Revoked(token[r]))
    /\ End(r)
    /\ UNCHANGED <<limiterVars, policy>>

(* Mutant: only a token two versions behind is told. *)
ReadVersionLate(r) ==
    /\ Goto(r, "versioning", "routing", None)
    /\ refresh' = [refresh EXCEPT ![r] = token[r].ver + 1 < policyVersion]
    /\ base' = [base EXCEPT ![r] = settled]
    /\ UNCHANGED <<limiterVars, policy, barred, outdated>>

(* policyVersionMu: claims.PolicyVer < curVer *)
ReadVersion(r) ==
    /\ Goto(r, "versioning", "routing", None)
    /\ refresh' = [refresh EXCEPT ![r] = token[r].ver < policyVersion]
    /\ base' = [base EXCEPT ![r] = settled]
    /\ UNCHANGED <<limiterVars, policy, barred, outdated>>

(* No route; API key, its routes, its tenant and its rate; schema          *)
(* registry, which lets pass when it does not answer; MCP; IP lists.  The  *)
(* rates of API keys and agents are limiters of their own.                 *)
Route(r) ==
    /\ \/ /\ Goto(r, "routing", "judging", None)
          /\ UNCHANGED <<refresh, barred, outdated, base>>
       \/ pc[r] = "routing" /\ End(r)
    /\ UNCHANGED <<limiterVars, policy>>

(* What EvaluatePolicy says of a request that no rule matches. *)
Unmatched == [deny |-> FALSE, rpm |-> 0]

(* policySchemaMu: the schema in force, if there is one, denies the        *)
(* request or may replace the route's rate.                                *)
Judge(r) ==
    /\ \E v \in IF policySchema = 0 THEN {Unmatched} ELSE config.verdicts :
          /\ ~v.deny
          /\ Enter(r, IF v.rpm > 0 THEN v.rpm ELSE config.rpm)
    /\ Goto(r, "judging", "limiting", None)
    /\ base' = [base EXCEPT ![r] = 0]
    /\ UNCHANGED <<policy, refresh, barred, outdated>>

Deny(r) ==
    /\ pc[r] = "judging"
    /\ policySchema # 0
    /\ \E v \in config.verdicts : v.deny
    /\ End(r)
    /\ UNCHANGED <<limiterVars, policy>>

Limit(r) ==
    /\ pc[r] = "limiting"
    /\ isRateLimited(r)
    /\ UNCHANGED <<policy, request>>

(* Redis, on its own. *)
Arrival == Redis /\ UNCHANGED <<policy, request>>

(* 429, or on to the backpressure limiter. *)
TooMany(r) ==
    /\ pc[r] = "limiting"
    /\ rl[r] = "limited"
    /\ rl' = [rl EXCEPT ![r] = "out"]
    /\ End(r)
    /\ UNCHANGED <<redis, adds, history, lim, since, policy>>

Pass(r) ==
    /\ rl[r] = "pass"
    /\ rl' = [rl EXCEPT ![r] = "out"]
    /\ Goto(r, "limiting", "passed", None)
    /\ UNCHANGED <<redis, adds, history, lim, since, policy, refresh, barred, outdated, base>>

(* The rest of ServeHTTP. *)
Leave(r) ==
    /\ pc[r] = "passed"
    /\ End(r)
    /\ UNCHANGED <<limiterVars, policy>>

------------------------------------------------------------------------------
(* Admin handlers *)

(* RevokeUserSession.  Without authentication nobody reads it. *)
Revoke ==
    /\ config.auth
    /\ revoked' = 0
    /\ UNCHANGED <<limiterVars, config, phase, policyVersion, policySchema, admin, settled,
                   request>>

MayReload ==
    policyVersion + Cardinality({a \in Admins : admin[a] # None}) < config.reloads

(* Mutant: the schema is parsed and not installed. *)
InstallForgets(a) ==
    /\ admin[a] = None
    /\ MayReload
    /\ admin' = [admin EXCEPT ![a] = policySchema + 1]
    /\ UNCHANGED <<limiterVars, config, phase, revoked, policyVersion, policySchema, settled,
                   request>>

(* UpdatePolicySchema, or a body that is empty or does not parse and       *)
(* leaves the schema alone ...                                             *)
InstallSchema(a) ==
    /\ admin[a] = None
    /\ MayReload
    /\ policySchema' \in {policySchema, policySchema + 1}
    /\ admin' = [admin EXCEPT ![a] = policySchema']
    /\ UNCHANGED <<limiterVars, config, phase, revoked, policyVersion, settled, request>>

(* ... then IncrementPolicyVersion, and the answer. *)
IncrementPolicyVersion(a) ==
    /\ admin[a] # None
    /\ policyVersion' = policyVersion + 1
    /\ admin' = [admin EXCEPT ![a] = None]
    /\ settled' = IF admin[a] > settled THEN admin[a] ELSE settled
    /\ UNCHANGED <<limiterVars, config, phase, revoked, policySchema, request>>

------------------------------------------------------------------------------

Tick ==
    /\ LimiterTick
    /\ revoked # None => revoked < MaxAge
    /\ \A r \in Requests : token[r] \in JWT => token[r].age < MaxAge
    /\ phase' = (phase + 1) % Second
    /\ revoked' = IF revoked = None THEN None ELSE revoked + 1
    /\ token' = [r \in Requests |->
                    IF token[r] \in JWT THEN [token[r] EXCEPT !.age = @ + 1] ELSE token[r]]
    /\ UNCHANGED <<config, policyVersion, policySchema, admin, settled,
                   pc, refresh, barred, outdated, base>>

(* The process dies and is started again. *)
Restart ==
    /\ LimiterRestart
    /\ revoked' = None
    /\ policyVersion' = 0
    /\ policySchema' = 0
    /\ admin' = [a \in Admins |-> None]
    /\ pc' = [r \in Requests |-> "idle"]
    /\ token' = [r \in Requests |-> None]
    /\ refresh' = [r \in Requests |-> FALSE]
    /\ barred' = [r \in Requests |-> FALSE]
    /\ outdated' = [r \in Requests |-> FALSE]
    /\ settled' = 0
    /\ base' = [r \in Requests |-> 0]
    /\ UNCHANGED <<config, phase>>

Serve(r) ==
    \/ Begin(r) \/ Authenticate(r) \/ Unauthorized(r) \/ ReadVersion(r) \/ Route(r)
    \/ Judge(r) \/ Deny(r) \/ Limit(r) \/ TooMany(r) \/ Pass(r) \/ Leave(r)

Next ==
    \/ Revoke \/ Tick \/ Restart \/ Arrival
    \/ \E a \in Admins : InstallSchema(a) \/ IncrementPolicyVersion(a)
    \/ \E r \in Requests : Serve(r)

Spec == Init /\ [][Next]_vars

------------------------------------------------------------------------------
(* Properties *)

(* Until a restart, a revoked token stays out: no request that began after *)
(* the revocation was answered, with a token issued before it that carries *)
(* an iat, gets past authentication (RevokeUserSession,                    *)
(* ValidateJWTWithPolicy).                                                 *)
RevokedStayOut == \A r \in Requests : pc[r] \notin {"idle", "validating"} => ~barred[r]

(* A valid token is turned away only if it is of the second of the         *)
(* revocation or older: whoever logs in a second later is let in, though a *)
(* token issued right after the revocation is not.                         *)
NewTokensEnter ==
    [][\A r \in Requests : Unauthorized(r) /\ token[r] \in JWT =>
          revoked # None /\ SecondOf(token[r].age) >= SecondOf(revoked)]_vars

(* A token older than the policy version is told to refresh, however many  *)
(* reloads are under way.                                                  *)
OutdatedAreTold ==
    \A r \in Requests :
        outdated[r] /\ pc[r] \notin {"idle", "validating", "versioning"} => refresh[r]

(* The policy that judges a request is at least as new as every reload     *)
(* that was answered when it began, and, if it carries a token, as every   *)
(* one counted in the version its token was compared with: the handlers    *)
(* install before they count, and requests look in the opposite order.     *)
JudgedByCurrent ==
    [][\A r \in Requests : Judge(r) \/ Deny(r) => policySchema >= base[r]]_vars

(* What makes them inductive.  A credential that bars or dates its request *)
(* still does when it is looked at: revocation and token grow old          *)
(* together, and the version only grows.                                   *)
CredentialsTyped ==
    /\ phase \in Nat
    /\ revoked \in Nat \cup {None}
    /\ policyVersion \in Nat
    /\ pc \in [Requests -> PC]
    /\ token \in [Requests -> Token]
    /\ refresh \in [Requests -> BOOLEAN]
    /\ barred \in [Requests -> BOOLEAN]
    /\ outdated \in [Requests -> BOOLEAN]

BarredByToken ==
    \A r \in Requests : barred[r] =>
        /\ pc[r] = "validating"
        /\ token[r] \in JWT
        /\ token[r].iat
        /\ revoked # None
        /\ token[r].age >= revoked

OutdatedByToken ==
    \A r \in Requests : outdated[r] =>
        \/ /\ pc[r] \in {"validating", "versioning"}
           /\ token[r] \in JWT
           /\ token[r].ver < policyVersion
        \/ pc[r] \notin {"idle", "validating", "versioning"} /\ refresh[r]

(* No schema is waited for or relied on that is newer than the one in      *)
(* force.                                                                  *)
SchemaInForce ==
    /\ policySchema \in Nat
    /\ settled \in 0..policySchema
    /\ admin \in [Admins -> 0..policySchema \cup {None}]
    /\ base \in [Requests -> 0..policySchema]

IInv ==
    /\ LimiterInv
    /\ config \in Configs
    /\ CredentialsTyped /\ BarredByToken /\ OutdatedByToken /\ SchemaInForce
==============================================================================
