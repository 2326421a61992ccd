----------------------------- MODULE ApiProcess -----------------------------
(***************************************************************************)
(* The API process: main.py starts it, opens its connection pool           *)
(* (app/database.py) and its Redis client (app/api/dependencies.py), and   *)
(* serves POST and GET of app/api/routes/audit.py and /ready until it      *)
(* stops.  One event loop runs every handler, so a handler that blocks     *)
(* holds all of them.  The pool is opened once per boot, by a connect      *)
(* whose failure is only logged.                                           *)
(***************************************************************************)
EXTENDS Naturals

CONSTANTS
    Posts,      \* POST /api/v1/audit requests; each names the job it creates
    Gets,       \* GET /api/v1/audit/{job_id} requests
    Probes,     \* GET /ready requests
    Configs,    \* the environments the process may be given
    MaxBoots    \* bound: how often it is started

AllConfigs == [production: BOOLEAN, secret: BOOLEAN, public: BOOLEAN,
               database: {"url", "bad_url", "password", "unset"},
               redis: {"url", "bad_url"}]

ASSUME ConfigsAssumption == Configs \subseteq AllConfigs
ASSUME BootsAssumption == MaxBoots \in Nat
ASSUME RequestsAssumption ==
    Posts \cap Gets = {} /\ Posts \cap Probes = {} /\ Gets \cap Probes = {}

Requests == Posts \cup Gets \cup Probes

VARIABLES
    config,   \* settings, read once per start
    life,     \* where the process is between two starts
    boots,    \* how often it was started
    pool,     \* is db_pool open?
    client,   \* is _redis_client there?
    db, redis,   \* are PostgreSQL and Redis reachable?
    pc,       \* pc[r]: where the handler of r is
    reply,    \* reply[r]: what was answered
    reached,  \* reached[r]: checks["database"] of a /ready
    target,   \* target[g]: the job a GET asks for
    rows,     \* the jobs with a row
    queue,    \* the jobs whose task is published
    owed,     \* history: the GETs of a job whose POST had been answered
    wasReady, \* history: a /ready of this boot answered "ready"
    poolLess  \* history: a request of this boot failed for want of a pool

process  == <<config, life, boots, pool, client>>
services == <<db, redis>>
handlers == <<pc, reply, reached, target, owed>>
data     == <<rows, queue>>
seen     == <<wasReady, poolLess>>
vars     == <<process, services, handlers, data, seen>>

-----------------------------------------------------------------------------
(* Start and stop.                                                         *)

\* _validate_production_config; when it raises, so does the import of main.
Valid(c) == c.production => c.database # "unset" /\ c.secret /\ c.public

Boot ==
    /\ life = "off" /\ boots < MaxBoots
    /\ boots' = boots + 1
    /\ \E c \in Configs :
          /\ config' = c
          /\ life' = IF Valid(c) THEN "connect" ELSE "off"
    /\ wasReady' = FALSE /\ poolLess' = FALSE
    /\ UNCHANGED <<pool, client, services, handlers, data>>

\* async_database_url raises for a URL of another scheme, create_pool for a
\* database that does not answer.
Connected == config.database # "bad_url" /\ db

\* database.connect in lifespan.
Connect ==
    /\ life = "connect"
    /\ life' = "client"
    /\ pool' = Connected
    /\ UNCHANGED <<config, boots, client, services, handlers, data, seen>>

\* get_redis_client: from_url reads the URL and opens no connection.
HasClient == client \/ config.redis = "url"

OpenClient ==
    /\ life = "client"
    /\ life' = "serving"
    /\ client' = HasClient
    /\ UNCHANGED <<config, boots, pool, services, handlers, data, seen>>

InFlight(r) == pc[r] \notin {"new", "done", "gone", "dropped"}

\* SIGTERM: no new request is taken.
Stop ==
    /\ life = "serving"
    /\ life' = "draining"
    /\ UNCHANGED <<config, boots, pool, client, services, handlers, data, seen>>

\* The server runs the end of lifespan when its handlers have returned.
CloseRedis ==
    /\ life = "draining"
    /\ \A r \in Requests : ~InFlight(r)
    /\ life' = "disconnect"
    /\ client' = FALSE
    /\ UNCHANGED <<config, boots, pool, services, handlers, data, seen>>

Disconnect ==
    /\ life = "disconnect"
    /\ life' = "off"
    /\ pool' = FALSE
    /\ UNCHANGED <<config, boots, client, services, handlers, data, seen>>

\* A POST that may have left a trace is told from one that cannot.
Lost(r) == IF pc[r] \in {"insert", "publish", "delay"} THEN "gone" ELSE "dropped"

(* The process dies, with what it held and what it was doing.              *)
Crash ==
    /\ life # "off"
    /\ life' = "off"
    /\ pool' = FALSE /\ client' = FALSE
    /\ pc' = [r \in Requests |-> IF InFlight(r) THEN Lost(r) ELSE pc[r]]
    /\ UNCHANGED <<config, boots, services, reply, reached, target, owed, data, seen>>

Outage ==
    /\ db' \in BOOLEAN /\ redis' \in BOOLEAN
    /\ UNCHANGED <<process, handlers, data, seen>>

-----------------------------------------------------------------------------
(* Handlers.  A step is what runs between two awaits.                      *)

(* run_audit_task.delay is a blocking call: it holds the event loop.       *)
LoopFree == life \in {"serving", "draining"} /\ \A r \in Requests : pc[r] # "delay"

Goto(r, next) == pc' = [pc EXCEPT ![r] = next] /\ UNCHANGED reply
Answer(r, code) == pc' = [pc EXCEPT ![r] = "done"] /\ reply' = [reply EXCEPT ![r] = code]

Arrive(r) ==
    /\ life = "serving" /\ LoopFree /\ pc[r] = "new"
    /\ Goto(r, IF r \in Posts THEN "limit" ELSE IF r \in Gets THEN "fetch" ELSE "ready_db")
    /\ IF r \in Gets
       THEN \E j \in Posts :
               /\ target' = [target EXCEPT ![r] = j]
               /\ owed' = IF reply[j] = "ok" THEN owed \cup {r} ELSE owed
       ELSE UNCHANGED <<target, owed>>
    /\ UNCHANGED <<process, services, reached, data, seen>>

\* rate_limit_check: before Redis is asked 403, or 500 when compare_digest raises
\* (a secret that is not ASCII; the call is outside the try); then 429, or on; what
\* Redis cannot tell lets the request through.
Limit(r) ==
    /\ LoopFree /\ pc[r] = "limit"
    /\ \/ config.secret /\ (Answer(r, "refused") \/ Answer(r, "error")) /\ UNCHANGED client
       \/ HasClient /\ redis /\ Answer(r, "refused") /\ client' = TRUE
       \/ Goto(r, "check") /\ client' = HasClient
    /\ UNCHANGED <<config, life, boots, pool, services, reached, target, owed, data, seen>>

\* assert_url_safe: 400 for an unsafe URL, 500 when it raises anything else.
Check(r) ==
    /\ LoopFree /\ pc[r] = "check"
    /\ Goto(r, "insert") \/ Answer(r, "refused") \/ Answer(r, "error")
    /\ UNCHANGED <<process, services, reached, target, owed, data, seen>>

\* _require_pool and the exception handler of the route.
NoPool(r) ==
    /\ LoopFree /\ pc[r] \in {"insert", "fetch"}
    /\ ~pool
    /\ Answer(r, "error")
    /\ poolLess' = TRUE
    /\ UNCHANGED <<process, services, reached, target, owed, data, wasReady>>

Create(r) ==
    /\ LoopFree /\ pc[r] = "insert"
    /\ pool /\ db
    /\ rows' = rows \cup {r}
    /\ Goto(r, "publish")
    /\ UNCHANGED <<process, services, reached, target, owed, queue, seen>>

\* Mutant of CreateFails: the exception of create_job is only logged.
CreateFailsLogged(r) ==
    /\ LoopFree /\ pc[r] = "insert"
    /\ pool
    /\ Goto(r, "publish")
    /\ UNCHANGED <<process, services, reached, target, owed, data, seen>>

\* The connection is lost, before the INSERT or after it.
CreateFails(r) ==
    /\ LoopFree /\ pc[r] = "insert"
    /\ pool
    /\ \E inserted \in SUBSET {r} : rows' = rows \cup inserted
    /\ Answer(r, "error")
    /\ UNCHANGED <<process, services, reached, target, owed, queue, seen>>

StartDelay(r) ==
    /\ LoopFree /\ pc[r] = "publish"
    /\ Goto(r, "delay")
    /\ UNCHANGED <<process, services, reached, target, owed, data, seen>>

\* The broker is Redis too, at the same REDIS_URL.
BrokerUp == config.redis = "url" /\ redis

\* Mutants of EndDelay: a publish that fails is only logged; it is retried until
\* the broker answers.
EndDelayLogged(r) ==
    /\ pc[r] = "delay"
    /\ \E published \in SUBSET {r} :
          /\ published # {} => config.redis = "url"
          /\ queue' = queue \cup published
    /\ Answer(r, "ok")
    /\ UNCHANGED <<process, services, reached, target, owed, rows, seen>>
EndDelayRetried(r) ==
    /\ pc[r] = "delay" /\ BrokerUp
    /\ queue' = queue \cup {r}
    /\ Answer(r, "ok")
    /\ UNCHANGED <<process, services, reached, target, owed, rows, seen>>

\* The publish is confirmed, or the client library gives up, after a publish that
\* may have arrived.
EndDelay(r) ==
    /\ pc[r] = "delay"
    /\ \/ BrokerUp /\ queue' = queue \cup {r} /\ Answer(r, "ok")
       \/ /\ \E published \in SUBSET {r} :
                /\ published # {} => config.redis = "url"
                /\ queue' = queue \cup published
          /\ Answer(r, "error")
    /\ UNCHANGED <<process, services, reached, target, owed, rows, seen>>

\* get_job and generate_report: 200, 404, or 500 for a lost connection.
Fetch(r) ==
    /\ LoopFree /\ pc[r] = "fetch"
    /\ pool
    /\ \/ db /\ Answer(r, IF target[r] \in rows THEN "ok" ELSE "not_found")
       \/ Answer(r, "error")
    /\ UNCHANGED <<process, services, reached, target, owed, data, seen>>

ReadyDatabase(r) ==
    /\ LoopFree /\ pc[r] = "ready_db"
    /\ \E answered \in {pool /\ db, FALSE} : reached' = [reached EXCEPT ![r] = answered]
    /\ Goto(r, "ready_redis")
    /\ UNCHANGED <<process, services, target, owed, data, seen>>

\* Mutant of ReadyRedis: one of the checks is enough.
ReadyRedisAny(r) ==
    /\ LoopFree /\ pc[r] = "ready_redis"
    /\ client' = HasClient
    /\ \E ponged \in {HasClient /\ redis, FALSE} : LET ready == reached[r] \/ ponged IN
          /\ Answer(r, IF ready THEN "ok" ELSE "unavailable")
          /\ wasReady' = (wasReady \/ ready)
    /\ UNCHANGED <<config, life, boots, pool, services, reached, target, owed, data, poolLess>>

ReadyRedis(r) ==
    /\ LoopFree /\ pc[r] = "ready_redis"
    /\ client' = HasClient
    /\ \E ponged \in {HasClient /\ redis, FALSE} : LET ready == reached[r] /\ ponged IN
          /\ Answer(r, IF ready THEN "ok" ELSE "unavailable")
          /\ wasReady' = (wasReady \/ ready)
    /\ UNCHANGED <<config, life, boots, pool, services, reached, target, owed, data, poolLess>>

-----------------------------------------------------------------------------

Init ==
    /\ config \in Configs
    /\ life = "off" /\ boots = 0
    /\ pool = FALSE /\ client = FALSE
    /\ db \in BOOLEAN /\ redis \in BOOLEAN
    /\ pc = [r \in Requests |-> "new"]
    /\ reply = [r \in Requests |-> "none"]
    /\ reached = [r \in Requests |-> FALSE]
    /\ target \in [Gets -> Posts]
    /\ rows = {} /\ queue = {} /\ owed = {}
    /\ wasReady = FALSE /\ poolLess = FALSE

Handle(r) ==
    \/ Limit(r) \/ Check(r) \/ NoPool(r) \/ Create(r) \/ CreateFails(r)
    \/ StartDelay(r) \/ EndDelay(r) \/ Fetch(r) \/ ReadyDatabase(r) \/ ReadyRedis(r)

Next ==
    \/ Boot \/ Connect \/ OpenClient \/ Stop \/ CloseRedis \/ Disconnect \/ Crash
    \/ Outage
    \/ \E r \in Requests : Arrive(r) \/ Handle(r)

Spec == Init /\ [][Next]_vars

(* The event loop runs what is ready, and every await ends: the drivers and *)
(* the task queue's client give up on a server that does not answer.        *)
FairSpec == Spec /\ \A r \in Requests : WF_vars(Handle(r))

-----------------------------------------------------------------------------
(* Properties.                                                             *)

TypeOK ==
    /\ config \in Configs /\ boots \in 0 .. MaxBoots
    /\ life \in {"off", "connect", "client", "serving", "draining", "disconnect"}
    /\ {pool, client, db, redis, wasReady, poolLess} \subseteq BOOLEAN
    /\ pc \in [Requests -> {"new", "limit", "check", "insert", "publish", "delay", "fetch",
                            "ready_db", "ready_redis", "done", "gone", "dropped"}]
    /\ reply \in [Requests -> {"none", "ok", "refused", "error", "not_found", "unavailable"}]
    /\ reached \in [Requests -> BOOLEAN] /\ target \in [Gets -> Posts]
    /\ rows \subseteq Posts /\ queue \subseteq rows /\ owed \subseteq Gets

(***************************************************************************)
(* main.py:22, "/ready reports the gap": within one boot no request fails  *)
(* for want of a pool if any /ready has answered "ready", before or after, *)
(* whatever the database did meanwhile and while the process drains.       *)
(***************************************************************************)
ReadyIsHonest == ~(wasReady /\ poolLess)

(***************************************************************************)
(* A client that was given a job_id is never told that the job was not     *)
(* found, whichever boot answers it; so a 404 means no such id.            *)
(***************************************************************************)
ReadsYourWrites == \A g \in owed : reply[g] # "not_found"

(***************************************************************************)
(* Every request is answered, or lost with the process, although a publish *)
(* to a broker that is down holds the event loop from all the others.      *)
(***************************************************************************)
EveryRequestAnswered == \A r \in Requests : InFlight(r) ~> ~InFlight(r)

(***************************************************************************)
(* Whatever happens to its pool and its boots, the process treats a POST   *)
(* as AuditJobs says its handler does: no failure of a start or a stop is  *)
(* outside the faults that AuditJobs gives the handler.                    *)
(***************************************************************************)
HandlerOf(j) ==
    CASE pc[j] \in {"new", "limit", "check", "dropped"} -> "new"
      [] pc[j] = "insert"                       -> "insert"
      [] pc[j] \in {"publish", "delay"}         -> "publish"
      [] pc[j] = "done" /\ reply[j] = "refused" -> "rejected"
      [] pc[j] = "done" /\ reply[j] # "refused" -> reply[j]
      [] pc[j] = "gone"                         -> "gone"

\* The variables of AuditJobs, as this process has them; no worker runs.
AuditApi    == [j \in Posts |-> HandlerOf(j)]
AuditRow    == [j \in Posts |-> [status |-> IF j \in rows THEN "PENDING" ELSE "NONE",
                                 result |-> FALSE, error |-> "none", completed |-> FALSE]]
AuditQueue  == queue \X {1}
AuditCauses == [j \in Posts |-> IF j \in rows \ queue /\ HandlerOf(j) \in {"error", "gone"}
                                THEN {"enqueue"} ELSE {}]

Audit == INSTANCE AuditJobs WITH
    Jobs <- Posts, Workers <- {}, NoMessage <- <<>>,
    Faults <- {"db_error", "db_ambiguous", "broker", "api_crash"},
    api <- AuditApi, row <- AuditRow, queue <- AuditQueue, causes <- AuditCauses,
    proc <- [w \in {} |-> {}], accepted <- {}, mailed <- {}

RefinesAuditJobs == Audit!Spec
=============================================================================
