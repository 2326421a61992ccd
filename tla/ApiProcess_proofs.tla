-------------------------- MODULE ApiProcess_proofs --------------------------
(***************************************************************************)
(* Proofs about ApiProcess, for every set of requests and environments and *)
(* every number of boots.                                                  *)
(***************************************************************************)
EXTENDS ApiProcess, TLAPS

Serving == life \in {"serving", "draining"}

(* The handlers that a request of each kind passes.                        *)
Handlers(r) ==
    {"new", "done", "gone", "dropped"} \cup
    IF r \in Posts THEN {"limit", "check", "insert", "publish", "delay"}
    ELSE IF r \in Gets THEN {"fetch"}
    ELSE {"ready_db", "ready_redis"}

(* A handler runs in a process that serves, and has answered when done.    *)
HandlersOK == \A r \in Requests :
    /\ pc[r] \in Handlers(r)
    /\ InFlight(r) => Serving
    /\ pc[r] # "done" => reply[r] = "none"
    /\ pc[r] = "done" => reply[r] # "none"

(* A row stands for every POST past its INSERT, and a message for every    *)
(* one that is told so; one that stopped before left nothing behind.       *)
PostOK(j) ==
    /\ pc[j] \in {"publish", "delay"} => j \in rows \ queue
    /\ reply[j] = "ok" => j \in queue
    /\ pc[j] \in {"new", "limit", "check", "insert", "dropped"} \/ reply[j] = "refused"
       => j \notin rows
PostsOK == \A j \in Posts : PostOK(j)

(* The pool is opened before a boot serves and closed after: while it      *)
(* serves, what its probes and its requests saw of the pool is what it is. *)
PoolOK ==
    /\ ~(wasReady /\ poolLess)
    /\ life \in {"connect", "client"} => ~wasReady /\ ~poolLess
    /\ Serving => (wasReady => pool) /\ (poolLess => ~pool)
    /\ \A r \in Requests : pc[r] = "ready_redis" /\ reached[r] => pool

(* A GET that is owed its job asks for one with a row.                     *)
OwedOK == \A g \in owed :
    pc[g] # "new" /\ target[g] \in rows /\ reply[g] # "not_found"

Inv == TypeOK /\ HandlersOK /\ PostsOK /\ PoolOK /\ OwedOK

-----------------------------------------------------------------------------

USE RequestsAssumption

LEMMA InitInv == Init => Inv
<1> SUFFICES ASSUME Init PROVE Inv
  OBVIOUS
<1>1. {pool, client, db, redis, wasReady, poolLess} \subseteq BOOLEAN
  BY DEF Init
<1>2. TypeOK
  BY <1>1, BootsAssumption DEF Init, TypeOK
<1>3. HandlersOK
  BY DEF Init, HandlersOK, Handlers, InFlight
<1>4. PostsOK
  BY DEF Init, PostsOK, PostOK, Requests
<1>5. PoolOK
  BY DEF Init, PoolOK, Serving
<1>6. OwedOK
  BY DEF Init, OwedOK
<1> QED
  BY <1>2, <1>3, <1>4, <1>5, <1>6 DEF Inv

(* A step of the process between its boots and its service.                *)
LEMMA ProcessInv ==
    Inv /\ (Boot \/ Connect \/ OpenClient \/ Stop \/ CloseRedis \/ Disconnect \/ Outage) => Inv'
<1> SUFFICES ASSUME Inv, Boot \/ Connect \/ OpenClient \/ Stop \/ CloseRedis \/ Disconnect \/ Outage
             PROVE  Inv'
  OBVIOUS
<1>1. UNCHANGED <<handlers, data>>
  BY DEF Boot, Connect, OpenClient, Stop, CloseRedis, Disconnect, Outage
<1>2. TypeOK'
  <2>1. {pool, client, db, redis, wasReady, poolLess}' \subseteq BOOLEAN
    <3>1. {pool, client, db, redis, wasReady, poolLess} \subseteq BOOLEAN
      BY DEF Inv, TypeOK
    <3>2. Connected \in BOOLEAN /\ HasClient \in BOOLEAN
      BY DEF Connected, HasClient
    <3> QED
      BY <3>1, <3>2 DEF services, seen, process, Boot, Connect, OpenClient, Stop, CloseRedis,
         Disconnect, Outage
  <2>2. /\ config' \in Configs /\ boots' \in 0 .. MaxBoots
        /\ life' \in {"off", "connect", "client", "serving", "draining", "disconnect"}
    BY BootsAssumption DEF Inv, TypeOK, process, Boot, Connect, OpenClient, Stop, CloseRedis,
       Disconnect, Outage
  <2> QED
    BY <1>1, <2>1, <2>2 DEF Inv, TypeOK, handlers, data
<1>3. \A r \in Requests : InFlight(r) => Serving'
  BY DEF Inv, HandlersOK, Serving, InFlight, Boot, Connect, OpenClient, Stop, CloseRedis,
     Disconnect, Outage, process, services, handlers
<1>4. HandlersOK' /\ PostsOK' /\ OwedOK'
  BY <1>1, <1>3 DEF Inv, HandlersOK, PostsOK, PostOK, OwedOK, InFlight, handlers, data
<1>5. PoolOK'
  <2>1. \A r \in Requests : pc[r] = "ready_redis" => Serving
    BY DEF Inv, HandlersOK, InFlight
  <2> QED
    BY <1>1, <2>1, <1>3 DEF Inv, PoolOK, Serving, InFlight, handlers, seen, process, services,
       Boot, Connect, OpenClient, Stop, CloseRedis, Disconnect, Outage
<1> QED
  BY <1>2, <1>4, <1>5 DEF Inv

LEMMA CrashInv == Inv /\ Crash => Inv'
<1> SUFFICES ASSUME Inv, Crash PROVE Inv'
  OBVIOUS
<1>1. /\ UNCHANGED <<config, boots, services, reply, reached, target, owed, data, seen>>
      /\ life' = "off" /\ pool' = FALSE /\ client' = FALSE
      /\ pc' = [r \in Requests |-> IF InFlight(r) THEN Lost(r) ELSE pc[r]]
  BY DEF Crash
<1>2. \A r \in Requests :
         /\ InFlight(r) => pc'[r] \in {"gone", "dropped"}
         /\ InFlight(r) /\ pc[r] \in {"publish", "delay", "insert"} => pc'[r] = "gone"
         /\ ~InFlight(r) => pc'[r] = pc[r]
  BY <1>1 DEF Lost
<1>3. TypeOK'
  BY <1>1, <1>2 DEF Inv, TypeOK, services, data, seen
<1>4. HandlersOK'
  BY <1>1, <1>2 DEF Inv, HandlersOK, Handlers, InFlight
<1>5. PostsOK'
  BY <1>1, <1>2 DEF Inv, PostsOK, PostOK, HandlersOK, Handlers, InFlight, data, Requests
<1>6. PoolOK'
  BY <1>1, <1>2 DEF Inv, PoolOK, InFlight, Serving, seen
<1>7. OwedOK'
  BY <1>1, <1>2 DEF Inv, OwedOK, InFlight, data, TypeOK, Requests
<1> QED
  BY <1>3, <1>4, <1>5, <1>6, <1>7 DEF Inv

(* A request is taken.                                                     *)
LEMMA ArriveInv == ASSUME NEW r \in Requests PROVE Inv /\ Arrive(r) => Inv'
<1> SUFFICES ASSUME Inv, Arrive(r) PROVE Inv'
  OBVIOUS
<1> DEFINE next == IF r \in Posts THEN "limit" ELSE IF r \in Gets THEN "fetch" ELSE "ready_db"
<1>1. /\ UNCHANGED <<process, services, reached, data, seen, reply>>
      /\ pc[r] = "new" /\ life = "serving"
      /\ pc' = [pc EXCEPT ![r] = next]
  BY DEF Arrive, Goto
<1>2. /\ target' \in [Gets -> Posts] /\ owed' \subseteq Gets /\ owed' \subseteq owed \cup {r}
      /\ \A g \in owed : g # r /\ target'[g] = target[g]
      /\ r \in owed' => target'[r] \in rows
  <2>1. CASE r \in Gets
    <3>1. PICK j \in Posts :
             /\ target' = [target EXCEPT ![r] = j]
             /\ owed' = IF reply[j] = "ok" THEN owed \cup {r} ELSE owed
      BY <2>1 DEF Arrive
    <3>2. \A g \in owed : g # r /\ g \in Gets
      BY <1>1 DEF Inv, OwedOK, TypeOK
    <3>3. reply[j] = "ok" => j \in rows
      BY DEF Inv, PostsOK, PostOK, TypeOK
    <3> QED
      BY <2>1, <3>1, <3>2, <3>3 DEF Inv, TypeOK
  <2>2. CASE r \notin Gets
    BY <2>2 DEF Arrive, Inv, TypeOK
  <2> QED
    BY <2>1, <2>2
<1>3. /\ pc'[r] = next /\ \A s \in Requests \ {r} : pc'[s] = pc[s]
      /\ next \in Handlers(r) \cap {"limit", "fetch", "ready_db"}
  BY <1>1 DEF Inv, TypeOK, Handlers
<1>4. TypeOK'
  BY <1>1, <1>2 DEF Inv, TypeOK, process, services, data, seen
<1>5. HandlersOK'
  BY <1>1, <1>3 DEF Inv, HandlersOK, InFlight, Serving, process
<1>6. PostsOK'
  BY <1>1, <1>3 DEF Inv, PostsOK, PostOK, data, Requests, Handlers
<1>7. PoolOK'
  BY <1>1, <1>3 DEF Inv, PoolOK, Serving, process, seen
<1>8. OwedOK'
  BY <1>1, <1>2, <1>3 DEF Inv, OwedOK, HandlersOK, TypeOK, data, Requests
<1> QED
  BY <1>4, <1>5, <1>6, <1>7, <1>8 DEF Inv

LEMMA GotoIs ==
    ASSUME TypeOK, NEW r \in Requests, NEW next, Goto(r, next)
    PROVE  /\ pc' = [pc EXCEPT ![r] = next] /\ pc'[r] = next /\ reply' = reply
           /\ \A s \in Requests \ {r} : pc'[s] = pc[s]
BY DEF TypeOK, Goto

LEMMA AnswerIs ==
    ASSUME TypeOK, NEW r \in Requests, NEW code, Answer(r, code)
    PROVE  /\ pc' = [pc EXCEPT ![r] = "done"] /\ reply' = [reply EXCEPT ![r] = code]
           /\ pc'[r] = "done" /\ reply'[r] = code
           /\ \A s \in Requests \ {r} : pc'[s] = pc[s] /\ reply'[s] = reply[s]
BY DEF TypeOK, Answer

Pcs == {"new", "limit", "check", "insert", "publish", "delay", "fetch", "ready_db",
        "ready_redis", "done", "gone", "dropped"}
Replies == {"none", "ok", "refused", "error", "not_found", "unavailable"}

(* What a step of a handler leaves alone, and where it leads.              *)
Keeps(r) ==
    /\ UNCHANGED <<config, life, boots, pool, db, redis, target, owed>>
    /\ client' \in BOOLEAN
    /\ pc' \in [Requests -> Pcs] /\ reply' \in [Requests -> Replies]
    /\ reached' \in [Requests -> BOOLEAN]
    /\ \A s \in Requests \ {r} : pc'[s] = pc[s] /\ reply'[s] = reply[s]
                                 /\ reached'[s] = reached[s]

Proceeds(r) ==
    \/ /\ pc'[r] \in Handlers(r) \ {"new", "done", "gone", "dropped"}
       /\ reply'[r] = "none"
    \/ pc'[r] = "done" /\ reply'[r] # "none"

HandlerStep(r) ==
    /\ InFlight(r) /\ Keeps(r) /\ Proceeds(r)
    /\ rows \subseteq rows' /\ rows' \subseteq rows \cup ({r} \cap Posts)
    /\ queue \subseteq queue' /\ queue' \subseteq queue \cup ({r} \cap rows')
    /\ r \in Posts => PostOK(r)'
    /\ wasReady' = wasReady \/ (wasReady' = TRUE /\ pool)
    /\ poolLess' = poolLess \/ (poolLess' = TRUE /\ ~pool)
    /\ pc'[r] = "ready_redis" /\ reached'[r] => pool
    /\ r \in owed => reply'[r] # "not_found"

LEMMA HandlerStepInv == ASSUME Inv, NEW r \in Requests, HandlerStep(r) PROVE Inv'
<1>1. Keeps(r) /\ Proceeds(r) /\ InFlight(r)
  BY DEF HandlerStep
<1>2. Serving /\ Serving' /\ UNCHANGED pool
  BY <1>1 DEF Inv, HandlersOK, Keeps, Serving
<1>3. TypeOK'
  <2>1. {pool, client, db, redis, wasReady, poolLess}' \subseteq BOOLEAN
    BY <1>1 DEF Inv, TypeOK, HandlerStep, Keeps
  <2>2. rows' \subseteq Posts /\ queue' \subseteq rows'
    BY DEF Inv, TypeOK, HandlerStep
  <2> QED
    BY <1>1, <2>1, <2>2 DEF Inv, TypeOK, Keeps, Pcs, Replies
<1>4. HandlersOK'
  <2>1. "done" \in Handlers(r)
    BY DEF Handlers
  <2> QED
    BY <1>1, <1>2, <2>1 DEF Inv, HandlersOK, Keeps, Proceeds, InFlight
<1>5. PostsOK'
  <2> SUFFICES ASSUME NEW j \in Posts, j # r PROVE PostOK(j)'
    BY DEF PostsOK, HandlerStep
  <2>1. PostOK(j) /\ j \in Requests
    BY DEF Inv, PostsOK, Requests
  <2>2. (j \in rows <=> j \in rows') /\ (j \in queue <=> j \in queue')
    BY DEF HandlerStep
  <2> QED
    BY <1>1, <2>1, <2>2 DEF PostOK, Keeps
<1>6. PoolOK'
  BY <1>1, <1>2 DEF Inv, PoolOK, HandlerStep, Keeps, Serving
<1>7. OwedOK'
  <2>1. owed \subseteq Requests
    BY DEF Inv, TypeOK, Requests
  <2> QED
    BY <1>1, <2>1 DEF Inv, OwedOK, HandlerStep, Keeps, Proceeds
<1> QED
  BY <1>3, <1>4, <1>5, <1>6, <1>7 DEF Inv

(* Every step of a handler is such a step.                                 *)
LEMMA HandleIsStep == ASSUME Inv, NEW r \in Requests, Handle(r) PROVE HandlerStep(r)
<1>1. /\ TypeOK /\ HandlersOK /\ PostsOK /\ PoolOK /\ OwedOK /\ HasClient \in BOOLEAN
      /\ pc[r] \in Handlers(r) /\ (r \in Posts => PostOK(r)) /\ reply[r] \in Replies
      /\ pc \in [Requests -> Pcs] /\ reply \in [Requests -> Replies]
      /\ reached \in [Requests -> BOOLEAN] /\ client \in BOOLEAN
  BY DEF Inv, HandlersOK, PostsOK, TypeOK, Pcs, Replies, HasClient
<1>2. ASSUME NEW next \in Pcs, Goto(r, next), InFlight(r),
             UNCHANGED <<config, life, boots, pool, db, redis, target, owed>>,
             client' \in BOOLEAN, reached' \in [Requests -> BOOLEAN],
             \A s \in Requests \ {r} : reached'[s] = reached[s],
             next \in Handlers(r) \ {"new", "done", "gone", "dropped"}
      PROVE  Keeps(r) /\ Proceeds(r) /\ pc'[r] = next /\ reply' = reply /\ reply[r] = "none"
  <2>1. pc' \in [Requests -> Pcs] /\ reply[r] = "none"
    BY <1>1, <1>2, GotoIs DEF InFlight, HandlersOK
  <2> QED
    BY <1>1, <1>2, <2>1, GotoIs DEF Keeps, Proceeds
<1>3. ASSUME NEW code \in Replies \ {"none"}, Answer(r, code), InFlight(r),
             UNCHANGED <<config, life, boots, pool, db, redis, target, owed, reached>>,
             client' \in BOOLEAN
      PROVE  Keeps(r) /\ Proceeds(r) /\ pc'[r] = "done" /\ reply'[r] = code
  <2>1. pc' \in [Requests -> Pcs] /\ reply' \in [Requests -> Replies]
    BY <1>1, <1>3, AnswerIs DEF Pcs
  <2> QED
    BY <1>1, <1>3, <2>1, AnswerIs DEF Keeps, Proceeds
<1>4. CASE Limit(r)
  <2>1. InFlight(r) /\ r \in Posts /\ r \notin Gets
    BY <1>1, <1>4 DEF Limit, InFlight, Handlers
  <2>2. /\ client' \in BOOLEAN /\ pc[r] = "limit"
        /\ UNCHANGED <<config, life, boots, pool, services, reached, target, owed, data, seen>>
    BY <1>1, <1>4 DEF Limit
  <2>3. ASSUME NEW code \in {"refused", "error"}, Answer(r, code) PROVE HandlerStep(r)
    BY <1>1, <1>3, <2>1, <2>2, <2>3
       DEF HandlerStep, Replies, services, data, seen, PostOK, TypeOK
  <2>4. CASE Goto(r, "check")
    BY <1>1, <1>2, <2>1, <2>2, <2>4
       DEF HandlerStep, Pcs, Handlers, services, data, seen, PostOK, TypeOK
  <2> QED
    BY <1>4, <2>3, <2>4 DEF Limit
<1>5. CASE Check(r)
  <2>1. InFlight(r) /\ r \in Posts /\ r \notin Gets
    BY <1>1, <1>5 DEF Check, InFlight, Handlers
  <2>2. ASSUME NEW code \in {"refused", "error"}, Answer(r, code) PROVE HandlerStep(r)
    BY <1>1, <1>3, <1>5, <2>1, <2>2 DEF Check, HandlerStep, Replies, process, services, data, seen,
       PostOK, TypeOK
  <2>3. CASE Goto(r, "insert")
    BY <1>1, <1>2, <1>5, <2>1, <2>3 DEF Check, HandlerStep, Pcs, Handlers, process, services, data,
       seen, PostOK, TypeOK
  <2> QED
    BY <1>5, <2>2, <2>3 DEF Check
<1>6. CASE NoPool(r)
  <2>1. InFlight(r) /\ Answer(r, "error")
    BY <1>6 DEF NoPool, InFlight
  <2> QED
    <3>1. Keeps(r) /\ Proceeds(r) /\ pc'[r] = "done" /\ reply'[r] = "error"
      BY <1>1, <1>3, <1>6, <2>1 DEF NoPool, Replies, process, services
    <3>2. UNCHANGED <<rows, queue, wasReady>> /\ poolLess' = TRUE /\ ~pool
      BY <1>1, <1>6 DEF NoPool, data
    <3>3. r \in Posts => PostOK(r)'
      BY <3>1, <3>2 DEF PostOK
    <3> QED
      BY <1>1, <2>1, <3>1, <3>2, <3>3 DEF HandlerStep, TypeOK
<1>7. CASE Create(r)
  <2>1. InFlight(r) /\ r \in Posts /\ r \notin Gets /\ Goto(r, "publish")
    BY <1>1, <1>7 DEF Create, InFlight, Handlers
  <2>2. r \notin queue
    BY <1>1, <1>7, <2>1 DEF Create, PostOK, TypeOK
  <2> QED
    BY <1>1, <1>2, <1>7, <2>1, <2>2 DEF Create, HandlerStep, Pcs, Handlers, process, services, seen,
       PostOK, TypeOK
<1>8. CASE CreateFails(r)
  <2>1. InFlight(r) /\ r \in Posts /\ r \notin Gets /\ Answer(r, "error")
    BY <1>1, <1>8 DEF CreateFails, InFlight, Handlers
  <2> QED
    BY <1>1, <1>3, <1>8, <2>1 DEF CreateFails, HandlerStep, Replies, process, services, seen,
       PostOK, TypeOK
<1>9. CASE StartDelay(r)
  <2>1. InFlight(r) /\ r \in Posts /\ r \notin Gets /\ Goto(r, "delay")
    BY <1>1, <1>9 DEF StartDelay, InFlight, Handlers
  <2> QED
    BY <1>1, <1>2, <1>9, <2>1 DEF StartDelay, HandlerStep, Pcs, Handlers, process, services, data,
       seen, PostOK, TypeOK
<1>10. CASE EndDelay(r)
  <2>1. InFlight(r) /\ r \in Posts /\ r \notin Gets /\ r \in rows
    BY <1>1, <1>10 DEF EndDelay, InFlight, Handlers, PostOK
  <2>2. ASSUME NEW code \in {"ok", "error"}, Answer(r, code),
               code = "ok" => r \in queue',
               queue \subseteq queue', queue' \subseteq queue \cup {r}
        PROVE  HandlerStep(r)
    BY <1>1, <1>3, <1>10, <2>1, <2>2 DEF EndDelay, HandlerStep, Replies, process, services, seen,
       PostOK, TypeOK
  <2> QED
    BY <1>10, <2>2 DEF EndDelay
<1>11. CASE Fetch(r)
  <2>1. InFlight(r) /\ r \in Gets /\ r \notin Posts
    BY <1>1, <1>11 DEF Fetch, InFlight, Handlers
  <2>2. ASSUME NEW code \in {"ok", "not_found", "error"}, Answer(r, code),
               r \in owed => code # "not_found"
        PROVE  HandlerStep(r)
    BY <1>1, <1>3, <1>11, <2>1, <2>2 DEF Fetch, HandlerStep, Replies, process, services, data, seen,
       TypeOK
  <2>3. r \in owed => target[r] \in rows
    BY <1>1 DEF OwedOK
  <2> QED
    BY <1>11, <2>2, <2>3 DEF Fetch
<1>12. CASE ReadyDatabase(r)
  <2>1. InFlight(r) /\ r \notin Gets /\ r \notin Posts /\ Goto(r, "ready_redis")
    BY <1>1, <1>12 DEF ReadyDatabase, InFlight, Handlers
  <2>2. PICK answered \in {pool /\ db, FALSE} : reached' = [reached EXCEPT ![r] = answered]
    BY <1>12 DEF ReadyDatabase
  <2>3. /\ reached' \in [Requests -> BOOLEAN]
        /\ \A s \in Requests \ {r} : reached'[s] = reached[s]
        /\ reached'[r] => pool
    BY <1>1, <2>2
  <2>4. r \notin owed
    BY <1>1, <2>1 DEF TypeOK
  <2> QED
    BY <1>1, <1>2, <1>12, <2>1, <2>3, <2>4
       DEF ReadyDatabase, HandlerStep, Pcs, Handlers, process, services, data, seen, TypeOK
<1>13. CASE ReadyRedis(r)
  <2>1. InFlight(r) /\ r \notin Gets /\ r \notin Posts /\ (reached[r] => pool)
    BY <1>1, <1>13 DEF ReadyRedis, InFlight, Handlers, PoolOK
  <2>2. PICK ponged \in {HasClient /\ redis, FALSE} : LET ready == reached[r] /\ ponged IN
           /\ Answer(r, IF ready THEN "ok" ELSE "unavailable")
           /\ wasReady' = (wasReady \/ ready)
    BY <1>13 DEF ReadyRedis
  <2>3. wasReady' = wasReady \/ (wasReady' = TRUE /\ pool)
    BY <1>1, <2>1, <2>2 DEF TypeOK
  <2>4. \E code \in {"ok", "unavailable"} : Answer(r, code)
    BY <2>2
  <2>5. r \notin owed
    BY <1>1, <2>1 DEF TypeOK
  <2> QED
    BY <1>1, <1>3, <1>13, <2>1, <2>3, <2>4, <2>5
       DEF ReadyRedis, HandlerStep, Replies, services, data, TypeOK
<1> QED
  BY <1>4, <1>5, <1>6, <1>7, <1>8, <1>9, <1>10, <1>11, <1>12, <1>13 DEF Handle

-----------------------------------------------------------------------------
(* The theorems.                                                           *)

THEOREM InvIsInvariant == Spec => []Inv
<1>1. Inv /\ [Next]_vars => Inv'
  <2> SUFFICES ASSUME Inv, [Next]_vars PROVE Inv'
    OBVIOUS
  <2>1. CASE UNCHANGED vars
    BY <2>1 DEF vars, process, services, handlers, data, seen, Inv, TypeOK, HandlersOK, Handlers,
       InFlight, Serving, PostsOK, PostOK, PoolOK, OwedOK
  <2>2. CASE Next
    BY <2>2, ProcessInv, CrashInv, ArriveInv, HandleIsStep, HandlerStepInv DEF Next
  <2> QED
    BY <2>1, <2>2
<1> QED
  BY InitInv, <1>1, PTL DEF Spec

(* Every variable keeps its type, and only inserted jobs are published.    *)
THEOREM TypeCorrect == Spec => []TypeOK
BY InvIsInvariant, PTL DEF Inv

(* A process that has called itself ready refuses no request of that boot  *)
(* for want of a pool.                                                     *)
THEOREM ReadinessIsHonest == Spec => []ReadyIsHonest
<1>1. Inv => ReadyIsHonest
  BY DEF Inv, PoolOK, ReadyIsHonest
<1> QED
  BY InvIsInvariant, <1>1, PTL

(* A job whose id was given out is always found.                           *)
THEOREM GivenIdsAreFound == Spec => []ReadsYourWrites
<1>1. Inv => ReadsYourWrites
  BY DEF Inv, OwedOK, ReadsYourWrites
<1> QED
  BY InvIsInvariant, <1>1, PTL

-----------------------------------------------------------------------------
(* The process implements AuditJobs.                                       *)

AuditVars == <<AuditApi, AuditRow, AuditQueue, AuditCauses>>
RowOf(j) == [status |-> IF j \in rows THEN "PENDING" ELSE "NONE",
             result |-> FALSE, error |-> "none", completed |-> FALSE]
CausesOf(j) ==
    IF j \in rows \ queue /\ HandlerOf(j) \in {"error", "gone"} THEN {"enqueue"} ELSE {}

LEMMA HandlerSame ==
    ASSUME NEW j, pc'[j] = pc[j], reply'[j] = reply[j]
    PROVE  HandlerOf(j)' = HandlerOf(j)
BY DEF HandlerOf

LEMMA NothingSeen ==
    ASSUME \A j \in Posts : HandlerOf(j)' = HandlerOf(j), UNCHANGED <<rows, queue>>
    PROVE  UNCHANGED AuditVars
BY DEF AuditVars, AuditApi, AuditRow, AuditQueue, AuditCauses

(* A step of one POST changes what AuditJobs sees of that POST.            *)
LEMMA OnePost ==
    ASSUME NEW r \in Posts,
           \A j \in Posts \ {r} : /\ HandlerOf(j)' = HandlerOf(j)
                                  /\ j \in rows <=> j \in rows'
                                  /\ j \in queue <=> j \in queue'
    PROVE  /\ AuditApi' = [AuditApi EXCEPT ![r] = HandlerOf(r)']
           /\ AuditRow' = [AuditRow EXCEPT ![r] = RowOf(r)']
           /\ AuditCauses' = [AuditCauses EXCEPT ![r] = CausesOf(r)']
           /\ AuditApi[r] = HandlerOf(r) /\ AuditRow[r] = RowOf(r)
           /\ AuditCauses[r] = CausesOf(r)
<1>1. /\ AuditApi' = [AuditApi EXCEPT ![r] = HandlerOf(r)']
      /\ AuditApi[r] = HandlerOf(r)
  BY DEF AuditApi
<1>2. /\ AuditRow' = [AuditRow EXCEPT ![r] = RowOf(r)']
      /\ AuditRow[r] = RowOf(r)
  BY DEF AuditRow, RowOf
<1>3. /\ AuditCauses' = [AuditCauses EXCEPT ![r] = CausesOf(r)']
      /\ AuditCauses[r] = CausesOf(r)
  BY DEF AuditCauses, CausesOf
<1> QED
  BY <1>1, <1>2, <1>3

LEMMA InsertedIs ==
    Audit!Inserted = [status |-> "PENDING", result |-> FALSE, error |-> "none", completed |-> FALSE]
<1> DEFINE n == [status |-> "NONE", result |-> FALSE, error |-> "none", completed |-> FALSE]
<1>1. Audit!Inserted = [n EXCEPT !.status = "PENDING"]
  BY DEF Audit!Inserted, Audit!NoRow
<1> QED
  BY <1>1

(* Where the handler of a POST is, in the terms of AuditJobs.              *)
LEMMA HandlerIs ==
    ASSUME NEW j \in Posts
    PROVE  /\ pc[j] \in {"new", "limit", "check", "dropped"} => HandlerOf(j) = "new"
           /\ pc[j] = "insert" => HandlerOf(j) = "insert"
           /\ pc[j] \in {"publish", "delay"} => HandlerOf(j) = "publish"
           /\ pc[j] = "gone" => HandlerOf(j) = "gone"
           /\ pc[j] = "done" /\ reply[j] = "refused" => HandlerOf(j) = "rejected"
           /\ pc[j] = "done" /\ reply[j] # "refused" => HandlerOf(j) = reply[j]
<1>1. pc[j] \in {"new", "limit", "check", "dropped"} => HandlerOf(j) = "new"
  BY DEF HandlerOf
<1>2. pc[j] = "insert" => HandlerOf(j) = "insert"
  BY DEF HandlerOf
<1>3. pc[j] \in {"publish", "delay"} => HandlerOf(j) = "publish"
  BY DEF HandlerOf
<1>4. pc[j] = "gone" => HandlerOf(j) = "gone"
  BY DEF HandlerOf
<1>5. pc[j] = "done" /\ reply[j] = "refused" => HandlerOf(j) = "rejected"
  BY DEF HandlerOf
<1>6. pc[j] = "done" /\ reply[j] # "refused" => HandlerOf(j) = reply[j]
  BY DEF HandlerOf
<1> QED
  BY <1>1, <1>2, <1>3, <1>4, <1>5, <1>6

(* What a step of a handler is for AuditJobs: a step of that POST, or      *)
(* nothing for a GET and a probe.                                          *)
LEMMA LimitIsAudit ==
    ASSUME Inv, NEW r \in Posts, Limit(r) \/ Check(r)
    PROVE  Audit!Next \/ UNCHANGED AuditVars
<1> USE DEF Requests
<1>1. /\ pc[r] \in {"limit", "check"} /\ HandlerOf(r) = "new"
      /\ UNCHANGED <<rows, queue>> /\ TypeOK
      /\ \/ \E next \in {"check", "insert"} : Goto(r, next) /\ (next = "check" => pc[r] = "limit")
         \/ \E code \in {"refused", "error"} : Answer(r, code)
  BY HandlerIs DEF Limit, Check, data, Inv
<1>2. /\ \A s \in Posts \ {r} : pc'[s] = pc[s] /\ reply'[s] = reply[s]
      /\ \/ pc'[r] \in {"check", "insert"} /\ reply'[r] = reply[r]
         \/ pc'[r] = "done" /\ reply'[r] \in {"refused", "error"}
  BY <1>1, GotoIs, AnswerIs
<1>3. HandlerOf(r)' \in {"new", "insert", "rejected", "error"}
  BY <1>2 DEF HandlerOf
<1>4. \A s \in Posts \ {r} : HandlerOf(s)' = HandlerOf(s)
  BY <1>2, HandlerSame
<1>5. CASE HandlerOf(r)' = "new"
  BY <1>1, <1>4, <1>5, NothingSeen
<1>6. CASE HandlerOf(r)' # "new"
  <2>1. /\ AuditApi' = [AuditApi EXCEPT ![r] = HandlerOf(r)'] /\ AuditApi[r] = "new"
        /\ AuditRow' = AuditRow /\ AuditQueue' = AuditQueue
    BY <1>1, <1>4, OnePost DEF AuditRow, AuditQueue
  <2>2. CausesOf(r)' = CausesOf(r) /\ AuditCauses' = AuditCauses
    <3>1. r \notin rows
      BY <1>1 DEF Inv, PostsOK, PostOK
    <3> QED
      BY <1>1, <1>4, <3>1 DEF CausesOf, AuditCauses
  <2>3. Audit!CheckUrl(r)
    BY <1>3, <1>6, <2>1, <2>2 DEF Audit!CheckUrl
  <2> QED
    BY <2>3 DEF Audit!Next
<1> QED
  BY <1>5, <1>6

LEMMA InsertIsAudit ==
    ASSUME Inv, NEW r \in Posts, Create(r) \/ CreateFails(r) \/ (NoPool(r) /\ pc[r] = "insert")
    PROVE  Audit!Next
<1> USE DEF Requests
<1>1. /\ pc[r] = "insert" /\ HandlerOf(r) = "insert" /\ r \notin rows /\ r \notin queue /\ TypeOK
      /\ queue' = queue /\ (rows' = rows \/ rows' = rows \cup {r})
      /\ \/ Goto(r, "publish") /\ r \in rows'
         \/ Answer(r, "error")
  <2>1. TypeOK /\ PostOK(r)
    BY Zenon DEF Inv, PostsOK
  <2>2. pc[r] = "insert"
    BY DEF Create, CreateFails, NoPool
  <2>3. HandlerOf(r) = "insert" /\ r \notin rows /\ r \notin queue
    <3>1. HandlerOf(r) = "insert"
      BY <2>2, HandlerIs, Zenon
    <3>2. r \notin rows /\ queue \subseteq rows
      BY <2>1, <2>2 DEF PostOK, TypeOK
    <3> QED
      BY <3>1, <3>2
  <2>4. /\ queue' = queue /\ (rows' = rows \/ rows' = rows \cup {r})
        /\ \/ Goto(r, "publish") /\ r \in rows'
           \/ Answer(r, "error")
    BY DEF Create, CreateFails, NoPool, data
  <2> QED
    BY <2>1, <2>2, <2>3, <2>4, Zenon
<1>2. /\ \A s \in Posts \ {r} : pc'[s] = pc[s] /\ reply'[s] = reply[s]
      /\ \/ pc'[r] = "publish" /\ r \in rows'
         \/ pc'[r] = "done" /\ reply'[r] = "error"
  BY <1>1, GotoIs, AnswerIs
<1>3. \/ HandlerOf(r)' = "publish" /\ r \in rows'
      \/ HandlerOf(r)' = "error"
  BY <1>2 DEF HandlerOf
<1>4. \A s \in Posts \ {r} : /\ HandlerOf(s)' = HandlerOf(s)
                             /\ s \in rows <=> s \in rows'
                             /\ s \in queue <=> s \in queue'
  BY <1>1, <1>2, HandlerSame
<1>5. /\ AuditApi' = [AuditApi EXCEPT ![r] = HandlerOf(r)'] /\ AuditApi[r] = "insert"
      /\ AuditRow' = [AuditRow EXCEPT ![r] = RowOf(r)'] /\ AuditRow[r] = RowOf(r)
      /\ AuditCauses' = [AuditCauses EXCEPT ![r] = CausesOf(r)'] /\ AuditCauses[r] = {}
      /\ AuditQueue' = AuditQueue
  <2>1. CausesOf(r) = {}
    BY <1>1 DEF CausesOf
  <2> QED
    BY <1>1, <1>4, <2>1, OnePost DEF AuditQueue
<1>6. /\ AuditRow \in [Posts -> {RowOf(r), RowOf(r)'} \cup {AuditRow[j] : j \in Posts}]
      /\ AuditCauses = [j \in Posts |-> AuditCauses[j]]
  BY DEF AuditRow, AuditCauses
<1>7. CASE HandlerOf(r)' = "publish"
  <2>1. RowOf(r)' = Audit!Inserted
    BY <1>3, <1>7, InsertedIs DEF RowOf
  <2>2. CausesOf(r)' = {}
    BY <1>7 DEF CausesOf
  <2>3. AuditCauses' = AuditCauses
    BY <1>5, <1>6, <2>2
  <2>4. Audit!CreateJob(r)
    BY <1>5, <1>7, <2>1, <2>3 DEF Audit!CreateJob
  <2> QED
    BY <2>4 DEF Audit!Next, Audit!Handle
<1>8. CASE HandlerOf(r)' = "error" /\ rows' = rows
  <2>1. RowOf(r)' = RowOf(r) /\ CausesOf(r)' = {}
    BY <1>1, <1>8 DEF RowOf, CausesOf
  <2>2. AuditCauses' = AuditCauses /\ AuditRow' = AuditRow
    BY <1>5, <1>6, <2>1
  <2>3. Audit!CreateJobFails(r)
    BY <1>5, <1>8, <2>2 DEF Audit!CreateJobFails
  <2> QED
    BY <2>3 DEF Audit!Next, Audit!Handle
<1>9. CASE HandlerOf(r)' = "error" /\ r \in rows'
  <2>1. RowOf(r)' = Audit!Inserted /\ RowOf(r)'.status = "PENDING"
    BY <1>9, InsertedIs DEF RowOf
  <2>2. CausesOf(r)' = {} \cup {"enqueue"}
    BY <1>1, <1>9 DEF CausesOf
  <2>3. AuditRow'[r] = RowOf(r)'
    BY <1>5, <1>6
  <2>4. Audit!Blame(r, "enqueue")
    BY <1>5, <2>1, <2>2, <2>3 DEF Audit!Blame, Audit!Terminal
  <2>5. Audit!CreateJobFails(r)
    BY <1>5, <1>9, <2>1, <2>4 DEF Audit!CreateJobFails
  <2> QED
    BY <2>5 DEF Audit!Next, Audit!Handle
<1> QED
  BY <1>1, <1>3, <1>7, <1>8, <1>9

LEMMA PublishIsAudit ==
    ASSUME Inv, NEW r \in Posts, EndDelay(r)
    PROVE  Audit!Next
<1> USE DEF Requests
<1>1. /\ pc[r] = "delay" /\ HandlerOf(r) = "publish" /\ r \in rows /\ r \notin queue /\ TypeOK
      /\ rows' = rows
      /\ \/ queue' = queue \cup {r} /\ (Answer(r, "ok") \/ Answer(r, "error"))
         \/ queue' = queue /\ Answer(r, "error")
  BY HandlerIs DEF EndDelay, Inv, PostsOK, PostOK, TypeOK
<1>2. /\ \A s \in Posts \ {r} : pc'[s] = pc[s] /\ reply'[s] = reply[s]
      /\ pc'[r] = "done"
      /\ \/ queue' = queue \cup {r} /\ reply'[r] \in {"ok", "error"}
         \/ queue' = queue /\ reply'[r] = "error"
  BY <1>1, AnswerIs
<1>3. \/ queue' = queue \cup {r} /\ HandlerOf(r)' \in {"ok", "error"}
      \/ queue' = queue /\ HandlerOf(r)' = "error"
  BY <1>2 DEF HandlerOf
<1>4. \A s \in Posts \ {r} : /\ HandlerOf(s)' = HandlerOf(s)
                             /\ s \in rows <=> s \in rows'
                             /\ s \in queue <=> s \in queue'
  BY <1>1, <1>2, HandlerSame
<1>5. /\ AuditApi' = [AuditApi EXCEPT ![r] = HandlerOf(r)'] /\ AuditApi[r] = "publish"
      /\ AuditRow' = AuditRow /\ AuditRow[r] = RowOf(r)
      /\ AuditCauses' = [AuditCauses EXCEPT ![r] = CausesOf(r)'] /\ AuditCauses[r] = {}
  <2>1. CausesOf(r) = {}
    BY <1>1 DEF CausesOf
  <2> QED
    BY <1>1, <1>4, <2>1, OnePost DEF AuditRow
<1>6. AuditCauses = [j \in Posts |-> AuditCauses[j]] /\ RowOf(r).status = "PENDING"
  BY <1>1 DEF AuditCauses, RowOf
<1>7. CASE queue' = queue \cup {r}
  <2>1. AuditQueue' = AuditQueue \cup {<<r, 1>>}
    BY <1>7 DEF AuditQueue
  <2>2. CausesOf(r)' = {}
    BY <1>7 DEF CausesOf
  <2>3. AuditCauses' = AuditCauses
    BY <1>5, <1>6, <2>2
  <2>4. Audit!Publish(r) \/ Audit!PublishFails(r)
    BY <1>3, <1>5, <2>1, <2>3 DEF Audit!Publish, Audit!PublishFails
  <2> QED
    BY <2>4 DEF Audit!Next, Audit!Handle
<1>8. CASE queue' = queue
  <2>1. HandlerOf(r)' = "error" /\ AuditQueue' = AuditQueue
    BY <1>1, <1>3, <1>8 DEF AuditQueue
  <2>2. CausesOf(r)' = {} \cup {"enqueue"}
    BY <1>1, <1>8, <2>1 DEF CausesOf
  <2>3. Audit!Blame(r, "enqueue")
    BY <1>5, <1>6, <2>2 DEF Audit!Blame, Audit!Terminal
  <2>4. Audit!PublishFails(r)
    BY <1>5, <2>1, <2>3 DEF Audit!PublishFails
  <2> QED
    BY <2>4 DEF Audit!Next, Audit!Handle
<1> QED
  BY <1>1, <1>7, <1>8

(* The POSTs that a crash loses between their INSERT and their response are *)
(* those that AuditJobs has in flight; one before that was never seen.     *)
LEMMA CrashIsAudit ==
    ASSUME Inv, Crash
    PROVE  Audit!Next \/ UNCHANGED AuditVars
<1> USE DEF Requests
<1>1. /\ UNCHANGED <<rows, queue, reply>> /\ TypeOK
      /\ pc' = [r \in Requests |-> IF InFlight(r) THEN Lost(r) ELSE pc[r]]
  BY DEF Crash, data, Inv
<1>2. \A j \in Posts : HandlerOf(j)' =
         IF HandlerOf(j) \in {"insert", "publish"} THEN "gone" ELSE HandlerOf(j)
  <2> SUFFICES ASSUME NEW j \in Posts
               PROVE  HandlerOf(j)' = IF HandlerOf(j) \in {"insert", "publish"} THEN "gone"
                                      ELSE HandlerOf(j)
    OBVIOUS
  <2>1. pc'[j] = IF InFlight(j) THEN Lost(j) ELSE pc[j]
    BY <1>1
  <2>2. pc[j] \in Handlers(j) /\ reply[j] \in Replies /\ (reply[j] = "none" \/ pc[j] = "done")
    BY <1>1 DEF Inv, HandlersOK, TypeOK, Replies
  <2>3. CASE pc[j] \in {"insert", "publish", "delay"}
    <3>1. HandlerOf(j) \in {"insert", "publish"}
      BY <2>3, HandlerIs
    <3>2. pc'[j] = "gone"
      BY <2>1, <2>3 DEF InFlight, Lost
    <3> QED
      BY <3>1, <3>2 DEF HandlerOf
  <2>4. CASE pc[j] \in {"limit", "check"}
    <3>1. pc'[j] = "dropped" /\ HandlerOf(j) = "new"
      BY <2>1, <2>4, HandlerIs DEF InFlight, Lost
    <3> QED
      BY <3>1 DEF HandlerOf
  <2>5. CASE pc[j] \in {"new", "done", "gone", "dropped"}
    <3>1. pc'[j] = pc[j] /\ reply'[j] = reply[j]
      BY <1>1, <2>1, <2>5 DEF InFlight
    <3>2. HandlerOf(j) \notin {"insert", "publish"}
      BY <2>2, <2>5, HandlerIs DEF Replies
    <3> QED
      BY <3>1, <3>2, HandlerSame
  <2> QED
    BY <2>2, <2>3, <2>4, <2>5 DEF Handlers
<1>3. CASE \A j \in Posts : HandlerOf(j) \notin {"insert", "publish"}
  BY <1>1, <1>2, <1>3, NothingSeen
<1>4. CASE \E j \in Posts : HandlerOf(j) \in {"insert", "publish"}
  <2>1. Audit!InFlight = {j \in Posts : HandlerOf(j) \in {"insert", "publish"}}
    BY DEF Audit!InFlight, AuditApi
  <2>2. AuditApi' = [j \in Posts |-> IF j \in Audit!InFlight THEN "gone" ELSE AuditApi[j]]
    BY <1>2, <2>1 DEF AuditApi
  <2>3. AuditRow' = AuditRow /\ AuditQueue' = AuditQueue
    BY <1>1 DEF AuditRow, AuditQueue
  <2>4. \A j \in Posts :
           CausesOf(j)' = IF HandlerOf(j) = "publish" THEN CausesOf(j) \cup {"enqueue"}
                          ELSE CausesOf(j)
    <3> SUFFICES ASSUME NEW j \in Posts
                 PROVE  CausesOf(j)' = IF HandlerOf(j) = "publish"
                                       THEN CausesOf(j) \cup {"enqueue"} ELSE CausesOf(j)
      OBVIOUS
    <3>1. HandlerOf(j) = "publish" => j \in rows \ queue
      <4>1. pc[j] \in Handlers(j) /\ reply[j] \in Replies /\ reply[j] # "publish"
        BY <1>1 DEF Inv, HandlersOK, TypeOK, Replies
      <4>2. HandlerOf(j) = "publish" => pc[j] \in {"publish", "delay"}
        BY <4>1, HandlerIs DEF Handlers
      <4> QED
        BY <4>2 DEF Inv, PostsOK, PostOK
    <3>2. HandlerOf(j) = "insert" => j \notin rows
      <4>1. pc[j] \in Handlers(j) /\ reply[j] \in Replies /\ reply[j] # "insert"
        BY <1>1 DEF Inv, HandlersOK, TypeOK, Replies
      <4>2. HandlerOf(j) = "insert" => pc[j] = "insert"
        BY <4>1, HandlerIs DEF Handlers
      <4> QED
        BY <4>2 DEF Inv, PostsOK, PostOK
    <3> QED
      BY <1>1, <1>2, <3>1, <3>2 DEF CausesOf
  <2>5. AuditCauses' = [j \in Posts |->
           IF AuditApi[j] = "publish" THEN AuditCauses[j] \cup {"enqueue"} ELSE AuditCauses[j]]
    <3>1. /\ AuditCauses = [j \in Posts |-> CausesOf(j)]
          /\ AuditCauses' = [j \in Posts |-> CausesOf(j)']
      BY DEF AuditCauses, CausesOf
    <3>2. \A j \in Posts : AuditApi[j] = HandlerOf(j)
      BY DEF AuditApi
    <3> QED
      BY <2>4, <3>1, <3>2
  <2>6. Audit!ApiCrash
    BY <1>4, <2>1, <2>2, <2>3, <2>5 DEF Audit!ApiCrash
  <2> QED
    BY <2>6 DEF Audit!Next
<1> QED
  BY <1>3, <1>4

LEMMA NextIsAudit ==
    ASSUME Inv, [Next]_vars
    PROVE  Audit!Next \/ UNCHANGED AuditVars
<1> USE DEF Requests
<1>1. ASSUME \A j \in Posts : pc'[j] = pc[j] /\ reply'[j] = reply[j], UNCHANGED <<rows, queue>>
      PROVE  UNCHANGED AuditVars
  BY <1>1, HandlerSame, NothingSeen
<1>2. CASE Boot \/ Connect \/ OpenClient \/ Stop \/ CloseRedis \/ Disconnect \/ Outage
  BY <1>1, <1>2 DEF Boot, Connect, OpenClient, Stop, CloseRedis, Disconnect, Outage, handlers, data
<1>3. CASE UNCHANGED vars
  BY <1>1, <1>3 DEF vars, handlers, data
<1>4. ASSUME NEW r \in Requests, Arrive(r) PROVE UNCHANGED AuditVars
  <2>1. /\ \A s \in Requests \ {r} : pc'[s] = pc[s] /\ UNCHANGED <<reply, rows, queue>>
        /\ pc[r] = "new" /\ (r \in Posts => pc'[r] = "limit") /\ reply' = reply
        /\ UNCHANGED <<rows, queue>>
    BY <1>4 DEF Arrive, Goto, data, Inv, TypeOK
  <2>2. r \in Posts => HandlerOf(r)' = HandlerOf(r)
    BY <2>1 DEF HandlerOf
  <2>3. \A s \in Posts \ {r} : HandlerOf(s)' = HandlerOf(s)
    BY <2>1, HandlerSame
  <2> QED
    BY <2>1, <2>2, <2>3, NothingSeen
<1>5. ASSUME NEW r \in Posts, StartDelay(r) PROVE UNCHANGED AuditVars
  <2>1. /\ pc[r] = "publish" /\ pc'[r] = "delay" /\ reply' = reply /\ UNCHANGED <<rows, queue>>
        /\ \A s \in Posts \ {r} : pc'[s] = pc[s]
    BY <1>5, GotoIs DEF StartDelay, data, Inv
  <2>2. HandlerOf(r)' = HandlerOf(r)
    BY <2>1 DEF HandlerOf
  <2>3. \A s \in Posts \ {r} : HandlerOf(s)' = HandlerOf(s)
    BY <2>1, HandlerSame
  <2> QED
    BY <2>1, <2>2, <2>3, NothingSeen
<1>6. ASSUME NEW r \in Requests, r \notin Posts, Handle(r) PROVE UNCHANGED AuditVars
  <2>1. HandlerStep(r) /\ pc[r] \in Handlers(r)
    BY <1>6, HandleIsStep DEF Inv, HandlersOK
  <2>2. \A s \in Posts : pc'[s] = pc[s] /\ reply'[s] = reply[s]
    BY <1>6, <2>1 DEF HandlerStep, Keeps
  <2>3. UNCHANGED <<rows, queue>>
    BY <1>6, <2>1 DEF Handle, Handlers, Limit, Check, NoPool, Create, CreateFails, StartDelay,
       EndDelay, Fetch, ReadyDatabase, ReadyRedis, data
  <2> QED
    BY <1>1, <2>2, <2>3
<1>7. ASSUME NEW r \in Posts, Handle(r) PROVE Audit!Next \/ UNCHANGED AuditVars
  <2>1. pc[r] \notin {"fetch", "ready_db", "ready_redis"}
    BY DEF Inv, HandlersOK, Handlers
  <2>2. ~Fetch(r) /\ ~ReadyDatabase(r) /\ ~ReadyRedis(r) /\ (NoPool(r) => pc[r] = "insert")
    BY <2>1 DEF Fetch, ReadyDatabase, ReadyRedis, NoPool
  <2> QED
    BY <1>5, <1>7, <2>2, LimitIsAudit, InsertIsAudit, PublishIsAudit DEF Handle
<1> QED
  BY <1>2, <1>3, <1>4, <1>6, <1>7, CrashIsAudit DEF Next

(* Whatever happens to its pool, its client and its boots, the process     *)
(* treats a POST as the handler of AuditJobs.                              *)
THEOREM ProcessImplementsAuditJobs == Spec => RefinesAuditJobs
<1>1. Init => Audit!Init
  <2> SUFFICES ASSUME Init PROVE Audit!Init
    OBVIOUS
  <2>1. \A j \in Posts : HandlerOf(j) = "new"
    BY DEF Init, HandlerOf, Requests
  <2>2. AuditApi = [j \in Posts |-> "new"] /\ AuditCauses = [j \in Posts |-> {}]
    BY <2>1 DEF AuditApi, AuditCauses, Init
  <2>3. AuditRow = [j \in Posts |-> Audit!NoRow] /\ AuditQueue = {}
    BY DEF AuditRow, AuditQueue, Audit!NoRow, Init
  <2> QED
    BY <2>2, <2>3 DEF Audit!Init
<1>2. Inv /\ [Next]_vars => [Audit!Next]_(Audit!vars)
  BY NextIsAudit DEF Audit!vars, AuditVars
<1> QED
  BY <1>1, <1>2, InvIsInvariant, PTL DEF Spec, RefinesAuditJobs, Audit!Spec
=============================================================================
