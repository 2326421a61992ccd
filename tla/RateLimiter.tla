----------------------------- MODULE RateLimiter -----------------------------
(***************************************************************************)
(* rate_limit_check of app/api/dependencies.py: a fixed-window counter per *)
(* client in Redis, driven by INCR, EXPIRE and TTL, each an await of its   *)
(* own, so the handlers of one client interleave between them.  Time is a  *)
(* tick of the window; a key that reaches the end of its TTL disappears.   *)
(***************************************************************************)
EXTENDS Naturals, FiniteSets

CONSTANTS
    Requests,      \* POST /api/v1/audit requests, each made once
    Clients,       \* client addresses
    SecretSet,     \* is API_PROXY_SHARED_SECRET configured?
    MaxRequests,   \* RATE_LIMIT_MAX_REQUESTS
    Window,        \* RATE_LIMIT_WINDOW_SECONDS, in ticks
    Faults,        \* the environment's failures that may happen
    NoClient       \* no address: the header is missing, or nothing is resolved yet

FaultKinds == {
    "redis_error",   \* a command raises; it may have been executed
    "api_crash" }    \* the API process dies with its in-flight handlers

\* config.py requires at least one request and a positive window.
ASSUME LimitsAssumption == MaxRequests \in Nat \ {0} /\ Window \in Nat \ {0}
ASSUME FaultsAssumption == Faults \subseteq FaultKinds
ASSUME SecretAssumption == SecretSet \in BOOLEAN
ASSUME NoClientAssumption == NoClient \notin Clients

VARIABLES
    pc,      \* pc[r]: where rate_limit_check is for request r
    client,  \* client[r]: the address r is charged to
    slot,    \* slot[r]: the count INCR returned to r, 0 before that
    key,     \* key[c]: the Redis key of c, its counter and its TTL
    age,     \* history: age[r], ticks since r was counted, at most Window
    live,    \* history: the requests counted in the present life of their key
    unsafe   \* history: the clients whose key was left without its EXPIRE

vars == <<pc, client, slot, key, age, live, unsafe>>

Forever == Window + 1       \* the TTL of a key that has none
NoKey   == [count |-> 0, ttl |-> 0]

-----------------------------------------------------------------------------

(***************************************************************************)
(* resolve_client_ip: with a secret configured, a caller that does not     *)
(* present it is refused (403, or 500 when compare_digest raises on what   *)
(* is not ASCII) and one that does may name the client; otherwise, and     *)
(* without that header, the network peer is the client.                    *)
(***************************************************************************)
Resolve(r) ==
    /\ pc[r] = "new"
    /\ \E authentic \in BOOLEAN, forwarded \in Clients \cup {NoClient}, peer \in Clients :
          IF SecretSet /\ ~authentic
          THEN /\ \E refusal \in {"forbidden", "error"} : pc' = [pc EXCEPT ![r] = refusal]
               /\ UNCHANGED client
          ELSE /\ pc' = [pc EXCEPT ![r] = "incr"]
               /\ client' = [client EXCEPT ![r] =
                     IF SecretSet /\ forwarded # NoClient THEN forwarded ELSE peer]
    /\ UNCHANGED <<slot, key, age, live, unsafe>>

\* Mutants of AfterIncr: the limit is off by one; EXPIRE waits for the limit; the
\* first request is taken to be the one with count 0.
AfterIncrLax(count) ==
    IF count = 1 THEN "expire" ELSE IF count > MaxRequests + 1 THEN "ttl" ELSE "admitted"
AfterIncrLate(count) ==
    IF count = MaxRequests THEN "expire" ELSE IF count > MaxRequests THEN "ttl" ELSE "admitted"
AfterIncrZero(count) ==
    IF count = 0 THEN "expire" ELSE IF count > MaxRequests THEN "ttl" ELSE "admitted"

\* What follows the reply to INCR: EXPIRE for the first request of a window,
\* TTL for one over the limit, otherwise the request is let through.
AfterIncr(count) ==
    IF count = 1 THEN "expire" ELSE IF count > MaxRequests THEN "ttl" ELSE "admitted"

Bumped(c) == [count |-> key[c].count + 1,
              ttl   |-> IF key[c].count = 0 THEN Forever ELSE key[c].ttl]

Incr(r) == LET c == client[r] IN
    /\ pc[r] = "incr"
    /\ key' = [key EXCEPT ![c] = Bumped(c)]
    /\ slot' = [slot EXCEPT ![r] = Bumped(c).count]
    /\ pc' = [pc EXCEPT ![r] = AfterIncr(Bumped(c).count)]
    /\ age' = [age EXCEPT ![r] = 0]
    /\ live' = live \cup {r}
    /\ UNCHANGED <<client, unsafe>>

\* Mutants of Expired: the seconds are given as milliseconds; the window is a
\* tick too short.
ExpiredShort(c)  == [key EXCEPT ![c].ttl = Window - 1]
ExpiredMillis(c) == [key EXCEPT ![c].ttl = Window * 1000]

Expired(c) == [key EXCEPT ![c].ttl = Window]

Expire(r) ==
    /\ pc[r] = "expire"
    /\ key' = Expired(client[r])
    /\ pc' = [pc EXCEPT ![r] = "admitted"]
    /\ UNCHANGED <<client, slot, age, live, unsafe>>

\* The 429 with its Retry-After: the TTL is read after the count.
Ttl(r) ==
    /\ pc[r] = "ttl"
    /\ pc' = [pc EXCEPT ![r] = "limited"]
    /\ UNCHANGED <<client, slot, key, age, live, unsafe>>

(***************************************************************************)
(* "Availability over precision": an exception of Redis lets the request   *)
(* through ("open").  The command may have been executed all the same: an  *)
(* INCR whose reply is lost, or an EXPIRE that never arrives, leaves a key *)
(* that nobody will expire.                                                *)
(***************************************************************************)
RedisError(r) == LET c == client[r] IN
    /\ "redis_error" \in Faults
    /\ pc[r] \in {"incr", "expire", "ttl"}
    /\ pc' = [pc EXCEPT ![r] = "open"]
    /\ \/ key' = key /\ unsafe' = IF pc[r] = "expire" THEN unsafe \cup {c} ELSE unsafe
       \/ /\ pc[r] = "incr"
          /\ key' = [key EXCEPT ![c] = Bumped(c)]
          /\ unsafe' = IF key[c].count = 0 THEN unsafe \cup {c} ELSE unsafe
       \/ pc[r] = "expire" /\ key' = Expired(c) /\ UNCHANGED unsafe
    /\ UNCHANGED <<client, slot, age, live>>

InFlight == {r \in Requests : pc[r] \in {"incr", "expire", "ttl"}}

ApiCrash ==
    /\ "api_crash" \in Faults
    /\ InFlight # {}
    /\ pc' = [r \in Requests |-> IF r \in InFlight THEN "gone" ELSE pc[r]]
    /\ unsafe' = unsafe \cup {client[r] : r \in {s \in Requests : pc[s] = "expire"}}
    /\ UNCHANGED <<client, slot, key, age, live>>

(* A key at the next tick: a TTL that runs out removes the key.            *)
Older(k) == IF k.count = 0 \/ k.ttl = Forever THEN k
            ELSE IF k.ttl = 1 THEN NoKey
            ELSE [k EXCEPT !.ttl = @ - 1]

Tick ==
    /\ key' = [c \in Clients |-> Older(key[c])]
    /\ age' = [r \in Requests |-> IF age[r] < Window THEN age[r] + 1 ELSE age[r]]
    /\ live' = {r \in live : Older(key[client[r]]) # NoKey}
    /\ UNCHANGED <<pc, client, slot, unsafe>>

-----------------------------------------------------------------------------

Init ==
    /\ pc = [r \in Requests |-> "new"]
    /\ client = [r \in Requests |-> NoClient]
    /\ slot = [r \in Requests |-> 0]
    /\ key = [c \in Clients |-> NoKey]
    /\ age = [r \in Requests |-> Window]
    /\ live = {}
    /\ unsafe = {}

Handle(r) == Incr(r) \/ Expire(r) \/ Ttl(r)

Next ==
    \/ \E r \in Requests : Resolve(r) \/ Handle(r) \/ RedisError(r)
    \/ ApiCrash
    \/ Tick

Spec == Init /\ [][Next]_vars

(* Time passes, and Redis answers or the client library gives up.          *)
Fairness == WF_vars(Tick) /\ \A r \in Requests : WF_vars(Handle(r) \/ RedisError(r))

FairSpec == Spec /\ Fairness

-----------------------------------------------------------------------------
(* Properties.                                                             *)

(* A key that is there has a tick left, or no TTL.                         *)
Keys == {k \in [count: Nat, ttl: 0 .. Forever] : k.count > 0 => k.ttl > 0}

TypeOK ==
    /\ pc \in [Requests -> {"new", "forbidden", "error", "incr", "expire", "ttl",
                            "admitted", "limited", "open", "gone"}]
    /\ client \in [Requests -> Clients \cup {NoClient}]
    /\ slot \in [Requests -> Nat]
    /\ key \in [Clients -> Keys]
    /\ age \in [Requests -> 0 .. Window]
    /\ live \subseteq Requests
    /\ unsafe \subseteq Clients

(* The requests of c that the limiter let through, the fail-open ones apart. *)
Passed(c) == {r \in Requests : client[r] = c /\ slot[r] > 0 /\ pc[r] \in {"expire", "admitted"}}

(***************************************************************************)
(* "Allow a bounded number of audit creations per client IP per window":   *)
(* in one life of the key at most MaxRequests pass, however the handlers   *)
(* interleave, whatever Redis loses and whenever the process dies.         *)
(***************************************************************************)
Quota == \A c \in Clients : Cardinality(Passed(c) \cap live) <= MaxRequests

(***************************************************************************)
(* The windows are fixed, not sliding: any Window ticks can see the quota  *)
(* of two windows, less the request that opened the first of them, and     *)
(* never more.                                                             *)
(***************************************************************************)
Burst == \A c \in Clients :
    Cardinality({r \in Passed(c) : age[r] < Window}) <= 2 * MaxRequests - 1

(***************************************************************************)
(* A key without a TTL has a handler about to give it one, unless a Redis  *)
(* error or a crash fell between INCR and EXPIRE.                          *)
(***************************************************************************)
KeyWillExpire == \A c \in Clients :
    key[c].ttl = Forever /\ c \notin unsafe =>
        \E r \in Requests : client[r] = c /\ pc[r] = "expire"

(***************************************************************************)
(* A client over the limit gets a new window in the end, unless its key    *)
(* was left without a TTL.                                                 *)
(***************************************************************************)
WindowCloses == \A c \in Clients :
    key[c].count > MaxRequests ~> (key[c] = NoKey \/ c \in unsafe)

(***************************************************************************)
(* dependencies.py:82: "if Redis is briefly unavailable the audit should   *)
(* still work rather than erroring out for every user": a client over the  *)
(* limit gets a new window in the end, whatever Redis did before.          *)
(***************************************************************************)
EveryWindowCloses == \A c \in Clients :
    key[c].count > MaxRequests ~> key[c] = NoKey
=============================================================================
