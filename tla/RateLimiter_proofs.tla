------------------------- MODULE RateLimiter_proofs -------------------------
(***************************************************************************)
(* Proofs about RateLimiter, for every set of requests and clients, every  *)
(* limit and window, and every choice of faults.                           *)
(***************************************************************************)
EXTENDS RateLimiter, FiniteSetTheorems, TLAPS

(* A request that talks to Redis is charged to a client.                   *)
ClientOK == \A r \in Requests : pc[r] \in {"incr", "expire", "ttl"} => client[r] \in Clients

(* Until INCR replies, a request has no slot.                              *)
SlotOK == \A r \in Requests :
    /\ pc[r] \in {"new", "forbidden", "error", "incr"} => slot[r] = 0
    /\ slot[r] > 0 /\ pc[r] \in {"expire", "admitted"} => slot[r] <= MaxRequests

(* The counted requests of one life of a key hold different slots of it.   *)
LiveOK ==
    /\ \A r \in live : /\ client[r] \in Clients
                       /\ slot[r] \in 1 .. key[client[r]].count
    /\ \A r, s \in live : client[r] = client[s] /\ slot[r] = slot[s] => r = s

Inv == TypeOK /\ ClientOK /\ SlotOK /\ LiveOK /\ KeyWillExpire

USE LimitsAssumption

LEMMA KeyTypes ==
    /\ NoKey \in Keys
    /\ \A k \in Keys : Older(k) \in Keys
    /\ \A k \in Keys : Older(k).count = k.count \/ Older(k) = NoKey
    /\ \A k \in Keys : Older(k).ttl = Forever => k.ttl = Forever
<1>1. NoKey \in Keys
  BY DEF NoKey, Keys, Forever
<1>2. ASSUME NEW k \in Keys
      PROVE  /\ Older(k) \in Keys
             /\ Older(k).count = k.count \/ Older(k) = NoKey
             /\ Older(k).ttl = Forever => k.ttl = Forever
  <2>1. k.count \in Nat /\ k.ttl \in 0 .. Forever
    BY DEF Keys
  <2>2. CASE k.count = 0 \/ k.ttl = Forever
    BY <2>2 DEF Older
  <2>3. CASE k.count # 0 /\ k.ttl = 1 /\ k.ttl # Forever
    <3>1. Older(k) = NoKey
      BY <2>3 DEF Older
    <3> QED
      BY <1>1, <3>1 DEF NoKey, Forever
  <2>4. CASE k.count # 0 /\ k.ttl # Forever /\ k.ttl # 1
    <3>1. Older(k) = [k EXCEPT !.ttl = @ - 1]
      BY <2>4 DEF Older
    <3> QED
      BY <2>1, <2>4, <3>1 DEF Keys, Forever
  <2> QED
    BY <2>2, <2>3, <2>4
<1> QED
  BY <1>1, <1>2

(* A new count, with the TTL the key has, or with none.                    *)
LEMMA BumpedType ==
    ASSUME TypeOK, NEW c \in Clients
    PROVE  /\ Bumped(c) \in Keys
           /\ Bumped(c).count = key[c].count + 1
           /\ key[c].count \in Nat
           /\ Bumped(c).ttl = Forever => key[c].count = 0 \/ key[c].ttl = Forever
<1>1. key[c].count \in Nat /\ key[c].ttl \in 0 .. Forever
      /\ (key[c].count > 0 => key[c].ttl > 0)
  BY DEF TypeOK, Keys
<1> QED
  BY <1>1 DEF Bumped, Keys, Forever

LEMMA InvInit == Init => Inv
<1> SUFFICES ASSUME Init PROVE Inv
  OBVIOUS
<1>1. TypeOK
  BY KeyTypes DEF Init, TypeOK
<1>2. ClientOK /\ SlotOK /\ LiveOK
  BY DEF Init, ClientOK, SlotOK, LiveOK
<1>3. KeyWillExpire
  BY DEF Init, KeyWillExpire, NoKey, Forever
<1> QED
  BY <1>1, <1>2, <1>3 DEF Inv

(* An INCR that is executed, with or without its reply, bumps one key.     *)
LEMMA InvIncr == ASSUME Inv, NEW r \in Requests, Incr(r) PROVE Inv'
<1> DEFINE c == client[r]
<1>0. /\ c \in Clients /\ slot[r] = 0 /\ pc[r] = "incr" /\ TypeOK
      /\ key' = [key EXCEPT ![c] = Bumped(c)]
      /\ slot' = [slot EXCEPT ![r] = Bumped(c).count]
      /\ pc' = [pc EXCEPT ![r] = AfterIncr(Bumped(c).count)]
      /\ age' = [age EXCEPT ![r] = 0] /\ live' = live \cup {r}
      /\ UNCHANGED <<client, unsafe>>
  BY DEF Inv, ClientOK, SlotOK, Incr
<1>1. /\ Bumped(c) \in Keys /\ Bumped(c).count = key[c].count + 1
      /\ key[c].count \in Nat
      /\ Bumped(c).ttl = Forever => key[c].count = 0 \/ key[c].ttl = Forever
  BY <1>0, BumpedType
<1>2. /\ AfterIncr(Bumped(c).count) \in {"expire", "ttl", "admitted"}
      /\ AfterIncr(Bumped(c).count) # "ttl" => Bumped(c).count <= MaxRequests
      /\ key[c].count = 0 => AfterIncr(Bumped(c).count) = "expire"
  BY <1>1 DEF AfterIncr
<1>3. TypeOK'
  BY <1>0, <1>1, <1>2 DEF TypeOK
<1>4. ClientOK' /\ SlotOK'
  BY <1>0, <1>1, <1>2 DEF TypeOK, Inv, ClientOK, SlotOK
<1>5. LiveOK'
  <2>1. \A s \in live : client[s] = c => slot[s] # key[c].count + 1
    BY <1>1 DEF Inv, LiveOK
  <2>2. r \notin live
    BY <1>0 DEF Inv, LiveOK
  <2>3. slot'[r] = key[c].count + 1 /\ \A s \in live : slot'[s] = slot[s]
    BY <1>0, <1>1, <2>2 DEF TypeOK
  <2>4. /\ key'[c].count = key[c].count + 1
        /\ \A d \in Clients \ {c} : key'[d] = key[d]
    BY <1>0, <1>1 DEF TypeOK
  <2>5. \A s \in live' : client'[s] \in Clients /\ slot'[s] \in 1 .. key'[client'[s]].count
    BY <1>0, <1>1, <2>3, <2>4 DEF Inv, LiveOK
  <2>6. \A s, t \in live' : client'[s] = client'[t] /\ slot'[s] = slot'[t] => s = t
    BY <1>0, <2>1, <2>3 DEF Inv, LiveOK
  <2> QED
    BY <2>5, <2>6 DEF LiveOK
<1>6. KeyWillExpire'
  <2> SUFFICES ASSUME NEW d \in Clients, key'[d].ttl = Forever, d \notin unsafe
               PROVE  \E s \in Requests : client[s] = d /\ pc'[s] = "expire"
    BY <1>0 DEF KeyWillExpire
  <2>1. CASE d = c /\ key[c].count = 0
    BY <1>0, <1>2, <2>1 DEF TypeOK
  <2>2. CASE ~(d = c /\ key[c].count = 0)
    <3>1. key[d].ttl = Forever
      BY <1>0, <1>1, <2>2 DEF TypeOK
    <3>2. PICK s \in Requests : client[s] = d /\ pc[s] = "expire"
      BY <3>1 DEF Inv, KeyWillExpire
    <3> QED
      BY <1>0, <3>2 DEF TypeOK
  <2> QED
    BY <2>1, <2>2
<1> QED
  BY <1>3, <1>4, <1>5, <1>6 DEF Inv

(* EXPIRE gives the key the whole window.                                  *)
LEMMA ExpiredKeys ==
    ASSUME TypeOK, NEW c \in Clients, key' = Expired(c)
    PROVE  /\ key' \in [Clients -> Keys]
           /\ \A d \in Clients : key'[d].count = key[d].count
           /\ \A d \in Clients : key'[d].ttl = Forever => d # c /\ key[d].ttl = Forever
<1>1. key[c] \in Keys /\ key \in [Clients -> Keys]
  BY DEF TypeOK
<1>2. key' = [key EXCEPT ![c] = [key[c] EXCEPT !.ttl = Window]]
  BY DEF Expired
<1>3. [key[c] EXCEPT !.ttl = Window] \in Keys
  BY <1>1 DEF Keys, Forever
<1>4. [key[c] EXCEPT !.ttl = Window].ttl = Window
      /\ [key[c] EXCEPT !.ttl = Window].count = key[c].count
  BY <1>1 DEF Keys
<1>5. Window # Forever
  BY DEF Forever
<1> QED
  BY <1>1, <1>2, <1>3, <1>4, <1>5

LEMMA InvExpire == ASSUME Inv, NEW r \in Requests, Expire(r) PROVE Inv'
<1>0. client[r] \in Clients /\ TypeOK
  BY DEF Inv, ClientOK, Expire
<1>1. /\ key' \in [Clients -> Keys]
      /\ \A d \in Clients : key'[d].count = key[d].count
      /\ \A d \in Clients : key'[d].ttl = Forever => d # client[r] /\ key[d].ttl = Forever
  BY <1>0, ExpiredKeys DEF Expire
<1>2. TypeOK'
  BY <1>0, <1>1 DEF TypeOK, Expire
<1>3. ClientOK' /\ SlotOK'
  BY <1>0 DEF TypeOK, Inv, ClientOK, SlotOK, Expire
<1>4. LiveOK'
  BY <1>1 DEF Inv, LiveOK, Expire
<1>5. KeyWillExpire'
  <2> SUFFICES ASSUME NEW d \in Clients, key'[d].ttl = Forever, d \notin unsafe
               PROVE  \E s \in Requests : client[s] = d /\ pc'[s] = "expire"
    BY DEF KeyWillExpire, Expire
  <2>1. PICK s \in Requests : client[s] = d /\ pc[s] = "expire"
    BY <1>1 DEF Inv, KeyWillExpire
  <2> QED
    BY <1>0, <1>1, <2>1 DEF TypeOK, Expire
<1> QED
  BY <1>2, <1>3, <1>4, <1>5 DEF Inv

(* The steps that leave Redis alone and end no EXPIRE.                     *)
LEMMA InvResolve == ASSUME Inv, NEW r \in Requests, Resolve(r) PROVE Inv'
<1>0. /\ pc[r] = "new" /\ TypeOK
      /\ UNCHANGED <<slot, key, age, live, unsafe>>
  BY DEF Resolve, Inv
<1>1. /\ pc' \in [Requests -> {"new", "forbidden", "error", "incr", "expire", "ttl",
                               "admitted", "limited", "open", "gone"}]
      /\ client' \in [Requests -> Clients \cup {NoClient}]
      /\ pc'[r] \in {"forbidden", "error", "incr"}
      /\ pc'[r] = "incr" => client'[r] \in Clients
      /\ \A s \in Requests \ {r} : pc'[s] = pc[s] /\ client'[s] = client[s]
  BY <1>0 DEF TypeOK, Resolve
<1>2. slot[r] = 0 /\ r \notin live
  BY <1>0 DEF Inv, SlotOK, LiveOK
<1>3. TypeOK'
  BY <1>0, <1>1 DEF TypeOK
<1>4. ClientOK' /\ SlotOK'
  BY <1>0, <1>1, <1>2 DEF Inv, ClientOK, SlotOK
<1>5. LiveOK'
  <2>1. \A s \in live : client'[s] = client[s]
    BY <1>0, <1>1, <1>2 DEF TypeOK
  <2> QED
    BY <1>0, <2>1 DEF Inv, LiveOK
<1>6. KeyWillExpire'
  <2> SUFFICES ASSUME NEW d \in Clients, key[d].ttl = Forever, d \notin unsafe
               PROVE  \E s \in Requests : client'[s] = d /\ pc'[s] = "expire"
    BY <1>0 DEF KeyWillExpire
  <2>1. PICK s \in Requests : client[s] = d /\ pc[s] = "expire"
    BY DEF Inv, KeyWillExpire
  <2>2. s # r
    BY <1>0, <2>1
  <2> QED
    BY <1>1, <2>1, <2>2
<1> QED
  BY <1>3, <1>4, <1>5, <1>6 DEF Inv

LEMMA InvTtl == ASSUME Inv, NEW r \in Requests, Ttl(r) PROVE Inv'
<1>1. TypeOK' /\ ClientOK' /\ SlotOK' /\ LiveOK'
  BY DEF Inv, Ttl, TypeOK, ClientOK, SlotOK, LiveOK
<1>2. KeyWillExpire'
  <2> SUFFICES ASSUME NEW d \in Clients, key[d].ttl = Forever, d \notin unsafe
               PROVE  \E s \in Requests : client[s] = d /\ pc'[s] = "expire"
    BY DEF KeyWillExpire, Ttl
  <2>1. PICK s \in Requests : client[s] = d /\ pc[s] = "expire"
    BY DEF Inv, KeyWillExpire
  <2> QED
    BY <2>1 DEF Inv, TypeOK, Ttl
<1> QED
  BY <1>1, <1>2 DEF Inv

(* A Redis error, whether the command was executed or not.                 *)
LEMMA InvRedisError == ASSUME Inv, NEW r \in Requests, RedisError(r) PROVE Inv'
<1> DEFINE c == client[r]
<1>0. /\ c \in Clients /\ pc[r] \in {"incr", "expire", "ttl"} /\ TypeOK
      /\ pc' = [pc EXCEPT ![r] = "open"]
      /\ UNCHANGED <<client, slot, age, live>>
  BY DEF Inv, ClientOK, RedisError
<1>1. /\ key' \in [Clients -> Keys]
      /\ unsafe' \subseteq Clients /\ unsafe \subseteq unsafe'
      /\ \A d \in Clients : key'[d].count >= key[d].count
      /\ \A d \in Clients : key'[d].ttl = Forever /\ d \notin unsafe' =>
            /\ key[d].ttl = Forever
            /\ d = c => pc[r] # "expire"
  <2>0. /\ key \in [Clients -> Keys] /\ unsafe \subseteq Clients
        /\ \A d \in Clients : key[d].count \in Nat
    BY <1>0 DEF TypeOK, Keys
  <2>1. CASE key' = key /\ unsafe' = IF pc[r] = "expire" THEN unsafe \cup {c} ELSE unsafe
    BY <1>0, <2>0, <2>1
  <2>2. CASE /\ pc[r] = "incr"
             /\ key' = [key EXCEPT ![c] = Bumped(c)]
             /\ unsafe' = IF key[c].count = 0 THEN unsafe \cup {c} ELSE unsafe
    <3>1. /\ Bumped(c) \in Keys
          /\ Bumped(c).count = key[c].count + 1
          /\ Bumped(c).ttl = Forever => key[c].count = 0 \/ key[c].ttl = Forever
      BY <1>0, BumpedType
    <3> QED
      BY <1>0, <2>0, <2>2, <3>1
  <2>3. CASE pc[r] = "expire" /\ key' = Expired(c) /\ UNCHANGED unsafe
    <3>1. /\ key' \in [Clients -> Keys]
          /\ \A d \in Clients : key'[d].count = key[d].count
          /\ \A d \in Clients : key'[d].ttl = Forever => d # c /\ key[d].ttl = Forever
      BY <1>0, <2>3, ExpiredKeys
    <3> QED
      BY <2>0, <2>3, <3>1
  <2> QED
    BY <2>1, <2>2, <2>3 DEF RedisError
<1>2. TypeOK'
  BY <1>0, <1>1 DEF TypeOK
<1>3. ClientOK' /\ SlotOK'
  BY <1>0 DEF TypeOK, Inv, ClientOK, SlotOK
<1>4. LiveOK'
  <2>1. ASSUME NEW s \in live
        PROVE  client[s] \in Clients /\ slot[s] \in 1 .. key'[client[s]].count
    <3>1. client[s] \in Clients /\ slot[s] \in 1 .. key[client[s]].count
      BY DEF Inv, LiveOK
    <3>2. key[client[s]].count \in Nat /\ key'[client[s]].count \in Nat
          /\ key'[client[s]].count >= key[client[s]].count
      BY <1>0, <1>1, <3>1 DEF TypeOK, Keys
    <3> QED
      BY <3>1, <3>2
  <2> QED
    BY <1>0, <2>1 DEF Inv, LiveOK
<1>5. KeyWillExpire'
  <2> SUFFICES ASSUME NEW d \in Clients, key'[d].ttl = Forever, d \notin unsafe'
               PROVE  \E s \in Requests : client[s] = d /\ pc'[s] = "expire"
    BY <1>0 DEF KeyWillExpire
  <2>1. PICK s \in Requests : client[s] = d /\ pc[s] = "expire"
    BY <1>1 DEF Inv, KeyWillExpire
  <2>2. s # r
    BY <1>1, <2>1
  <2> QED
    BY <1>0, <2>1, <2>2 DEF TypeOK
<1> QED
  BY <1>2, <1>3, <1>4, <1>5 DEF Inv

LEMMA InvCrash == ASSUME Inv, ApiCrash PROVE Inv'
<1>0. /\ TypeOK /\ pc' = [r \in Requests |-> IF r \in InFlight THEN "gone" ELSE pc[r]]
      /\ unsafe' = unsafe \cup {client[r] : r \in {s \in Requests : pc[s] = "expire"}}
      /\ UNCHANGED <<client, slot, key, age, live>>
  BY DEF Inv, ApiCrash
<1>1. TypeOK'
  BY <1>0 DEF Inv, ClientOK, TypeOK
<1>2. ClientOK' /\ SlotOK'
  BY <1>0 DEF Inv, ClientOK, SlotOK, TypeOK
<1>3. LiveOK'
  BY <1>0 DEF Inv, LiveOK
<1>4. KeyWillExpire'
  BY <1>0 DEF Inv, KeyWillExpire
<1> QED
  BY <1>1, <1>2, <1>3, <1>4 DEF Inv

(* A tick: what a key counted is forgotten with the key.                   *)
LEMMA InvTick == ASSUME Inv, Tick PROVE Inv'
<1>0. /\ TypeOK /\ key' = [c \in Clients |-> Older(key[c])]
      /\ live' = {r \in live : Older(key[client[r]]) # NoKey}
      /\ UNCHANGED <<pc, client, slot, unsafe>>
  BY DEF Inv, Tick
<1>1. TypeOK'
  <2>1. key' \in [Clients -> Keys]
    BY <1>0, KeyTypes DEF TypeOK
  <2>2. age' \in [Requests -> 0 .. Window]
    BY DEF Tick, Inv, TypeOK
  <2> QED
    BY <1>0, <2>1, <2>2 DEF TypeOK
<1>2. ClientOK' /\ SlotOK'
  BY <1>0 DEF Inv, ClientOK, SlotOK
<1>3. LiveOK'
  <2>1. ASSUME NEW r \in live'
        PROVE  client[r] \in Clients /\ slot[r] \in 1 .. key'[client[r]].count
    <3>1. /\ client[r] \in Clients /\ slot[r] \in 1 .. key[client[r]].count
          /\ Older(key[client[r]]) # NoKey
      BY <1>0, <2>1 DEF Inv, LiveOK
    <3>2. key'[client[r]].count = key[client[r]].count
      BY <1>0, <3>1, KeyTypes DEF TypeOK
    <3> QED
      BY <3>1, <3>2
  <2> QED
    BY <1>0, <2>1 DEF Inv, LiveOK
<1>4. KeyWillExpire'
  <2>1. \A d \in Clients : key'[d].ttl = Forever => key[d].ttl = Forever
    BY <1>0, KeyTypes DEF TypeOK
  <2> QED
    BY <1>0, <2>1 DEF Inv, KeyWillExpire
<1> QED
  BY <1>1, <1>2, <1>3, <1>4 DEF Inv

-----------------------------------------------------------------------------
(* The theorems.                                                           *)

THEOREM InvIsInvariant == Spec => []Inv
<1>1. Inv /\ [Next]_vars => Inv'
  <2>1. Inv /\ UNCHANGED vars => Inv'
    BY DEF Inv, vars, TypeOK, ClientOK, SlotOK, LiveOK, KeyWillExpire
  <2> QED
    BY <2>1, InvIncr, InvExpire, InvResolve, InvTtl, InvRedisError, InvCrash, InvTick
       DEF Next, Handle
<1> QED
  BY <1>1, InvInit, PTL DEF Spec

(* Type correctness of the handlers and the keys.                          *)
THEOREM TypeCorrect == Spec => []TypeOK
<1>1. Inv => TypeOK
  BY DEF Inv
<1> QED
  BY <1>1, InvIsInvariant, PTL

(* At most MaxRequests pass in one life of a key, for any number of        *)
(* requests in any order: they hold different slots between 1 and the      *)
(* limit.                                                                  *)
THEOREM QuotaHolds == Spec => []Quota
<1>1. Inv => Quota
  <2> SUFFICES ASSUME Inv, NEW c \in Clients
               PROVE  Cardinality(Passed(c) \cap live) <= MaxRequests
    BY DEF Quota
  <2> DEFINE S == Passed(c) \cap live
             f == [r \in S |-> slot[r]]
  <2>1. \A r \in S : slot[r] \in 1 .. MaxRequests /\ client[r] = c
    BY DEF Inv, TypeOK, SlotOK, Passed
  <2>2. \A r, s \in S : slot[r] = slot[s] => r = s
    BY <2>1 DEF Inv, LiveOK
  <2>3. f \in Injection(S, 1 .. MaxRequests)
    BY <2>1, <2>2 DEF Injection, IsInjective
  <2>4. IsFiniteSet(1 .. MaxRequests) /\ Cardinality(1 .. MaxRequests) = MaxRequests
    BY FS_Interval
  <2> QED
    BY <2>3, <2>4, FS_Injection
<1> QED
  BY <1>1, InvIsInvariant, PTL

(* Only a Redis error or a crash leaves a key that will not expire.        *)
THEOREM KeysExpire == Spec => []KeyWillExpire
<1>1. Inv => KeyWillExpire
  BY DEF Inv
<1> QED
  BY <1>1, InvIsInvariant, PTL

-----------------------------------------------------------------------------
(* Two windows.  The EXPIRE of a key comes after the request that opened   *)
(* it and after every request of an earlier life, and the key dies Window  *)
(* ticks later: what is younger than that when it dies belongs to this     *)
(* life, and is not its first.                                             *)

Counted(r) == slot[r] > 0

ExpireOK == \A r \in Requests : pc[r] = "expire" =>
    r \in live /\ slot[r] = 1 /\ key[client[r]].ttl = Forever

(* A TTL is at least the time that is left of the window of a request that *)
(* opened the key, or that an earlier life of it counted.                  *)
AgeOK == \A r \in Requests : Counted(r) =>
    /\ client[r] \in Clients
    /\ key[client[r]].count > 0 /\ key[client[r]].ttl # Forever /\ (r \notin live \/ slot[r] = 1)
          => age[r] + key[client[r]].ttl >= Window

(* The young requests of former lives are of one life, without its first.  *)
Former(r) == Counted(r) /\ r \notin live /\ age[r] < Window
FormerOK ==
    /\ \A r \in Requests : Former(r) => slot[r] # 1
    /\ \A r, s \in Requests :
          Former(r) /\ Former(s) /\ client[r] = client[s] /\ slot[r] = slot[s] => r = s

BurstInv == ExpireOK /\ AgeOK /\ FormerOK

LEMMA BurstInit == Init => BurstInv
BY DEF Init, BurstInv, ExpireOK, AgeOK, FormerOK, Counted, Former

(* Steps that count nothing and leave every key and every age alone, and    *)
(* bring no handler to its EXPIRE.                                          *)
LEMMA BurstQuiet ==
    ASSUME Inv, BurstInv, UNCHANGED <<slot, key, age, live>>,
           \A r \in Requests : pc'[r] = "expire" => pc[r] = "expire",
           \A r \in Requests : pc[r] # "new" => client'[r] = client[r]
    PROVE  BurstInv'
<1>1. \A r \in Requests : Counted(r) => client'[r] = client[r]
  BY DEF Inv, SlotOK, Counted
<1>2. ExpireOK'
  BY DEF BurstInv, ExpireOK
<1>3. AgeOK' /\ FormerOK'
  BY <1>1 DEF BurstInv, AgeOK, FormerOK, Counted, Former
<1> QED
  BY <1>2, <1>3 DEF BurstInv

(* A counter that is bumped keeps the TTL of its life, or opens a life.     *)
LEMMA BurstBump ==
    ASSUME Inv, BurstInv, NEW c \in Clients, key' = [key EXCEPT ![c] = Bumped(c)]
    PROVE  /\ \A d \in Clients : key[d].count > 0 =>
                 key'[d].ttl = key[d].ttl /\ key'[d].count > 0
           /\ \A d \in Clients : key'[d].count > 0 /\ key'[d].ttl # Forever =>
                 key[d].count > 0 /\ key'[d].ttl = key[d].ttl
           /\ key[c].count = 0 => key'[c].ttl = Forever
<1>1. /\ key \in [Clients -> Keys]
      /\ \A d \in Clients : key[d].count \in Nat
  BY DEF Inv, TypeOK, Keys
<1>2. /\ Bumped(c).count = key[c].count + 1
      /\ Bumped(c).ttl = IF key[c].count = 0 THEN Forever ELSE key[c].ttl
  BY DEF Bumped
<1> QED
  BY <1>1, <1>2

LEMMA BurstIncr == ASSUME Inv, BurstInv, NEW r \in Requests, Incr(r) PROVE BurstInv'
<1> DEFINE c == client[r]
<1>0. /\ c \in Clients /\ slot[r] = 0 /\ pc[r] = "incr" /\ TypeOK
      /\ key' = [key EXCEPT ![c] = Bumped(c)]
      /\ slot' = [slot EXCEPT ![r] = Bumped(c).count]
      /\ pc' = [pc EXCEPT ![r] = AfterIncr(Bumped(c).count)]
      /\ age' = [age EXCEPT ![r] = 0] /\ live' = live \cup {r}
      /\ UNCHANGED client
  BY DEF Inv, ClientOK, SlotOK, Incr
<1>1. /\ \A d \in Clients : key[d].count > 0 => key'[d].ttl = key[d].ttl /\ key'[d].count > 0
      /\ \A d \in Clients : key'[d].count > 0 /\ key'[d].ttl # Forever =>
            key[d].count > 0 /\ key'[d].ttl = key[d].ttl
      /\ key[c].count = 0 => key'[c].ttl = Forever
  BY <1>0, BurstBump
<1>2. /\ key[c].count \in Nat /\ slot'[r] = key[c].count + 1
      /\ \A s \in Requests \ {r} : slot'[s] = slot[s] /\ pc'[s] = pc[s] /\ age'[s] = age[s]
      /\ pc'[r] = "expire" => key[c].count = 0
  <2>1. key[c].count \in Nat /\ Bumped(c).count = key[c].count + 1
    BY <1>0, BumpedType
  <2>2. AfterIncr(Bumped(c).count) = "expire" => key[c].count = 0
    BY <2>1 DEF AfterIncr
  <2> QED
    BY <1>0, <2>1, <2>2 DEF TypeOK
<1>3. \A s \in live : client[s] \in Clients /\ key[client[s]].count > 0
  BY DEF Inv, LiveOK, TypeOK, Keys
<1>4. ExpireOK'
  <2>1. ASSUME NEW s \in Requests, pc'[s] = "expire", s # r
        PROVE  s \in live' /\ slot'[s] = 1 /\ key'[client'[s]].ttl = Forever
    BY <1>0, <1>1, <1>2, <1>3, <2>1 DEF BurstInv, ExpireOK
  <2>2. pc'[r] = "expire" => r \in live' /\ slot'[r] = 1 /\ key'[client'[r]].ttl = Forever
    BY <1>0, <1>1, <1>2
  <2> QED
    BY <2>1, <2>2 DEF ExpireOK
<1>5. AgeOK'
  <2> SUFFICES ASSUME NEW s \in Requests, slot'[s] > 0
               PROVE  /\ client[s] \in Clients
                      /\ key'[client[s]].count > 0 /\ key'[client[s]].ttl # Forever
                         /\ (s \notin live' \/ slot'[s] = 1)
                            => age'[s] + key'[client[s]].ttl >= Window
    BY <1>0 DEF AgeOK, Counted
  <2>1. CASE s = r
    BY <1>0, <1>1, <1>2, <2>1
  <2>2. CASE s # r
    BY <1>0, <1>1, <1>2, <2>2 DEF BurstInv, AgeOK, Counted
  <2> QED
    BY <2>1, <2>2
<1>6. FormerOK'
  <2>1. \A s \in Requests : Former(s)' => Former(s) /\ slot'[s] = slot[s]
    BY <1>0, <1>2 DEF Former, Counted
  <2> QED
    BY <1>0, <2>1 DEF BurstInv, FormerOK
<1> QED
  BY <1>4, <1>5, <1>6 DEF BurstInv

(* An EXPIRE that is executed, with or without its reply.                   *)
LEMMA BurstExpire ==
    ASSUME Inv, BurstInv, NEW r \in Requests, pc[r] = "expire", key' = Expired(client[r]),
           UNCHANGED <<client, slot, age, live>>, NEW p \in {"admitted", "open"},
           pc' = [pc EXCEPT ![r] = p]
    PROVE  BurstInv'
<1> DEFINE c == client[r]
<1>1. /\ c \in Clients /\ key \in [Clients -> Keys]
      /\ age \in [Requests -> 0 .. Window]
      /\ \A s \in Requests : pc'[s] = "expire" => s # r /\ pc[s] = "expire"
  BY DEF Inv, TypeOK, ClientOK
<1>2. /\ key' = [key EXCEPT ![c] = [key[c] EXCEPT !.ttl = Window]]
      /\ [key[c] EXCEPT !.ttl = Window].ttl = Window
      /\ key[c].count = [key[c] EXCEPT !.ttl = Window].count
  BY <1>1 DEF Expired, Keys
<1>3. /\ key'[c].ttl = Window
      /\ \A d \in Clients : key'[d].count = key[d].count
      /\ \A d \in Clients \ {c} : key'[d].ttl = key[d].ttl
  BY <1>1, <1>2
<1>4. ExpireOK'
  <2> SUFFICES ASSUME NEW s \in Requests, pc'[s] = "expire"
               PROVE  s \in live /\ slot[s] = 1 /\ key'[client[s]].ttl = Forever
    BY DEF ExpireOK
  <2>1. s # r /\ pc[s] = "expire"
    BY <1>1
  <2>2. s \in live /\ slot[s] = 1 /\ r \in live /\ slot[r] = 1 /\ key[client[s]].ttl = Forever
    BY <2>1 DEF BurstInv, ExpireOK
  <2>3. client[s] # c /\ client[s] \in Clients
    BY <2>1, <2>2 DEF Inv, LiveOK
  <2> QED
    BY <1>3, <2>2, <2>3
<1>5. AgeOK'
  <2> SUFFICES ASSUME NEW s \in Requests, slot[s] > 0
               PROVE  /\ client[s] \in Clients
                      /\ key'[client[s]].count > 0 /\ key'[client[s]].ttl # Forever
                         /\ (s \notin live \/ slot[s] = 1)
                            => age[s] + key'[client[s]].ttl >= Window
    BY DEF AgeOK, Counted
  <2>1. CASE client[s] = c
    BY <1>1, <1>3, <2>1
  <2>2. CASE client[s] # c
    BY <1>3, <2>2 DEF BurstInv, AgeOK, Counted
  <2> QED
    BY <2>1, <2>2
<1>6. FormerOK'
  BY DEF BurstInv, FormerOK, Former, Counted
<1> QED
  BY <1>4, <1>5, <1>6 DEF BurstInv

LEMMA BurstRedisError == ASSUME Inv, BurstInv, NEW r \in Requests, RedisError(r) PROVE BurstInv'
<1> DEFINE c == client[r]
<1>0. /\ c \in Clients /\ TypeOK
      /\ pc[r] \in {"incr", "expire", "ttl"} /\ pc' = [pc EXCEPT ![r] = "open"]
      /\ UNCHANGED <<client, slot, age, live>>
  BY DEF Inv, ClientOK, RedisError
<1>1. \A s \in Requests : pc'[s] = "expire" => pc[s] = "expire"
  BY <1>0 DEF TypeOK
<1>2. CASE key' = key
  BY <1>0, <1>1, <1>2, BurstQuiet
<1>3. CASE key' = [key EXCEPT ![c] = Bumped(c)]
  <2>1. /\ \A d \in Clients : key[d].count > 0 => key'[d].ttl = key[d].ttl /\ key'[d].count > 0
        /\ \A d \in Clients : key'[d].count > 0 /\ key'[d].ttl # Forever =>
              key[d].count > 0 /\ key'[d].ttl = key[d].ttl
    BY <1>0, <1>3, BurstBump
  <2>2. \A s \in live : client[s] \in Clients /\ key[client[s]].count > 0
    BY DEF Inv, LiveOK, TypeOK, Keys
  <2>3. ExpireOK'
    BY <1>0, <1>1, <2>1, <2>2 DEF BurstInv, ExpireOK
  <2>4. AgeOK'
    BY <1>0, <2>1 DEF BurstInv, AgeOK, Counted
  <2>5. FormerOK'
    BY <1>0 DEF BurstInv, FormerOK, Former, Counted
  <2> QED
    BY <2>3, <2>4, <2>5 DEF BurstInv
<1>4. CASE pc[r] = "expire" /\ key' = Expired(c)
  BY <1>0, <1>4, BurstExpire
<1> QED
  BY <1>2, <1>3, <1>4 DEF RedisError

(* A tick: a key that dies has aged every request but its later ones.       *)
LEMMA BurstTick == ASSUME Inv, BurstInv, Tick PROVE BurstInv'
<1>0. /\ TypeOK /\ key' = [c \in Clients |-> Older(key[c])]
      /\ age' = [r \in Requests |-> IF age[r] < Window THEN age[r] + 1 ELSE age[r]]
      /\ live' = {r \in live : Older(key[client[r]]) # NoKey}
      /\ UNCHANGED <<pc, client, slot>>
  BY DEF Inv, Tick
<1>1. \A d \in Clients : key[d].count \in Nat /\ key[d].ttl \in 0 .. Forever
                         /\ (key[d].count > 0 => key[d].ttl > 0)
  BY <1>0 DEF TypeOK, Keys
<1>2. \A r \in Requests : age[r] \in 0 .. Window
  BY <1>0 DEF TypeOK
<1>3. ASSUME NEW d \in Clients
      PROVE  /\ key[d].count > 0 /\ key[d].ttl = Forever => Older(key[d]) = key[d]
             /\ Older(key[d]) = NoKey /\ key[d].count > 0 => key[d].ttl = 1 /\ key[d].ttl # Forever
             /\ Older(key[d]).count > 0 => key[d].count > 0
             /\ Older(key[d]).count > 0 /\ Older(key[d]).ttl # Forever =>
                   /\ key[d].count > 0 /\ key[d].ttl # Forever
                   /\ Older(key[d]).ttl = key[d].ttl - 1
  <2> DEFINE k == key[d]
  <2>1. NoKey.count = 0 /\ k \in Keys
    BY <1>0 DEF NoKey, TypeOK
  <2>2. CASE k.count = 0 \/ k.ttl = Forever
    <3>1. Older(k) = k
      BY <2>2 DEF Older
    <3> QED
      BY <1>1, <2>1, <2>2, <3>1
  <2>3. CASE k.count # 0 /\ k.ttl # Forever /\ k.ttl = 1
    <3>1. Older(k) = NoKey
      BY <2>3 DEF Older
    <3> QED
      BY <1>1, <2>1, <2>3, <3>1
  <2>4. CASE k.count # 0 /\ k.ttl # Forever /\ k.ttl # 1
    <3>1. Older(k) = [k EXCEPT !.ttl = @ - 1]
      BY <2>4 DEF Older
    <3>2. Older(k).count = k.count /\ Older(k).ttl = k.ttl - 1
      BY <2>1, <3>1 DEF Keys
    <3> QED
      BY <1>1, <2>1, <2>4, <3>2
  <2> QED
    BY <2>2, <2>3, <2>4
<1>4. \A s \in live : s \in Requests /\ client[s] \in Clients /\ key[client[s]].count > 0
  BY <1>0, <1>1 DEF Inv, LiveOK, TypeOK
\* What has left live, or was not in it, when its key dies is as old as a window.
<1>5. ASSUME NEW r \in Requests, Counted(r), Older(key[client[r]]) = NoKey,
             key[client[r]].count > 0, r \notin live \/ slot[r] = 1
      PROVE  age'[r] = Window
  <2>1. client[r] \in Clients /\ key[client[r]].ttl = 1 /\ key[client[r]].ttl # Forever
    BY <1>3, <1>5 DEF BurstInv, AgeOK
  <2>2. age[r] + 1 >= Window
    BY <1>5, <2>1 DEF BurstInv, AgeOK
  <2> QED
    BY <1>0, <1>2, <2>2
<1>6. \A r \in Requests : age[r] < Window => age'[r] = age[r] + 1
  BY <1>0
<1>7. \A r \in Requests : age'[r] < Window => age[r] < Window
  BY <1>0, <1>2
<1>8. ExpireOK'
  <2> SUFFICES ASSUME NEW s \in Requests, pc[s] = "expire"
               PROVE  s \in live' /\ slot[s] = 1 /\ key'[client[s]].ttl = Forever
    BY <1>0 DEF ExpireOK
  <2>1. /\ s \in live /\ slot[s] = 1 /\ key[client[s]].ttl = Forever
        /\ client[s] \in Clients /\ key[client[s]].count > 0
    BY <1>4 DEF BurstInv, ExpireOK
  <2>2. Older(key[client[s]]) = key[client[s]] /\ key[client[s]] # NoKey
    BY <1>3, <2>1 DEF NoKey
  <2> QED
    BY <1>0, <2>1, <2>2
<1>9. AgeOK'
  <2> SUFFICES ASSUME NEW s \in Requests, Counted(s)
               PROVE  /\ client[s] \in Clients
                      /\ key'[client[s]].count > 0 /\ key'[client[s]].ttl # Forever
                         /\ (s \notin live' \/ slot[s] = 1)
                            => age'[s] + key'[client[s]].ttl >= Window
    BY <1>0 DEF AgeOK, Counted
  <2>1. client[s] \in Clients
    BY DEF BurstInv, AgeOK
  <2> SUFFICES ASSUME key'[client[s]].count > 0, key'[client[s]].ttl # Forever,
                      s \notin live' \/ slot[s] = 1
               PROVE  age'[s] + key'[client[s]].ttl >= Window
    BY <2>1
  <2>2. /\ key'[client[s]] = Older(key[client[s]])
        /\ key[client[s]].count > 0 /\ key[client[s]].ttl # Forever
        /\ key'[client[s]].ttl = key[client[s]].ttl - 1
    BY <1>0, <1>3, <2>1
  <2>3. key'[client[s]] # NoKey
    BY DEF NoKey
  <2>4. s \notin live \/ slot[s] = 1
    BY <1>0, <2>2, <2>3
  <2>5. age[s] + key[client[s]].ttl >= Window
    BY <2>1, <2>2, <2>4 DEF BurstInv, AgeOK
  <2>6. CASE age[s] < Window
    BY <1>1, <1>2, <1>6, <2>1, <2>2, <2>5, <2>6
  <2>7. CASE ~(age[s] < Window)
    <3>1. age'[s] = Window /\ key[client[s]].ttl - 1 >= 0
      BY <1>0, <1>1, <1>2, <2>1, <2>2, <2>7
    <3> QED
      BY <2>2, <3>1, <1>1, <2>1
  <2> QED
    BY <2>6, <2>7
<1>10. FormerOK'
  <2>1. ASSUME NEW r \in Requests, Former(r)'
        PROVE  /\ Counted(r) /\ age[r] < Window /\ client[r] \in Clients
               /\ r \notin live => Former(r)
               /\ r \in live => /\ Older(key[client[r]]) = NoKey /\ key[client[r]].count > 0
                                /\ slot[r] # 1
               /\ Older(key[client[r]]) = NoKey /\ key[client[r]].count > 0 => r \in live
    <3>1. Counted(r) /\ age'[r] < Window /\ r \notin live'
      BY <1>0, <2>1 DEF Former, Counted
    <3>2. age[r] < Window /\ age'[r] # Window
      BY <1>2, <1>7, <3>1
    <3>3. client[r] \in Clients
      BY <3>1 DEF BurstInv, AgeOK
    <3>4. r \in live => Older(key[client[r]]) = NoKey /\ key[client[r]].count > 0
      BY <1>0, <1>4, <3>1
    <3>5. r \in live => slot[r] # 1
      BY <1>5, <3>1, <3>2, <3>4
    <3>6. Older(key[client[r]]) = NoKey /\ key[client[r]].count > 0 => r \in live
      BY <1>5, <3>1, <3>2
    <3> QED
      BY <3>1, <3>2, <3>3, <3>4, <3>5, <3>6 DEF Former
  <2>2. \A r \in Requests : Former(r)' => slot'[r] # 1
    BY <1>0, <2>1 DEF BurstInv, FormerOK
  <2>3. ASSUME NEW r \in Requests, NEW s \in Requests, Former(r)', Former(s)',
               client'[r] = client'[s], slot'[r] = slot'[s]
        PROVE  r = s
    <3>1. client[r] = client[s] /\ slot[r] = slot[s]
      BY <1>0, <2>3
    <3>2. CASE r \in live
      <4>1. s \in live
        BY <2>1, <2>3, <3>1, <3>2
      <4> QED
        BY <3>1, <3>2, <4>1 DEF Inv, LiveOK
    <3>3. CASE r \notin live
      <4>1. s \notin live
        BY <2>1, <2>3, <3>1, <3>3
      <4> QED
        BY <2>1, <2>3, <3>1, <3>3, <4>1 DEF BurstInv, FormerOK
    <3> QED
      BY <3>2, <3>3
  <2> QED
    BY <2>2, <2>3 DEF FormerOK
<1> QED
  BY <1>8, <1>9, <1>10 DEF BurstInv

LEMMA BurstStep == ASSUME Inv, BurstInv, [Next]_vars PROVE BurstInv'
<1>0. TypeOK
  BY DEF Inv
<1>1. ASSUME NEW r \in Requests, Resolve(r) PROVE BurstInv'
  <2>1. /\ pc[r] = "new" /\ UNCHANGED <<slot, key, age, live>>
        /\ \A s \in Requests : pc'[s] = "expire" => pc[s] = "expire"
        /\ \A s \in Requests \ {r} : client'[s] = client[s]
    BY <1>0, <1>1 DEF Resolve, TypeOK
  <2> QED
    BY <2>1, BurstQuiet
<1>2. ASSUME NEW r \in Requests, Expire(r) PROVE BurstInv'
  BY <1>2, BurstExpire DEF Expire
<1>3. ASSUME NEW r \in Requests, Ttl(r) PROVE BurstInv'
  <2>1. \A s \in Requests : pc'[s] = "expire" => pc[s] = "expire"
    BY <1>0, <1>3 DEF Ttl, TypeOK
  <2> QED
    BY <1>3, <2>1, BurstQuiet DEF Ttl
<1>4. ASSUME ApiCrash PROVE BurstInv'
  <2>1. \A s \in Requests : pc'[s] = "expire" => pc[s] = "expire"
    BY <1>0, <1>4 DEF ApiCrash, TypeOK
  <2> QED
    BY <1>4, <2>1, BurstQuiet DEF ApiCrash
<1>5. CASE UNCHANGED vars
  BY <1>5, BurstQuiet DEF vars
<1> QED
  BY <1>1, <1>2, <1>3, <1>4, <1>5, BurstIncr, BurstRedisError, BurstTick DEF Next, Handle

(* No Window ticks let more than two quotas less one request through, for   *)
(* every limit, window and number of requests: those of the present life    *)
(* hold the slots 1 to the limit, those of the one before it 2 to the limit.*)
THEOREM BurstHolds == Spec => []Burst
<1>1. Inv /\ BurstInv => Burst
  <2> SUFFICES ASSUME Inv, BurstInv, NEW c \in Clients
               PROVE  Cardinality({r \in Passed(c) : age[r] < Window}) <= 2 * MaxRequests - 1
    BY DEF Burst
  <2> DEFINE Now == {r \in Passed(c) : age[r] < Window} \cap live
             Old == {r \in Passed(c) : age[r] < Window} \ live
             f == [r \in Now |-> slot[r]]
             g == [r \in Old |-> slot[r]]
  <2>1. \A r \in Now \cup Old : r \in Requests /\ slot[r] \in 1 .. MaxRequests /\ client[r] = c
    BY DEF Inv, TypeOK, SlotOK, Passed
  <2>2. f \in Injection(Now, 1 .. MaxRequests)
    <3>1. \A r, s \in Now : slot[r] = slot[s] => r = s
      BY <2>1 DEF Inv, LiveOK
    <3> QED
      BY <2>1, <3>1 DEF Injection, IsInjective
  <2>3. g \in Injection(Old, 2 .. MaxRequests)
    <3>1. \A r \in Old : Former(r)
      BY <2>1 DEF Former, Counted
    <3>2. \A r \in Old : slot[r] \in 2 .. MaxRequests
      BY <2>1, <3>1 DEF BurstInv, FormerOK
    <3>3. \A r, s \in Old : slot[r] = slot[s] => r = s
      BY <2>1, <3>1 DEF BurstInv, FormerOK
    <3> QED
      BY <3>2, <3>3 DEF Injection, IsInjective
  <2>4. /\ IsFiniteSet(1 .. MaxRequests) /\ Cardinality(1 .. MaxRequests) = MaxRequests
        /\ IsFiniteSet(2 .. MaxRequests) /\ Cardinality(2 .. MaxRequests) = MaxRequests - 1
    BY FS_Interval
  <2>5. /\ IsFiniteSet(Now) /\ Cardinality(Now) <= MaxRequests
        /\ IsFiniteSet(Old) /\ Cardinality(Old) <= MaxRequests - 1
    BY <2>2, <2>3, <2>4, FS_Injection
  <2>6. Now \cap Old = {} /\ {r \in Passed(c) : age[r] < Window} = Now \cup Old
    OBVIOUS
  <2>7. Cardinality(Now \cup Old) = Cardinality(Now) + Cardinality(Old)
    <3>1. Cardinality(Now \cup Old)
            = Cardinality(Now) + Cardinality(Old) - Cardinality(Now \cap Old)
      BY <2>5, FS_Union
    <3>2. Cardinality(Now \cap Old) = 0
      BY <2>6, FS_EmptySet
    <3>3. Cardinality(Now) \in Nat /\ Cardinality(Old) \in Nat
      BY <2>5, FS_CardinalityType
    <3> QED
      BY <3>1, <3>2, <3>3
  <2>8. Cardinality(Now) \in Nat /\ Cardinality(Old) \in Nat
    BY <2>5, FS_CardinalityType
  <2> QED
    BY <2>5, <2>6, <2>7, <2>8
<1>2. Inv /\ BurstInv /\ [Next]_vars => BurstInv'
  BY BurstStep
<1> QED
  BY <1>1, <1>2, BurstInit, InvIsInvariant, PTL DEF Spec

=============================================================================
