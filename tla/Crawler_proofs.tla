--------------------------- MODULE Crawler_proofs ---------------------------
(***************************************************************************)
(* Proofs about Crawler, for every site, every limit, every batch size and *)
(* every number of redirects.                                              *)
(***************************************************************************)
EXTENDS Crawler, FiniteSetTheorems, TLAPS

(* What is empty when; a crawl that is done had nothing left to pop.       *)
Phases ==
    /\ pc # "collect" => links = <<>>
    /\ pc \in {"robots", "done"} => fetch = <<>>
    /\ pc = "robots" => results = <<>> /\ failures = <<>>
    /\ pc = "collect" => \A i \in DOMAIN fetch : fetch[i].st \in Ended
    /\ pc = "done" => queue = <<>> \/ ~HasRoom

(* A fetch that is about to send a GET has had this very hop checked: the  *)
(* form of its URL, and by the DNS its host.                               *)
Cleared(f) == f.at \in Pages \cup Malformed /\ f.safe

HopsVetted == \A i \in DOMAIN fetch : fetch[i].st = "get" => Cleared(fetch[i])

(* Nothing that was queued is lost: the first half of EachUrlOnce.         *)
NothingLost ==
    visited = Elements(queue) \cup AskedIn(fetch) \cup AskedIn(results)
              \cup Elements(failures) \cup skipped

(* The links of a result were queued, or are still being looked at.        *)
LinksFollowed == \A i \in DOMAIN results :
    results[i].links \subseteq visited \cup Elements(links)

Inv ==
    /\ TypeOK /\ Phases /\ WithinLimit /\ HopsVetted /\ RequestsAreVetted
    /\ RobotsHonoured /\ NothingLost /\ LinksFollowed

-----------------------------------------------------------------------------
(* Sequences.                                                              *)

LEMMA AppendElements ==
    ASSUME NEW S, NEW s \in Seq(S), NEW e
    PROVE  Elements(Append(s, e)) = Elements(s) \cup {e}
<1>1. DOMAIN s = 1 .. Len(s) /\ DOMAIN Append(s, e) = 1 .. Len(s) + 1 /\ Len(s) \in Nat
  OBVIOUS
<1>2. \A i \in 1 .. Len(s) : Append(s, e)[i] = s[i]
  OBVIOUS
<1>3. Append(s, e)[Len(s) + 1] = e
  OBVIOUS
<1> QED
  BY <1>1, <1>2, <1>3 DEF Elements

LEMMA TailElements ==
    ASSUME NEW S, NEW s \in Seq(S), s # <<>>
    PROVE  /\ Head(s) \in S /\ Tail(s) \in Seq(S) /\ Len(Tail(s)) = Len(s) - 1
           /\ Elements(s) = {Head(s)} \cup Elements(Tail(s))
<1>1. Head(s) \in S /\ Tail(s) \in Seq(S) /\ Len(Tail(s)) = Len(s) - 1
  OBVIOUS
<1>2. DOMAIN s = 1 .. Len(s) /\ DOMAIN Tail(s) = 1 .. Len(s) - 1 /\ Len(s) \in Nat \ {0}
  OBVIOUS
<1>3. Head(s) = s[1] /\ \A i \in 1 .. Len(s) - 1 : Tail(s)[i] = s[i + 1]
  OBVIOUS
<1>4. ASSUME NEW i \in 1 .. Len(s), i # 1  PROVE s[i] \in Elements(Tail(s))
  <2>1. i - 1 \in 1 .. Len(s) - 1 /\ (i - 1) + 1 = i
    BY <1>2, <1>4
  <2>2. i - 1 \in DOMAIN Tail(s) /\ s[i] = Tail(s)[i - 1]
    BY <2>1, <1>2, <1>3
  <2> QED
    BY <2>2 DEF Elements
<1> QED
  BY <1>1, <1>2, <1>3, <1>4 DEF Elements

LEMMA EmptyElements == Elements(<<>>) = {} /\ AskedIn(<<>>) = {}
BY DEF Elements, AskedIn

LEMMA AppendAsked ==
    ASSUME NEW S, NEW s \in Seq(S), NEW e
    PROVE  AskedIn(Append(s, e)) = AskedIn(s) \cup {e.asked}
<1>1. DOMAIN s = 1 .. Len(s) /\ DOMAIN Append(s, e) = 1 .. Len(s) + 1 /\ Len(s) \in Nat
  OBVIOUS
<1>2. \A i \in 1 .. Len(s) : Append(s, e)[i] = s[i]
  OBVIOUS
<1>3. Append(s, e)[Len(s) + 1] = e
  OBVIOUS
<1> QED
  BY <1>1, <1>2, <1>3 DEF AskedIn

LEMMA TailAsked ==
    ASSUME NEW S, NEW s \in Seq(S), s # <<>>
    PROVE  AskedIn(s) = {Head(s).asked} \cup AskedIn(Tail(s))
<1>1. DOMAIN s = 1 .. Len(s) /\ DOMAIN Tail(s) = 1 .. Len(s) - 1 /\ Len(s) \in Nat \ {0}
  OBVIOUS
<1>2. Head(s) = s[1] /\ \A i \in 1 .. Len(s) - 1 : Tail(s)[i] = s[i + 1]
  OBVIOUS
<1>3. ASSUME NEW i \in 1 .. Len(s), i # 1  PROVE s[i].asked \in AskedIn(Tail(s))
  <2>1. i - 1 \in 1 .. Len(s) - 1 /\ (i - 1) + 1 = i
    BY <1>1, <1>3
  <2>2. i - 1 \in DOMAIN Tail(s) /\ s[i] = Tail(s)[i - 1]
    BY <2>1, <1>1, <1>2
  <2> QED
    BY <2>2 DEF AskedIn
<1>4. ASSUME NEW k \in DOMAIN Tail(s)
      PROVE  k + 1 \in DOMAIN s /\ Tail(s)[k] = s[k + 1]
  BY <1>1, <1>2
<1>5. AskedIn(s) \subseteq {Head(s).asked} \cup AskedIn(Tail(s))
  BY <1>1, <1>2, <1>3 DEF AskedIn
<1>6. AskedIn(Tail(s)) \subseteq AskedIn(s)
  BY <1>4 DEF AskedIn
<1>7. Head(s).asked \in AskedIn(s)
  BY <1>1, <1>2 DEF AskedIn
<1> QED
  BY <1>5, <1>6, <1>7

(* A fetch moves on: the batch keeps its URLs and its length.              *)
LEMMA FetchMoves ==
    ASSUME TypeOK, NEW i \in DOMAIN fetch, NEW f \in Fetches,
           f.asked = fetch[i].asked, fetch' = [fetch EXCEPT ![i] = f]
    PROVE  /\ fetch' \in Seq(Fetches) /\ DOMAIN fetch' = DOMAIN fetch
           /\ Len(fetch') = Len(fetch)
           /\ fetch'[i] = f /\ \A k \in DOMAIN fetch : k # i => fetch'[k] = fetch[k]
           /\ AskedIn(fetch') = AskedIn(fetch)
<1>1. fetch \in Seq(Fetches)
  BY DEF TypeOK
<1>2. /\ fetch' \in Seq(Fetches) /\ DOMAIN fetch' = DOMAIN fetch /\ Len(fetch') = Len(fetch)
      /\ fetch'[i] = f /\ \A k \in DOMAIN fetch : k # i => fetch'[k] = fetch[k]
  BY <1>1
<1>3. \A k \in DOMAIN fetch : fetch'[k].asked = fetch[k].asked
  BY <1>2
<1> QED
  BY <1>2, <1>3 DEF AskedIn

-----------------------------------------------------------------------------
(* The invariant.                                                          *)

USE LimitsAssumption, SeedsAssumption

LEMMA InitInv == Init => Inv
<1> SUFFICES ASSUME Init PROVE Inv
  OBVIOUS
<1>1. PICK seed \in Seeds : /\ queue = <<seed>> /\ visited = {seed}
                           /\ allowed = Linkable \cup {seed}
  BY DEF Init
<1>2. Elements(<<seed>>) = {seed} /\ seed \in Queueable /\ <<seed>> \in Seq(Queueable)
  BY DEF Elements, Queueable
<1>3. allowed \subseteq Queueable /\ visited \subseteq Queueable
  BY <1>1, <1>2 DEF Queueable
<1> QED
  BY <1>1, <1>2, <1>3, EmptyElements DEF Init, Inv, TypeOK, Phases, WithinLimit, HopsVetted,
     RequestsAreVetted, RobotsHonoured, NothingLost, LinksFollowed

LEMMA LoadRobotsInv == Inv /\ LoadRobots => Inv'
<1> SUFFICES ASSUME Inv, LoadRobots PROVE Inv'
  OBVIOUS
<1>1. fetch = <<>> /\ results = <<>> /\ failures = <<>>
  BY DEF Inv, Phases, LoadRobots
<1>2. RobotsHonoured'
  BY <1>1, EmptyElements DEF LoadRobots, RobotsHonoured
<1> QED
  BY <1>1, <1>2 DEF LoadRobots, Inv, TypeOK, Phases, WithinLimit, HopsVetted, HasRoom,
     RequestsAreVetted, NothingLost, LinksFollowed, Elements, AskedIn

LEMMA PopInv == Inv /\ Pop => Inv'
<1> SUFFICES ASSUME Inv, Pop PROVE Inv'
  OBVIOUS
<1> DEFINE url == Head(queue)
<1>1. /\ queue \in Seq(Queueable) /\ queue # <<>> /\ fetch \in Seq(Fetches)
      /\ results \in Seq([asked: Queueable, url: Locations, links: SUBSET Linkable])
      /\ pc = "fill" /\ HasRoom /\ links = <<>>
  BY DEF Inv, TypeOK, Pop, Phases
<1>2. /\ url \in Queueable /\ queue' \in Seq(Queueable)
      /\ Elements(queue) = {url} \cup Elements(queue')
  BY <1>1, TailElements DEF Pop
<1>3. CASE IsAllowed(url)
  <2>1. fetch' = Append(fetch, Started(url)) /\ skipped' = skipped
    BY <1>3 DEF Pop
  <2>2. Started(url) \in Fetches /\ Started(url).asked = url /\ Started(url).st = "check"
    BY <1>2 DEF Started, Fetches, Locations, Queueable, Linkable
  <2>3. fetch' \in Seq(Fetches) /\ Len(fetch') = Len(fetch) + 1
    BY <1>1, <2>1, <2>2
  <2>4. AskedIn(fetch') = AskedIn(fetch) \cup {url}
    BY <1>1, <2>1, <2>2, AppendAsked
  <2>5. TypeOK'
    BY <1>2, <2>1, <2>3 DEF Inv, TypeOK, Pop
  <2>6. Phases'
    BY <1>1 DEF Inv, Phases, Pop
  <2>7. WithinLimit'
    BY <1>1, <2>3 DEF WithinLimit, HasRoom, Pop
  <2>8. HopsVetted'
    <3>1. \A i \in DOMAIN fetch' : \/ i \in DOMAIN fetch /\ fetch'[i] = fetch[i]
                                 \/ fetch'[i] = Started(url)
      BY <1>1, <2>1, <2>2
    <3> QED
      BY <2>2, <3>1 DEF Inv, HopsVetted
  <2>9. RobotsHonoured'
    BY <1>3, <2>4 DEF Inv, RobotsHonoured, Pop, IsAllowed
  <2>10. NothingLost'
    BY <1>2, <2>1, <2>4 DEF Inv, NothingLost, Pop
  <2> QED
    BY <2>5, <2>6, <2>7, <2>8, <2>9, <2>10 DEF Inv, Pop, RequestsAreVetted, LinksFollowed
<1>4. CASE ~IsAllowed(url)
  <2>1. fetch' = fetch /\ skipped' = skipped \cup {url}
    BY <1>4 DEF Pop
  <2>2. TypeOK'
    BY <1>2, <2>1 DEF Inv, TypeOK, Pop
  <2>3. NothingLost'
    BY <1>2, <2>1 DEF Inv, NothingLost, Pop
  <2> QED
    BY <1>1, <2>1, <2>2, <2>3 DEF Inv, Pop, Phases, WithinLimit, HopsVetted,
       RequestsAreVetted, RobotsHonoured, LinksFollowed
<1> QED
  BY <1>3, <1>4

(* The steps that only move crawl() to another place.                      *)
LEMMA PhaseInv == Inv /\ (Gather \/ Finish \/ Raise \/ Gathered \/ Collected) => Inv'
<1> SUFFICES ASSUME Inv, Gather \/ Finish \/ Raise \/ Gathered \/ Collected PROVE Inv'
  OBVIOUS
<1>1. /\ UNCHANGED <<allowed, queue, visited, results, failures, fetch, links, skipped, asked>>
      /\ pc' \in {"fill", "fetch", "collect", "done", "raised"}
  BY DEF Gather, Finish, Raise, Gathered, Collected
<1>2. Phases'
  BY <1>1 DEF Inv, Phases, HasRoom, Gather, Finish, Raise, Gathered, Collected
<1> QED
  BY <1>1, <1>2 DEF Inv, TypeOK, WithinLimit, HopsVetted, RequestsAreVetted,
     RobotsHonoured, NothingLost, LinksFollowed

(* A check or a GET of one fetch leaves it the fetch of the same URL.      *)
LEMMA CheckMoves ==
    ASSUME TypeOK, NEW i \in DOMAIN fetch, Check(i)
    PROVE  \E f \in Fetches :
              /\ f.asked = fetch[i].asked
              /\ f.st = "get" => Cleared(f)
              /\ fetch' = [fetch EXCEPT ![i] = f]
<1>1. PICK safe \in BOOLEAN :
         fetch' = [fetch EXCEPT ![i].st = Vetted(fetch[i].at, safe),
                                ![i].safe = safe /\ Vetted(fetch[i].at, safe) = "get"]
  BY DEF Check
<1> DEFINE st == Vetted(fetch[i].at, safe)
           f  == [fetch[i] EXCEPT !.st = st, !.safe = safe /\ st = "get"]
<1>2. fetch[i] \in Fetches
  BY DEF TypeOK
<1>3. Vetted(fetch[i].at, safe) \in {"none", "raised", "get"}
  BY DEF Vetted
<1>4. f \in Fetches /\ f.asked = fetch[i].asked /\ f.at = fetch[i].at
      /\ f.st = st /\ f.safe = (safe /\ st = "get")
  BY <1>2, <1>3 DEF Fetches, Ended
<1>5. fetch' = [fetch EXCEPT ![i] = f]
  BY <1>1
<1>6. f.st = "get" => Cleared(f)
  BY <1>2, <1>4 DEF Cleared, Vetted, Fetches, Locations, Linkable
<1> QED
  BY <1>4, <1>5, <1>6

LEMMA CheckInv == ASSUME NEW i \in DOMAIN fetch PROVE Inv /\ Check(i) => Inv'
<1> SUFFICES ASSUME Inv, Check(i) PROVE Inv'
  OBVIOUS
<1>1. PICK f \in Fetches : /\ f.asked = fetch[i].asked
                           /\ f.st = "get" => Cleared(f)
                           /\ fetch' = [fetch EXCEPT ![i] = f]
  BY CheckMoves DEF Inv
<1>2. /\ fetch' \in Seq(Fetches) /\ DOMAIN fetch' = DOMAIN fetch /\ Len(fetch') = Len(fetch)
      /\ fetch'[i] = f /\ \A k \in DOMAIN fetch : k # i => fetch'[k] = fetch[k]
      /\ AskedIn(fetch') = AskedIn(fetch)
  BY <1>1, FetchMoves DEF Inv
<1>3. HopsVetted'
  BY <1>1, <1>2 DEF Inv, HopsVetted
<1>4. TypeOK'
  BY <1>2 DEF Inv, TypeOK, Check
<1> QED
  BY <1>2, <1>3, <1>4 DEF Inv, Check, Phases, WithinLimit, RequestsAreVetted,
     RobotsHonoured, NothingLost, LinksFollowed

(* What a GET, or its failure, does to one fetch.                          *)
LEMMA GetMoves ==
    ASSUME TypeOK, NEW i \in DOMAIN fetch, Get(i)
    PROVE  \E f \in Fetches : /\ f.asked = fetch[i].asked /\ f.st # "get"
                               /\ fetch' = [fetch EXCEPT ![i] = f]
<1> DEFINE Moved == \E f \in Fetches : /\ f.asked = fetch[i].asked /\ f.st # "get"
                                        /\ fetch' = [fetch EXCEPT ![i] = f]
<1>1. fetch[i] \in Fetches
  BY DEF TypeOK
<1>2. Moved
  <2>1. CASE fetch' = [fetch EXCEPT ![i].st = "raised", ![i].safe = FALSE]
    <3> DEFINE f == [fetch[i] EXCEPT !.st = "raised", !.safe = FALSE]
    <3>1. f \in Fetches /\ f.asked = fetch[i].asked /\ f.st # "get"
      BY <1>1 DEF Fetches
    <3> QED
      BY <2>1, <3>1
  <2>2. ASSUME NEW st \in {"failure", "none"},
               fetch' = [fetch EXCEPT ![i].st = st, ![i].safe = FALSE]
        PROVE  Moved
    <3> DEFINE f == [fetch[i] EXCEPT !.st = st, !.safe = FALSE]
    <3>1. f \in Fetches /\ f.asked = fetch[i].asked /\ f.st # "get"
      BY <1>1 DEF Fetches, Ended
    <3> QED
      BY <2>2, <3>1
  <2>3. ASSUME NEW location \in Locations,
               fetch' = [fetch EXCEPT ![i] = Redirected(fetch[i], location)]
        PROVE  Moved
    <3> DEFINE f == Redirected(fetch[i], location)
    <3>1. /\ fetch[i].asked \in Queueable /\ fetch[i].hop \in 0 .. MaxRedirects
          /\ fetch[i].links \in Seq(Linkable)
      BY <1>1 DEF Fetches
    <3>2. CASE fetch[i].hop = MaxRedirects
      <4>1. f = [fetch[i] EXCEPT !.st = "failure", !.safe = FALSE]
        BY <3>2 DEF Redirected
      <4>2. f \in Fetches /\ f.asked = fetch[i].asked /\ f.st # "get"
        BY <1>1, <4>1 DEF Fetches, Ended
      <4> QED
        BY <2>3, <4>2
    <3>3. CASE fetch[i].hop # MaxRedirects
      <4>1. f = [fetch[i] EXCEPT !.st = "check", !.at = location, !.hop = @ + 1,
                                  !.safe = FALSE]
        BY <3>3 DEF Redirected
      <4>2. fetch[i].hop + 1 \in 0 .. MaxRedirects
        BY <3>1, <3>3
      <4>3. f \in Fetches /\ f.asked = fetch[i].asked /\ f.st # "get"
        BY <1>1, <4>1, <4>2 DEF Fetches
      <4> QED
        BY <2>3, <4>3
    <3> QED
      BY <3>2, <3>3
  <2>4. ASSUME NEW doc \in Docs,
               fetch' = [fetch EXCEPT ![i].st = "result", ![i].safe = FALSE,
                                      ![i].links = doc]
        PROVE  Moved
    <3> DEFINE f == [fetch[i] EXCEPT !.st = "result", !.safe = FALSE, !.links = doc]
    <3>1. doc \in Seq(Linkable)
      BY DEF Docs
    <3>2. f \in Fetches /\ f.asked = fetch[i].asked /\ f.st # "get"
      BY <1>1, <3>1 DEF Fetches, Ended
    <3>3. fetch' = [fetch EXCEPT ![i] = f]
      BY <2>4
    <3> QED
      BY <3>2, <3>3
  <2> QED
    BY <2>1, <2>2, <2>3, <2>4 DEF Get
<1> QED
  BY <1>2

LEMMA GetInv == ASSUME NEW i \in DOMAIN fetch PROVE Inv /\ Get(i) => Inv'
<1> SUFFICES ASSUME Inv, Get(i) PROVE Inv'
  OBVIOUS
<1>1. fetch[i] \in Fetches /\ pc = "fetch" /\ fetch[i].st = "get"
  <2>1. fetch[i] \in Fetches
    BY DEF Inv, TypeOK
  <2> QED
    BY <2>1 DEF Get
<1>2. PICK f \in Fetches : /\ f.asked = fetch[i].asked /\ f.st # "get"
                           /\ fetch' = [fetch EXCEPT ![i] = f]
  BY GetMoves DEF Inv
<1>3. /\ fetch' \in Seq(Fetches) /\ DOMAIN fetch' = DOMAIN fetch /\ Len(fetch') = Len(fetch)
      /\ fetch'[i] = f /\ \A k \in DOMAIN fetch : k # i => fetch'[k] = fetch[k]
      /\ AskedIn(fetch') = AskedIn(fetch)
  BY <1>2, FetchMoves DEF Inv
<1>4. HopsVetted'
  BY <1>2, <1>3 DEF Inv, HopsVetted
<1>5. RequestsAreVetted' /\ asked' \subseteq [url: Locations, safe: BOOLEAN]
  <2> DEFINE get == [url |-> fetch[i].at, safe |-> fetch[i].safe]
  <2>1. fetch[i].at \in Pages \cup Malformed /\ fetch[i].safe
    BY <1>1 DEF Inv, HopsVetted, Cleared
  <2>2. asked' = asked \/ (fetch[i].at \notin Malformed /\ asked' = asked \cup {get})
    BY DEF Get
  <2>3. get \in [url: Locations, safe: BOOLEAN]
    BY <1>1 DEF Fetches
  <2>4. RequestsAreVetted /\ asked \subseteq [url: Locations, safe: BOOLEAN]
    BY DEF Inv, TypeOK
  <2>5. fetch[i].at \notin Malformed => get.url \in Pages /\ get.safe
    BY <2>1
  <2>6. RequestsAreVetted'
    BY <2>2, <2>4, <2>5 DEF RequestsAreVetted
  <2> QED
    BY <2>2, <2>3, <2>4, <2>6
<1>6. TypeOK'
  BY <1>3, <1>5 DEF Inv, TypeOK, Get
<1> QED
  BY <1>1, <1>3, <1>4, <1>5, <1>6 DEF Inv, Get, Phases, WithinLimit,
     RobotsHonoured, NothingLost, LinksFollowed

LEMMA TakeItemInv == Inv /\ TakeItem => Inv'
<1> SUFFICES ASSUME Inv, TakeItem PROVE Inv'
  OBVIOUS
<1> DEFINE item == Head(fetch)
           Result == [asked: Queueable, url: Locations, links: SUBSET Linkable]
<1>1. /\ pc = "collect" /\ pc' = pc /\ links = <<>> /\ fetch # <<>> /\ fetch' = Tail(fetch)
      /\ fetch \in Seq(Fetches) /\ results \in Seq(Result) /\ failures \in Seq(Queueable)
  BY DEF Inv, TypeOK, TakeItem
<1>2. /\ item \in Fetches /\ fetch' \in Seq(Fetches) /\ Len(fetch') = Len(fetch) - 1
  BY <1>1, TailElements
<1>3. AskedIn(fetch) = {item.asked} \cup AskedIn(fetch')
  BY <1>1, TailAsked
<1>4. \A k \in DOMAIN fetch' : k + 1 \in DOMAIN fetch /\ fetch'[k] = fetch[k + 1]
  BY <1>1
<1>5. HopsVetted'
  BY <1>4 DEF Inv, HopsVetted
<1>6. Phases'
  BY <1>1, <1>4 DEF Inv, Phases
<1>7. item.asked \in Queueable /\ item.at \in Locations /\ item.links \in Seq(Linkable)
  BY <1>2 DEF Fetches
<1>8. CASE item.st = "none"
  <2>1. skipped' = skipped \cup {item.asked} /\ UNCHANGED <<results, failures, links>>
    BY <1>8 DEF TakeItem
  <2>2. TypeOK'
    BY <1>1, <1>2, <1>7, <2>1 DEF Inv, TypeOK, TakeItem
  <2>3. NothingLost' /\ RobotsHonoured'
    BY <1>3, <2>1 DEF Inv, NothingLost, RobotsHonoured, TakeItem
  <2> QED
    BY <1>1, <1>2, <1>5, <1>6, <2>1, <2>2, <2>3 DEF Inv, WithinLimit, RequestsAreVetted,
       LinksFollowed, TakeItem
<1>9. CASE item.st = "failure"
  <2>1. failures' = Append(failures, item.asked) /\ UNCHANGED <<results, links, skipped>>
    BY <1>9 DEF TakeItem
  <2>2. failures' \in Seq(Queueable) /\ Elements(failures') = Elements(failures) \cup {item.asked}
    BY <1>1, <1>7, <2>1, AppendElements
  <2>3. TypeOK'
    BY <1>1, <1>2, <2>1, <2>2 DEF Inv, TypeOK, TakeItem
  <2>4. NothingLost' /\ RobotsHonoured'
    BY <1>3, <2>1, <2>2 DEF Inv, NothingLost, RobotsHonoured, TakeItem
  <2> QED
    BY <1>1, <1>2, <1>5, <1>6, <2>1, <2>3, <2>4 DEF Inv, WithinLimit, RequestsAreVetted,
       LinksFollowed, TakeItem
<1>10. CASE item.st = "result"
  <2> DEFINE r == [asked |-> item.asked, url |-> item.at, links |-> Elements(item.links)]
  <2>1. results' = Append(results, r) /\ links' = item.links /\ UNCHANGED <<failures, skipped>>
    BY <1>10 DEF TakeItem
  <2>2. r \in Result
    <3>1. Elements(item.links) \subseteq Linkable
      BY <1>7 DEF Elements
    <3> QED
      BY <1>7, <3>1
  <2>3. results' \in Seq(Result) /\ Len(results') = Len(results) + 1
    BY <1>1, <2>1, <2>2
  <2>4. AskedIn(results') = AskedIn(results) \cup {item.asked}
    BY <1>1, <2>1, AppendAsked
  <2>5. TypeOK'
    BY <1>1, <1>2, <1>7, <2>1, <2>3 DEF Inv, TypeOK, TakeItem
  <2>6. NothingLost' /\ RobotsHonoured'
    BY <1>3, <2>1, <2>4 DEF Inv, NothingLost, RobotsHonoured, TakeItem
  <2>7. WithinLimit'
    BY <1>1, <1>2, <2>3 DEF Inv, WithinLimit
  <2>8. LinksFollowed'
    <3>1. \A k \in DOMAIN results' :
             (k \in DOMAIN results /\ results'[k] = results[k]) \/ results'[k] = r
      BY <1>1, <2>1, <2>2
    <3>2. Elements(links) = {}
      BY <1>1, EmptyElements
    <3> QED
      BY <2>1, <3>1, <3>2 DEF Inv, LinksFollowed, TakeItem
  <2> QED
    BY <1>1, <1>5, <1>6, <2>5, <2>6, <2>7, <2>8 DEF Inv, RequestsAreVetted, TakeItem
<1> QED
  BY <1>8, <1>9, <1>10 DEF TakeItem

LEMMA TakeLinkInv == Inv /\ TakeLink => Inv'
<1> SUFFICES ASSUME Inv, TakeLink PROVE Inv'
  OBVIOUS
<1>1. /\ pc = "collect" /\ pc' = pc /\ links # <<>> /\ links' = Tail(links)
      /\ links \in Seq(Linkable) /\ queue \in Seq(Queueable)
  BY DEF Inv, TypeOK, TakeLink, Rest
<1>2. /\ Head(links) \in Linkable \cap Queueable /\ links' \in Seq(Linkable)
      /\ Elements(links) = {Head(links)} \cup Elements(links')
  BY <1>1, TailElements DEF Queueable
<1>3. /\ queue' \in Seq(Queueable) /\ visited' \in SUBSET Queueable
      /\ visited' = visited \cup {Head(links)}
      /\ visited' \ visited = Elements(queue') \ Elements(queue) \/ visited' = visited
      /\ NothingLost'
  <2>1. CASE Known(Head(links))
    BY <1>1, <2>1 DEF Inv, TypeOK, TakeLink, Known, NothingLost
  <2>2. CASE ~Known(Head(links))
    <3>1. queue' = Append(queue, Head(links)) /\ visited' = visited \cup {Head(links)}
      BY <2>2 DEF TakeLink
    <3>2. Elements(queue') = Elements(queue) \cup {Head(links)}
      BY <1>1, <3>1, AppendElements
    <3>3. queue' \in Seq(Queueable)
      BY <1>1, <1>2, <3>1
    <3>4. Head(links) \notin visited /\ Elements(queue) \subseteq visited
      BY <2>2 DEF Known, Inv, NothingLost
    <3> QED
      BY <1>2, <3>1, <3>2, <3>3, <3>4 DEF Inv, TypeOK, NothingLost, TakeLink
  <2> QED
    BY <2>1, <2>2
<1>4. LinksFollowed'
  BY <1>2, <1>3 DEF Inv, LinksFollowed, TakeLink
<1>5. TypeOK'
  BY <1>1, <1>2, <1>3 DEF Inv, TypeOK, TakeLink
<1> QED
  BY <1>1, <1>3, <1>4, <1>5 DEF Inv, Phases, WithinLimit, HopsVetted, RequestsAreVetted,
     RobotsHonoured, TakeLink

THEOREM InvIsInvariant == Spec => []Inv
<1>1. Inv /\ [Next]_vars => Inv'
  <2> SUFFICES ASSUME Inv, [Next]_vars PROVE Inv'
    OBVIOUS
  <2>1. CASE UNCHANGED vars
    BY <2>1 DEF vars, Inv, TypeOK, Phases, WithinLimit, HopsVetted, RequestsAreVetted,
       RobotsHonoured, NothingLost, LinksFollowed, HasRoom
  <2>2. CASE Next
    BY <2>2, LoadRobotsInv, PopInv, PhaseInv, CheckInv, GetInv, TakeItemInv, TakeLinkInv
       DEF Next
  <2> QED
    BY <2>1, <2>2
<1> QED
  BY InitInv, <1>1, PTL DEF Spec

-----------------------------------------------------------------------------
(* What follows from it.                                                   *)

(* Every variable keeps its type.                                          *)
THEOREM TypeCorrect == Spec => []TypeOK
BY InvIsInvariant, PTL DEF Inv

(* The crawl never reports more than CRAWL_LIMIT pages, nor fetches a batch *)
(* that could.                                                             *)
THEOREM LimitHolds == Spec => []WithinLimit
BY InvIsInvariant, PTL DEF Inv

(* Wherever redirects lead, a GET is only sent to an in-scope URL of a form *)
(* assert_url_safe accepts, whose host the DNS found safe on that hop.     *)
THEOREM OnlyVettedRequests == Spec => []RequestsAreVetted
BY InvIsInvariant, PTL DEF Inv

(* Nothing the crawler took off its queue was refused by robots.txt.       *)
THEOREM RobotsObeyed == Spec => []RobotsHonoured
BY InvIsInvariant, PTL DEF Inv

(* A crawl that ends below its limit has followed every link it reports.   *)
THEOREM FrontierIsExhausted == Spec => []FrontierExhausted
<1>1. Inv => FrontierExhausted
  <2> SUFFICES ASSUME Inv, pc = "done", Len(results) < Limit,
                      NEW i \in DOMAIN results, NEW u \in results[i].links
               PROVE  u \in skipped \cup AskedIn(results) \cup Elements(failures)
    BY DEF FrontierExhausted
  <2>1. fetch = <<>> /\ links = <<>> /\ (queue = <<>> \/ ~HasRoom)
    BY DEF Inv, Phases
  <2>2. queue = <<>>
    <3>1. Len(fetch) = 0 /\ Len(results) \in Nat
      BY <2>1 DEF Inv, TypeOK
    <3> QED
      BY <2>1, <3>1 DEF HasRoom
  <2>3. u \in visited
    BY <2>1, EmptyElements DEF Inv, LinksFollowed
  <2> QED
    BY <2>1, <2>2, <2>3, EmptyElements DEF Inv, NothingLost
<1> QED
  BY InvIsInvariant, <1>1, PTL

-----------------------------------------------------------------------------
(* EachUrlOnce: what is queued and what is being fetched never repeats a   *)
(* URL and was never dropped, so each step moves one URL from one place to *)
(* another, and the lengths of the places add up.                          *)

Distinct(s) == \A i, j \in DOMAIN s : i # j => s[i] # s[j]
DistinctAsked(s) == \A i, j \in DOMAIN s : i # j => s[i].asked # s[j].asked

Apart ==
    /\ Distinct(queue) /\ DistinctAsked(fetch)
    /\ Elements(queue) \cap AskedIn(fetch) = {}
    /\ skipped \cap (Elements(queue) \cup AskedIn(fetch)) = {}

AddUp ==
    /\ IsFiniteSet(visited)
    /\ Cardinality(visited) = Len(queue) + Len(fetch) + Len(results)
                 + Len(failures) + Cardinality(skipped)

LEMMA AppendDistinct ==
    ASSUME NEW S, NEW s \in Seq(S), NEW e
    PROVE  /\ Distinct(s) /\ e \notin Elements(s) => Distinct(Append(s, e))
           /\ DistinctAsked(s) /\ e.asked \notin AskedIn(s) => DistinctAsked(Append(s, e))
<1>1. /\ DOMAIN s = 1 .. Len(s) /\ DOMAIN Append(s, e) = 1 .. Len(s) + 1 /\ Len(s) \in Nat
      /\ \A i \in 1 .. Len(s) : Append(s, e)[i] = s[i]
      /\ Append(s, e)[Len(s) + 1] = e
  OBVIOUS
<1>2. \A i \in DOMAIN Append(s, e) :
         \/ i \in DOMAIN s /\ Append(s, e)[i] = s[i]
         \/ i = Len(s) + 1 /\ i \notin DOMAIN s /\ Append(s, e)[i] = e
  BY <1>1
<1> QED
  BY <1>2 DEF Distinct, DistinctAsked, Elements, AskedIn

LEMMA TailDistinct ==
    ASSUME NEW S, NEW s \in Seq(S), s # <<>>
    PROVE  /\ Distinct(s) => Distinct(Tail(s)) /\ Head(s) \notin Elements(Tail(s))
           /\ DistinctAsked(s) =>
                 DistinctAsked(Tail(s)) /\ Head(s).asked \notin AskedIn(Tail(s))
<1>1. /\ 1 \in DOMAIN s /\ Head(s) = s[1]
      /\ \A k \in DOMAIN Tail(s) : /\ k \in Nat \ {0} /\ k + 1 \in DOMAIN s
                                   /\ Tail(s)[k] = s[k + 1]
  OBVIOUS
<1>2. \A i, j \in DOMAIN Tail(s) : i # j => i + 1 # j + 1
  BY <1>1
<1>3. \A k \in DOMAIN Tail(s) : k + 1 # 1
  BY <1>1
<1> QED
  BY <1>1, <1>2, <1>3 DEF Distinct, DistinctAsked, Elements, AskedIn

(* Dropping a URL that was not dropped before counts it once.              *)
LEMMA DropCounts ==
    ASSUME TypeOK, NothingLost, IsFiniteSet(visited), NEW u \in visited \ skipped
    PROVE  /\ Cardinality(skipped \cup {u}) = Cardinality(skipped) + 1
           /\ Cardinality(skipped) \in Nat
<1>1. skipped \subseteq visited
  BY DEF NothingLost
<1>2. IsFiniteSet(skipped)
  BY <1>1, FS_Subset
<1> QED
  BY <1>2, FS_AddElement, FS_CardinalityType

LEMMA LengthsAreNat == TypeOK =>
    Len(queue) \in Nat /\ Len(fetch) \in Nat /\ Len(results) \in Nat /\ Len(failures) \in Nat
BY DEF TypeOK

LEMMA InitOnce == Init => Apart /\ AddUp
<1> SUFFICES ASSUME Init PROVE Apart /\ AddUp
  OBVIOUS
<1>1. PICK seed \in Seeds : queue = <<seed>> /\ visited = {seed}
  BY DEF Init
<1>2. Elements(queue) = {seed} /\ Distinct(queue) /\ Len(queue) = 1
  BY <1>1 DEF Elements, Distinct
<1>3. IsFiniteSet(visited) /\ Cardinality(visited) = 1 /\ Cardinality({}) = 0
  BY <1>1, FS_Singleton, FS_EmptySet
<1>4. /\ fetch = <<>> /\ skipped = {} /\ Len(fetch) = 0 /\ Len(results) = 0
      /\ Len(failures) = 0 /\ DistinctAsked(fetch)
  BY DEF Init, DistinctAsked
<1>5. Apart
  BY <1>2, <1>4, EmptyElements DEF Apart
<1>6. AddUp
  BY <1>2, <1>3, <1>4 DEF AddUp
<1> QED
  BY <1>5, <1>6

LEMMA PopOnce == Inv /\ Apart /\ AddUp /\ Pop => Apart' /\ AddUp'
<1> SUFFICES ASSUME Inv, Apart, AddUp, Pop PROVE Apart' /\ AddUp'
  OBVIOUS
<1> DEFINE url == Head(queue)
<1>1. /\ queue \in Seq(Queueable) /\ queue # <<>> /\ queue' = Tail(queue)
      /\ fetch \in Seq(Fetches) /\ UNCHANGED <<visited, results, failures>>
  BY DEF Inv, TypeOK, Pop
<1>2. /\ Len(queue') = Len(queue) - 1
      /\ Elements(queue) = {url} \cup Elements(queue')
      /\ Distinct(queue') /\ url \notin Elements(queue')
  BY <1>1, TailElements, TailDistinct DEF Apart
<1>3. url \in visited \ skipped /\ url \notin AskedIn(fetch)
  BY <1>2 DEF Apart, Inv, NothingLost
<1>4. CASE IsAllowed(url)
  <2>1. fetch' = Append(fetch, Started(url)) /\ skipped' = skipped
    BY <1>4 DEF Pop
  <2>2. Started(url).asked = url
    BY DEF Started
  <2>3. AskedIn(fetch') = AskedIn(fetch) \cup {url} /\ DistinctAsked(fetch')
    BY <1>1, <1>3, <2>1, <2>2, AppendAsked, AppendDistinct DEF Apart
  <2>4. Len(fetch') = Len(fetch) + 1
    BY <1>1, <2>1
  <2>5. Apart'
    BY <1>2, <1>3, <2>1, <2>3 DEF Apart
  <2>6. AddUp'
    <3>1. Len(queue') + Len(fetch') = Len(queue) + Len(fetch)
      BY <1>2, <2>4, LengthsAreNat DEF Inv
    <3> QED
      BY <1>1, <2>1, <3>1 DEF AddUp
  <2> QED
    BY <2>5, <2>6
<1>5. CASE ~IsAllowed(url)
  <2>1. fetch' = fetch /\ skipped' = skipped \cup {url}
    BY <1>5 DEF Pop
  <2>2. Cardinality(skipped') = Cardinality(skipped) + 1 /\ Cardinality(skipped) \in Nat
    BY <1>3, <2>1, DropCounts DEF Inv, AddUp
  <2>3. Apart'
    BY <1>2, <1>3, <2>1 DEF Apart
  <2>4. AddUp'
    BY <1>1, <1>2, <2>1, <2>2, LengthsAreNat DEF AddUp, Inv
  <2> QED
    BY <2>3, <2>4
<1> QED
  BY <1>4, <1>5

(* A fetch that moves on stays in its place.                               *)
LEMMA FetchOnce ==
    ASSUME NEW i \in DOMAIN fetch, Inv, Apart, AddUp, Check(i) \/ Get(i)
    PROVE  Apart' /\ AddUp'
<1>1. UNCHANGED <<queue, visited, results, failures, skipped>>
  BY DEF Check, Get
<1>2. \E f \in Fetches : f.asked = fetch[i].asked /\ fetch' = [fetch EXCEPT ![i] = f]
  BY CheckMoves, GetMoves DEF Inv
<1>3. /\ DOMAIN fetch' = DOMAIN fetch /\ Len(fetch') = Len(fetch)
      /\ AskedIn(fetch') = AskedIn(fetch)
      /\ \A k \in DOMAIN fetch : fetch'[k].asked = fetch[k].asked
  BY <1>2, FetchMoves DEF Inv
<1> QED
  BY <1>1, <1>3 DEF Apart, AddUp, DistinctAsked

LEMMA TakeItemOnce == Inv /\ Apart /\ AddUp /\ TakeItem => Apart' /\ AddUp'
<1> SUFFICES ASSUME Inv, Apart, AddUp, TakeItem PROVE Apart' /\ AddUp'
  OBVIOUS
<1> DEFINE item == Head(fetch)
<1>1. /\ fetch \in Seq(Fetches) /\ fetch # <<>> /\ fetch' = Tail(fetch)
      /\ UNCHANGED <<queue, visited>>
  BY DEF Inv, TypeOK, TakeItem
<1>2. /\ Len(fetch') = Len(fetch) - 1
      /\ AskedIn(fetch) = {item.asked} \cup AskedIn(fetch')
      /\ DistinctAsked(fetch') /\ item.asked \notin AskedIn(fetch')
  BY <1>1, TailElements, TailAsked, TailDistinct DEF Apart
<1>3. item.asked \in visited \ skipped /\ item.asked \notin Elements(queue)
  BY <1>2 DEF Apart, Inv, NothingLost
<1>4. CASE item.st = "none"
  <2>1. skipped' = skipped \cup {item.asked} /\ UNCHANGED <<results, failures>>
    BY <1>4 DEF TakeItem
  <2>2. Cardinality(skipped') = Cardinality(skipped) + 1 /\ Cardinality(skipped) \in Nat
    BY <1>3, <2>1, DropCounts DEF Inv, AddUp
  <2>3. Apart'
    BY <1>1, <1>2, <1>3, <2>1 DEF Apart
  <2>4. AddUp'
    BY <1>1, <1>2, <2>1, <2>2, LengthsAreNat DEF AddUp, Inv
  <2> QED
    BY <2>3, <2>4
<1>5. CASE item.st \in {"failure", "result"}
  <2>1. skipped' = skipped
    BY <1>5 DEF TakeItem
  <2>2. Len(results') + Len(failures') = Len(results) + Len(failures) + 1
    <3>1. results \in Seq([asked: Queueable, url: Locations, links: SUBSET Linkable])
          /\ failures \in Seq(Queueable)
      BY DEF Inv, TypeOK
    <3>2. CASE item.st = "failure"
      <4>1. Len(failures') = Len(failures) + 1 /\ results' = results
        BY <3>1, <3>2 DEF TakeItem
      <4> QED
        BY <4>1, LengthsAreNat DEF Inv
    <3>3. CASE item.st = "result"
      <4>1. Len(results') = Len(results) + 1 /\ failures' = failures
        BY <3>1, <3>3 DEF TakeItem
      <4> QED
        BY <4>1, LengthsAreNat DEF Inv
    <3> QED
      BY <1>5, <3>2, <3>3
  <2>3. Apart'
    BY <1>1, <1>2, <2>1 DEF Apart
  <2>4. Len(results') \in Nat /\ Len(failures') \in Nat
    BY TakeItemInv, LengthsAreNat DEF Inv
  <2>5. Cardinality(skipped) \in Nat
    BY <1>3, DropCounts DEF Inv, AddUp
  <2>6. AddUp'
    <3>1. Len(queue) \in Nat /\ Len(fetch) \in Nat /\ Len(results) \in Nat /\ Len(failures) \in Nat
      BY LengthsAreNat, Zenon DEF Inv
    <3>2. Len(fetch') = Len(fetch) - 1 /\ queue' = queue /\ visited' = visited
      BY <1>1, <1>2, Zenon
    <3> QED
      BY <2>1, <2>2, <2>4, <2>5, <3>1, <3>2 DEF AddUp
  <2> QED
    BY <2>3, <2>6
<1> QED
  BY <1>4, <1>5 DEF TakeItem

LEMMA TakeLinkOnce == Inv /\ Apart /\ AddUp /\ TakeLink => Apart' /\ AddUp'
<1> SUFFICES ASSUME Inv, Apart, AddUp, TakeLink PROVE Apart' /\ AddUp'
  OBVIOUS
<1> DEFINE link == Head(links)
<1>1. UNCHANGED <<fetch, results, failures, skipped>> /\ queue \in Seq(Queueable)
  BY DEF TakeLink, Inv, TypeOK
<1>2. CASE Known(link)
  BY <1>1, <1>2 DEF TakeLink, Apart, AddUp
<1>3. CASE ~Known(link)
  <2>1. /\ queue' = Append(queue, link) /\ visited' = visited \cup {link}
        /\ link \notin visited
    BY <1>3 DEF TakeLink, Known
  <2>2. link \notin Elements(queue) \cup AskedIn(fetch) \cup skipped
    BY <2>1 DEF Inv, NothingLost
  <2>3. Elements(queue') = Elements(queue) \cup {link} /\ Distinct(queue')
    BY <1>1, <2>1, <2>2, AppendElements, AppendDistinct DEF Apart
  <2>4. Apart'
    BY <1>1, <2>2, <2>3 DEF Apart
  <2>5. Len(queue') = Len(queue) + 1
    BY <1>1, <2>1
  <2>6. IsFiniteSet(visited') /\ Cardinality(visited') = Cardinality(visited) + 1
    BY <2>1, FS_AddElement DEF AddUp
  <2>7. Cardinality(skipped) \in Nat
    <3>1. skipped \subseteq visited
      BY DEF Inv, NothingLost
    <3>2. IsFiniteSet(skipped)
      BY <3>1, FS_Subset DEF AddUp
    <3> QED
      BY <3>2, FS_CardinalityType
  <2>8. AddUp'
    BY <1>1, <2>5, <2>6, <2>7, LengthsAreNat DEF AddUp, Inv
  <2> QED
    BY <2>4, <2>8
<1> QED
  BY <1>2, <1>3

(* Every URL that was ever queued is in one place, and counted once.       *)
THEOREM EveryUrlOnce == Spec => []EachUrlOnce
<1>1. Inv /\ Inv' /\ Apart /\ AddUp /\ [Next]_vars => Apart' /\ AddUp'
  <2> SUFFICES ASSUME Inv, Apart, AddUp, [Next]_vars PROVE Apart' /\ AddUp'
    OBVIOUS
  <2>1. CASE UNCHANGED <<queue, visited, results, failures, fetch, skipped>>
    BY <2>1 DEF Apart, AddUp
  <2>2. CASE Next
    <3>1. LoadRobots \/ Gather \/ Finish \/ Raise \/ Gathered \/ Collected =>
             UNCHANGED <<queue, visited, results, failures, fetch, skipped>>
      BY DEF LoadRobots, Gather, Finish, Raise, Gathered, Collected
    <3> QED
      BY <2>1, <2>2, <3>1, PopOnce, FetchOnce, TakeItemOnce, TakeLinkOnce DEF Next
  <2> QED
    BY <2>1, <2>2 DEF vars
<1>2. Inv /\ AddUp => EachUrlOnce
  BY DEF Inv, NothingLost, AddUp, EachUrlOnce
<1>3. Spec => [](Inv /\ Apart /\ AddUp)
  BY InvIsInvariant, InitOnce, <1>1, PTL DEF Spec
<1> QED
  BY <1>2, <1>3, PTL
=============================================================================
