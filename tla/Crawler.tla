------------------------------- MODULE Crawler -------------------------------
(***************************************************************************)
(* Crawler.crawl of app/core/crawler.py: a breadth-first crawl of one      *)
(* host.  Batches of at most CRAWL_CONCURRENCY URLs are taken off the      *)
(* queue and fetched concurrently by asyncio.gather; every fetch follows   *)
(* its own redirects and re-checks each hop.  A URL is a model value whose *)
(* class (the constants below) says how the checks treat it, a page's HTML *)
(* is the sequence of its normalised same-host links, and what the site    *)
(* and the DNS answer is free at every request.  A turn of a loop is a     *)
(* step; only the fetches of a batch interleave.                           *)
(***************************************************************************)
EXTENDS Naturals, FiniteSets, Sequences

CONSTANTS
    Pages,         \* normalised in-scope URLs that may serve HTML
    Assets,        \* in-scope URLs with an extension of NON_HTML_EXTENSIONS
    Foreign,       \* URLs _in_scope refuses: those of other hosts
    Refused,       \* in-scope URLs assert_url_safe refuses by scheme, port or credentials
    BadPort,       \* in-scope URLs whose port urlparse cannot read (a ValueError)
    Malformed,     \* in-scope URLs httpx refuses to request (httpx.InvalidURL)
    Seeds,         \* what normalize_url may leave of the URL that was submitted
    Limit,         \* CRAWL_LIMIT
    Concurrency,   \* CRAWL_CONCURRENCY
    MaxRedirects,  \* CRAWL_MAX_REDIRECTS
    MaxLinks       \* bound: links of one page

\* A submitted URL is well formed (HttpUrl) and passed assert_url_safe.  It may
\* name an asset; the one of an IPv6 address loses its brackets to normalize_url,
\* and with them the host _in_scope compares.
ASSUME SeedsAssumption == Seeds \subseteq Pages \cup Assets \cup Foreign
ASSUME LimitsAssumption ==
    /\ Limit \in Nat \ {0} /\ Concurrency \in Nat \ {0}
    /\ MaxRedirects \in Nat /\ MaxLinks \in Nat

\* What normalize_url leaves of a link: it strips ports and credentials and
\* drops other hosts and schemes, but keeps a path httpx refuses (a control
\* character, an excessive length).  A Location header is joined, not normalised.
Linkable == Pages \cup Assets \cup Malformed
Locations == Linkable \cup Foreign \cup Refused \cup BadPort

\* What crawl() may queue.
Queueable == Linkable \cup Seeds

Docs == UNION {[1 .. n -> Linkable] : n \in 0 .. MaxLinks}

VARIABLES
    pc,        \* where crawl() is
    allowed,   \* what robot_parser lets the crawler fetch, of what this crawl may queue
    queue, visited, results, failures,   \* as in the code
    fetch,     \* the batch: one record per _fetch, in the batch's order
    links,     \* the links of the last result that are still to be looked at
    skipped,   \* history: URLs dropped by robots.txt or by _fetch
    asked      \* history: the GETs sent, each with what the DNS had said on its hop

vars == <<pc, allowed, queue, visited, results, failures, fetch, links, skipped, asked>>

Ended == {"result", "failure", "none"}

Elements(s) == {s[i] : i \in DOMAIN s}

-----------------------------------------------------------------------------

(***************************************************************************)
(* _load_robots, three hops at most: a robots.txt that is parsed decides   *)
(* what is allowed, anything else allows everything.  UrlSafetyError,      *)
(* HTTPError and ValueError are caught there; httpx.InvalidURL is none of  *)
(* them, and a redirect of robots.txt to such a URL ends the crawl.        *)
(***************************************************************************)
LoadRobots ==
    /\ pc = "robots"
    /\ \/ /\ allowed' \in SUBSET allowed
          /\ pc' = "fill"
       \/ /\ Malformed # {}
          /\ pc' = "raised"
          /\ UNCHANGED allowed
    /\ UNCHANGED <<queue, visited, results, failures, fetch, links, skipped, asked>>

\* Mutant of HasRoom: the batch is filled whatever the limit leaves.
HasRoomIgnoresLimit == Len(fetch) < Concurrency /\ Len(results) < Limit

\* May the batch take one more URL?
HasRoom == Len(fetch) < Concurrency /\ Len(results) + Len(fetch) < Limit

\* _fetch(url) before its first hop.  In safe, history until the GET is answered:
\* the DNS, asked on this hop, found the host of the URL safe.
Started(url) == [asked |-> url, st |-> "check", at |-> url, hop |-> 0, safe |-> FALSE,
                 links |-> <<>>]

\* Mutant of IsAllowed: robots.txt is not asked.
IsAllowedAlways(url) == TRUE
IsAllowed(url) == url \in allowed

Pop ==
    /\ pc = "fill" /\ queue # <<>> /\ HasRoom
    /\ queue' = Tail(queue)
    /\ \/ /\ IsAllowed(Head(queue))
          /\ fetch' = Append(fetch, Started(Head(queue)))
          /\ UNCHANGED skipped
       \/ /\ ~IsAllowed(Head(queue))
          /\ skipped' = skipped \cup {Head(queue)}
          /\ UNCHANGED fetch
    /\ UNCHANGED <<pc, allowed, visited, results, failures, links, asked>>

\* asyncio.gather starts the fetches of the batch.
Gather ==
    /\ pc = "fill" /\ (queue = <<>> \/ ~HasRoom) /\ fetch # <<>>
    /\ pc' = "fetch"
    /\ UNCHANGED <<allowed, queue, visited, results, failures, fetch, links, skipped, asked>>

Finish ==
    /\ pc = "fill" /\ (queue = <<>> \/ ~HasRoom) /\ fetch = <<>>
    /\ pc' = "done"
    /\ UNCHANGED <<allowed, queue, visited, results, failures, fetch, links, skipped, asked>>

-----------------------------------------------------------------------------

\* Mutant of Vetted: the addresses the host resolves to are not looked at.
VettedByForm(url, safe) ==
    IF url \in Foreign \cup Assets THEN "none"
    ELSE IF url \in BadPort THEN "raised"
    ELSE IF url \in Refused THEN "none"
    ELSE "get"

\* Where _fetch is after the checks of one hop; safe is what the DNS said.
Vetted(url, safe) ==
    IF url \in Foreign \cup Assets THEN "none"
    ELSE IF url \in BadPort THEN "raised"
    ELSE IF url \in Refused \/ ~safe THEN "none"
    ELSE "get"

Check(i) ==
    /\ pc = "fetch" /\ fetch[i].st = "check"
    /\ \E safe \in BOOLEAN : LET st == Vetted(fetch[i].at, safe) IN
          fetch' = [fetch EXCEPT ![i].st = st, ![i].safe = safe /\ st = "get"]
    /\ UNCHANGED <<pc, allowed, queue, visited, results, failures, links, skipped, asked>>

\* Mutants of Redirected: the client follows the redirect itself; the loop has
\* no bound; a page that redirects is asked for anew.
RedirectedByClient(f, location) ==
    IF f.hop = MaxRedirects THEN [f EXCEPT !.st = "failure", !.safe = FALSE]
    ELSE [f EXCEPT !.st = "get", !.at = location, !.hop = @ + 1, !.safe = FALSE]
RedirectedUncapped(f, location) ==
    [f EXCEPT !.st = "check", !.at = location, !.hop = @ + 1, !.safe = FALSE]
RedirectedForever(f, location) ==
    [f EXCEPT !.st = "check", !.at = location, !.safe = FALSE]

\* A redirect is the next turn of the loop, while the loop has one.
Redirected(f, location) ==
    IF f.hop = MaxRedirects THEN [f EXCEPT !.st = "failure", !.safe = FALSE]
    ELSE [f EXCEPT !.st = "check", !.at = location, !.hop = @ + 1, !.safe = FALSE]

(***************************************************************************)
(* The GET of one hop: an HTML body; a redirect; a failure (a status other *)
(* than 200, a redirect without a Location, a body over the size limit, a  *)
(* timeout, a transport error); or nothing (another content type, a        *)
(* Location urljoin cannot join).  httpx.InvalidURL is not caught.         *)
(***************************************************************************)
Get(i) ==
    /\ pc = "fetch" /\ fetch[i].st = "get"
    /\ IF fetch[i].at \in Malformed
       THEN fetch' = [fetch EXCEPT ![i].st = "raised", ![i].safe = FALSE] /\ UNCHANGED asked
       ELSE /\ asked' = asked \cup {[url |-> fetch[i].at, safe |-> fetch[i].safe]}
            /\ \/ \E location \in Locations :
                     fetch' = [fetch EXCEPT ![i] = Redirected(fetch[i], location)]
               \/ \E st \in {"failure", "none"} :
                     fetch' = [fetch EXCEPT ![i].st = st, ![i].safe = FALSE]
               \/ \E doc \in Docs :
                     fetch' = [fetch EXCEPT ![i].st = "result", ![i].safe = FALSE,
                                            ![i].links = doc]
    /\ UNCHANGED <<pc, allowed, queue, visited, results, failures, links, skipped>>

(***************************************************************************)
(* gather re-raises the first exception of a fetch: crawl() is left with   *)
(* it, and the other fetches of the batch are of no use to anyone.         *)
(***************************************************************************)
Raise ==
    /\ pc = "fetch" /\ \E i \in DOMAIN fetch : fetch[i].st = "raised"
    /\ pc' = "raised"
    /\ UNCHANGED <<allowed, queue, visited, results, failures, fetch, links, skipped, asked>>

-----------------------------------------------------------------------------

\* gather returns when every fetch has: the outcomes are taken in order.
Gathered ==
    /\ pc = "fetch" /\ \A i \in DOMAIN fetch : fetch[i].st \in Ended
    /\ pc' = "collect"
    /\ UNCHANGED <<allowed, queue, visited, results, failures, fetch, links, skipped, asked>>

TakeItem == LET item == Head(fetch) IN
    /\ pc = "collect" /\ links = <<>> /\ fetch # <<>>
    /\ fetch' = Tail(fetch)
    /\ \/ /\ item.st = "none"
          /\ skipped' = skipped \cup {item.asked}
          /\ UNCHANGED <<results, failures, links>>
       \/ /\ item.st = "failure"
          /\ failures' = Append(failures, item.asked)
          /\ UNCHANGED <<results, links, skipped>>
       \/ /\ item.st = "result"
          /\ results' = Append(results, [asked |-> item.asked, url |-> item.at,
                                         links |-> Elements(item.links)])
          /\ links' = item.links
          /\ UNCHANGED <<failures, skipped>>
    /\ UNCHANGED <<pc, allowed, queue, visited, asked>>

\* Mutants of Rest: the first link that is known ends the loop over the links.
RestUntilKnown == IF Head(links) \in visited THEN <<>> ELSE Tail(links)
Rest == Tail(links)

\* Mutant of Known: a link is compared with what was fetched, not with what was queued.
KnownAsFetched(link) == \E get \in asked : get.url = link
Known(link) == link \in visited

TakeLink ==
    /\ pc = "collect" /\ links # <<>>
    /\ links' = Rest
    /\ \/ Known(Head(links)) /\ UNCHANGED <<visited, queue>>
       \/ /\ ~Known(Head(links))
          /\ visited' = visited \cup {Head(links)}
          /\ queue' = Append(queue, Head(links))
    /\ UNCHANGED <<pc, allowed, results, failures, fetch, skipped, asked>>

Collected ==
    /\ pc = "collect" /\ links = <<>> /\ fetch = <<>>
    /\ pc' = "fill"
    /\ UNCHANGED <<allowed, queue, visited, results, failures, fetch, links, skipped, asked>>

-----------------------------------------------------------------------------

\* normalize_url returns a URL for every submitted URL that passed assert_url_safe.
Init ==
    /\ pc = "robots"
    /\ \E seed \in Seeds : /\ queue = <<seed>> /\ visited = {seed}
                         /\ allowed = Linkable \cup {seed}
    /\ results = <<>> /\ failures = <<>>
    /\ fetch = <<>> /\ links = <<>>
    /\ skipped = {} /\ asked = {}

Next ==
    \/ LoadRobots \/ Pop \/ Gather \/ Finish
    \/ Raise \/ Gathered \/ TakeItem \/ TakeLink \/ Collected
    \/ \E i \in DOMAIN fetch : Check(i) \/ Get(i)

Spec == Init /\ [][Next]_vars

(* The DNS and the HTTP client answer or time out; the rest is the event loop. *)
FairSpec == Spec /\ WF_vars(Next)

-----------------------------------------------------------------------------
(* Properties.                                                             *)

Fetches == [asked: Queueable, st: {"check", "get", "raised"} \cup Ended,
            at: Locations, hop: 0 .. MaxRedirects, safe: BOOLEAN, links: Seq(Linkable)]

TypeOK ==
    /\ pc \in {"robots", "fill", "fetch", "collect", "done", "raised"}
    /\ allowed \in SUBSET Queueable
    /\ queue \in Seq(Queueable)
    /\ visited \in SUBSET Queueable
    /\ results \in Seq([asked: Queueable, url: Locations, links: SUBSET Linkable])
    /\ failures \in Seq(Queueable)
    /\ fetch \in Seq(Fetches)
    /\ links \in Seq(Linkable)
    /\ skipped \in SUBSET Queueable
    /\ asked \in SUBSET [url: Locations, safe: BOOLEAN]

(***************************************************************************)
(* README.md:14, "up to 20 pages per audit": the limit holds with a batch  *)
(* in flight, when every fetch of it may still become a page.              *)
(***************************************************************************)
WithinLimit == Len(results) + Len(fetch) <= Limit

(***************************************************************************)
(* README.md:17, "SSRF protection ... on every redirect hop": whatever a   *)
(* redirect points to, a GET is only sent to an in-scope URL without an    *)
(* asset's extension whose form assert_url_safe accepts, and only when the *)
(* DNS, asked on that very hop, had found its host safe.                   *)
(***************************************************************************)
RequestsAreVetted == \A get \in asked : get.url \in Pages /\ get.safe

AskedIn(s)  == {s[i].asked : i \in DOMAIN s}

(***************************************************************************)
(* Every URL that was ever queued is in one place exactly: still queued,   *)
(* being fetched, a result, a failure, or dropped.  No page is fetched     *)
(* twice, reported both as reached and unreachable, or lost.               *)
(***************************************************************************)
EachUrlOnce ==
    /\ visited = Elements(queue) \cup AskedIn(fetch) \cup AskedIn(results)
                 \cup Elements(failures) \cup skipped
    /\ Cardinality(visited) = Len(queue) + Len(fetch) + Len(results)
                 + Len(failures) + Cardinality(skipped)

(***************************************************************************)
(* A crawl that ends below its limit has followed every link of every page *)
(* it reports: what is not reported was refused, failed or skipped.        *)
(***************************************************************************)
FrontierExhausted ==
    pc = "done" /\ Len(results) < Limit =>
        \A i \in DOMAIN results : \A u \in results[i].links :
            u \in skipped \cup AskedIn(results) \cup Elements(failures)

(***************************************************************************)
(* robots.txt is honoured for every URL the crawler chose itself.          *)
(***************************************************************************)
RobotsHonoured == AskedIn(fetch) \cup AskedIn(results) \cup Elements(failures) \subseteq allowed

(***************************************************************************)
(* The crawl ends on every site, whatever cycles its links and redirects   *)
(* make.                                                                   *)
(***************************************************************************)
CrawlEnds == <>(pc \in {"done", "raised"})

(***************************************************************************)
(* crawler.py:226-228 answers an exception for an "Invalid URL" by         *)
(* skipping it, and _fetch is to return None or a FetchFailure for a URL   *)
(* it cannot fetch: no link or redirect of one page ends the crawl of the  *)
(* others.                                                                 *)
(***************************************************************************)
OneUrlNeverEndsTheCrawl == pc # "raised"
=============================================================================
