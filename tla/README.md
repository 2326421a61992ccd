# Formal models of marrai-backend

TLA+ models of the Marrai AEO audit service: a FastAPI process accepts a URL,
stores a job in PostgreSQL and publishes a Celery task through Redis; a worker
crawls the site, scores its pages, stores the result and may send a mail; the
client polls the job. TLC checks the models on small instances; TLAPS proves every
safety invariant, every action property and both refinements of the passing runs
for every value of the constants. Liveness is model-checked.

    tlc -config jobs_allfaults.cfg MCAuditJobs     # model-check one run
    tlapm AuditJobs_proofs.tla                     # check one proof module

`PROJECT.json` lists the runs, the source lines behind every definition, the
hazards of the code with the properties that cover them, a mutation of the model
for every property, the disagreements found and the theorems.

## 1. The system

| Component | State it keeps | Operations | Talks to |
|---|---|---|---|
| audit API, `app/api/routes/audit.py` | none between requests; where each handler is | POST (check URL, insert, publish), GET | limiter, URL check, database, broker |
| rate limiter, `app/api/dependencies.py` | one Redis counter with a TTL per client | INCR, EXPIRE, TTL | Redis |
| jobs table, `app/database.py`, `app/models/jobs.py` | status, result, error_message, completed_at of each job | INSERT, unguarded UPDATE, SELECT | API and workers |
| broker (Redis, external) | queued messages | publish, deliver, lose | API, workers |
| audit task, `app/worker/tasks.py`, `celery_app.py` | where the run is, its pool | accept, phase updates, mark failure, close | everything below |
| orchestrator, `app/core/orchestrator.py` | none | check seed, CRAWLING, crawl, SCORING, score | status callback, crawler, parser, scorers |
| crawler, `app/core/crawler.py` | queue, visited, results, failures, batch in flight | crawl, `_fetch`, `_load_robots` | URL check, the site, `normalize_url` |
| URL check, `app/core/security.py` | none | assert_url_safe | DNS |
| parser, `app/core/parser.py` | the parsed tree it modifies while reading | parse | orchestrator |
| scorer, `app/core/scorer.py` | none | score_page, score_site | orchestrator |
| semantic scorer, chunker, embedder | a loaded model | score_semantic | orchestrator |
| reporter, `app/core/reporter.py` | none | generate_report | GET |
| mailer, `app/services/emailer.py` | none | send_audit_complete_mail | Resend |
| boot and health, `main.py` | the API's pool and Redis client | lifespan, `/health`, `/ready` | database, Redis |
| configuration, logging, migrations, containers | settings | read at start | all |

What is hard in it, component by component, and what correct means:

* **Jobs.** API, broker, worker and table share no transaction. A crash or a lost
  reply between any two statements leaves the row behind; the task is acknowledged
  before it runs and nothing retries or reaps it; the soft time limit is an
  exception in whatever frame is running; no UPDATE looks at the status it
  replaces. Correct: the report agrees with itself, moves forward, is never lost
  without a cause, and ends, with one run per job.
* **API process.** The pool is opened once per boot and a failure is swallowed; the
  publish blocks the event loop; requests outlive the boot their job was made in.
  Correct: `/ready` tells the truth about a boot, a job that was handed out is found,
  every request ends, and no boot or crash does to a job what `AuditJobs` does not know.
* **Limiter.** INCR, EXPIRE and TTL are three commands, handlers overlap, keys
  vanish by themselves, and every Redis error lets the request through. Correct:
  the quota holds within a window under every interleaving and windows close.
* **Crawler.** A batch is fetched concurrently while the limit, the queue and the
  visited set are only updated after it; redirects change the URL under the fetch;
  an exception of one fetch leaves the whole crawl. Correct: limit, vetting of
  every hop, each URL accounted for once, termination.
* **URLs.** What is compared and queued is a rewritten URL, checked in the form it had
  before. Correct: the rewritten form is in scope, safe, and its own normal form.
* **Parser.** Sequential, but the first extraction destroys parts of the tree the others
  read. Correct: what the scorer hears of a page is what stands in a known part of it.
* **Scorer.** Sequential, with dozens of thresholds in two roles: points and advice.
  Correct: 0-100 always, advice that pays and runs out, and a site's figures that
  agree with its pages'.
* **Deployment.** Start conditions and a migrator that runs once. Correct: the stack comes up.

## 2. Modules

| Module | What it is |
|---|---|
| `JobLifecycle` | abstract: what a job promises to the client that polls it |
| `AuditJobs` | API handler, table, broker, workers, orchestrator phases, mailer, report; implements `JobLifecycle` |
| `ApiProcess` | boot, pool, Redis client, POST, GET and `/ready` of one process; its POSTs implement `AuditJobs` |
| `RateLimiter` | `rate_limit_check` and `resolve_client_ip` over a Redis key with a TTL |
| `Crawler` | `Crawler.crawl` with robots.txt, batches, redirect loops, collection |
| `UrlNormal` | `normalize_url` and the checks a URL passes later, as operators |
| `Lists` | sums, orders and selections of lists, shared by the next two |
| `PageParser` | `parse` and `chunk` on a tree of nodes, as operators; extends `UrlNormal` |
| `PageScore` | `score_page` and its advice, as operators |
| `Scorer` | a page owner who follows the advice of `PageScore` |
| `SiteAudit` | `orchestrate` after the crawl: `PageParser` and `PageScore` over the pages, `score_site`, the semantic scores, the report |
| `Deployment` | the containers of both compose files and the migration |
| `*_proofs` | theorems and proofs of the module of that name (`SiteAudit_proofs` also those of `UrlNormal`, `PageScore_proofs` also the facts about `Lists`) |
| `MC*` | what TLC needs: a symmetry set, environments, pages |

How they fit together:

    JobLifecycle <--implements-- AuditJobs <--implements-- ApiProcess
                                  | Crawl: Crawler          | Limit: RateLimiter
                                  | Score: SiteAudit = PageParser (UrlNormal) + PageScore

`RateLimiter`, `Crawler` and `SiteAudit` refine one step of a larger module each, and the
larger module allows every outcome they have: `Limit` of `ApiProcess` may refuse or let through,
`Crawl` and `Score` of `AuditJobs` may end in each way the inner module ends.

### AuditJobs

`api[j]` is the program counter of the POST handler of job `j`; `row[j]` the
columns a client can see; `queue` the messages no worker has accepted; `proc[w]`
the run in worker `w` with its program counter, the error it is about to store,
what its crawl found and whether its soft limit has fired. `accepted`, `mailed`
and `causes` are history: they guard nothing and only serve properties.

Every `await` of `_run_audit_async` is one step: `PoolReady`/`PoolFails` for
`create_pool`, `Write`/`WriteFails` for each `_update_job_status` (the phase
updates, SUCCESS, and the one in `_mark_failure`), `CheckSeed`, `Crawl`, `Score`,
`Email`, `Close`. `WriteFails` may or may not have changed the row, because a
reply can be lost after the commit. `Updated` has no guard on the old status and
clears no column, as the SQL does.

The constant `Faults` names the failures the environment may inject: a failing
statement, an ambiguous one, a failing publish (with the message queued or not), a
broker that forgets, a doubled publish, a dying API process, a killed worker, and
the soft time limit. The soft limit has three forms, after where the signal's
exception lands: in a frame of the coroutine (`SoftRaised`), in the event loop
waiting for a socket, where `asyncio.run` cancels the task and `CancelledError`
passes every `except Exception` (`SoftCancelled`), or in one of the broad handlers
of the crawler, the parser or the mailer (`SoftSwallowed`).

### ApiProcess

`life` is where the process is between two starts: off, the two steps of `lifespan` before
`yield`, serving, draining, and the two after it. `pool` and `client` are the two module
globals, `config` the environment a start was given. `Connect` never fails: what `connect`
raises is swallowed, so a database that is down or a URL of another scheme gives a boot without
a pool. A handler's step is what runs between two awaits; while one is in `delay`, the blocking
publish, `LoopFree` holds back all the others. `Outage` lets PostgreSQL and Redis come and go
at any time. `owed`, `wasReady` and `poolLess` are history.

The mapping to `AuditJobs` is stated at the end of the module: a POST that is limited, checked or
dropped by a crash before its INSERT has not begun there, a doubled step of the process (`StartDelay`)
stutters, and a row without its message is a publish that failed.

### RateLimiter

`pc[r]` follows request `r` through `rate_limit_check`; `key[c]` is the counter of
client `c` and its TTL in ticks, `Forever` when EXPIRE has not been applied. `Tick`
ages every key and drops the one whose TTL ends. `RedisError` may strike before or
after the command took effect. `slot`, `age`, `live` and `unsafe` are history (the
count INCR returned, the time since, the requests of the key's present life, the
clients whose EXPIRE was lost). A request with the wrong proxy secret is refused with 403, or
with 500 when `compare_digest` raises on a header that is not ASCII; `Limit` of `ApiProcess`
has both.

### Crawler

A URL is a model value in a class that says how the checks treat it: `Pages`, `Assets`, `Foreign`,
`Refused` (by scheme, port or credentials), `BadPort` (a port `urlparse` cannot read) and
`Malformed` (httpx refuses it). What the DNS, robots.txt and the site answer is free at every
request. `Seeds` is what may come of the submitted URL: a page, an asset, or, for one addressed by
an IPv6 literal, a URL out of scope, because `normalize_url` drops the brackets. A turn of a loop
of the code is a step: `Pop` fills the batch, `Check(i)` and `Get(i)` are the two awaits of a hop
of fetch `i` and interleave with those of the other fetches, `TakeItem` and `TakeLink` are the
turns of the two collecting loops. A redirect is a new turn of the fetch's loop with the `Location`
as its URL; a link is normalised first, so only in-scope URLs come out of it, among them those
whose path httpx refuses (`Linkable`; `UrlNormal` justifies the rest). `Raise` is `gather`
re-raising the first exception. `asked` is history: the GETs sent, each with what the DNS had said
on its hop; the fetch carries that verdict (`safe`) from its check to its GET, and a redirect
clears it. The semaphore is left out: a batch never exceeds its value.

### UrlNormal and PageParser

A URL is a record of the parts `urlparse` tells apart, a path a name with its letter case and its
trailing slashes. `HostOf` and `PortOf` read an IPv6 address without brackets as `urlparse` does.

A page is the sequence of its nodes in document order; node `i` knows the last node below it.
`Gone` is what `_extract_body_text` decomposes, `Left` the rest; each extraction of `parse` is an
operator on `Left`. A text is its words and whether white space stands around them: the body's words
are those of its texts (`get_text(separator=" ")`), while `.text` joins a heading's without a separator,
so that two words may become one (`JoinedLength`). A title or meta content may be missing or
merely blank (`given`). `CrawlerLinks` is the crawler's own reading of the links, on the whole tree.
JSON-LD is what the code takes from it: whether it is valid, its types, and the FAQ entries with the
kind of value in each place. `IsDocument` says which trees there are.

### PageScore and Scorer

`page` holds the numbers `score_page` reads from a parsed page, and whether it has a title and a
description at all: a blank one is too short, not missing. `IsPage` says which there are. Every metric is an
operator with the code's thresholds and its rounding (`Round` is Python's `round`,
halves to even). `Weighted` is the overall score in hundredths before the final
`round`: on an exact tie the code's float sum goes either way, so `SiteAudit` allows both.
The actions of `Scorer` are the smallest edits that follow a recommendation, each under the
condition that makes the code give it. Sums, orders and selections come from `Lists`, where they
are functions and sets: a fold or `SelectSeq` takes an operator, and nothing could be proved of it.

### SiteAudit

`crawl` is what the crawler returned; `parsed`, `scored` and `semantic` are the three lists that
`orchestrate` fills page by page, `report` the `OrchestrationResult`. `Measured` is the bridge: the
numbers of `PageScore` from the lists of `PageParser` (a directive or type the tables of
`scorer.py` do not know is worth 0 there, and is left out here). An embedding is any similarity, negative ones
included, or an exception.

### Deployment

One container per service with the conditions of its `depends_on`; `Topology` chooses the compose
file. `Upgrade` and `UpgradeFails` are the two outcomes of `alembic upgrade head`, decided by
whether the setting `env.py` reads exists.

## 3. What is checked

| Run | Instance | Properties |
|---|---|---|
| `jobs_allfaults` | 1 job, 2 workers, all 8 faults, fair | `TypeOK CoherentReport PhaseMatchesRow StrandedHasCause MailMeansReport NeverBackwards JobSettles SlotsRecover` |
| `jobs_contract` | 2 jobs, 2 workers, 5 faults | `AtMostOneRun RefinesLifecycle` |
| `api_process` | 1 POST, 1 GET, 1 `/ready`, 4 environments, 2 boots, fair | `TypeOK ReadyIsHonest ReadsYourWrites EveryRequestAnswered RefinesAuditJobs` |
| `limiter_window` | 4 requests, 1 client, limit 2, window 2, fair | `TypeOK Quota Burst KeyWillExpire WindowCloses` |
| `crawler_site` | 3 pages, one URL of every other class but assets, 2 seeds (a page, out of scope), limit 3, batches of 2, 1 redirect, 2 links per page, fair | `TypeOK WithinLimit RequestsAreVetted EachUrlOnce FrontierExhausted RobotsHonoured CrawlEnds` |
| `scorer_pages` | 4,251 pages around every threshold, fair | `TypeOK ScoresInRange UnadvisedIsGood AdviceIsExact AdvicePays AdviceSettles` |
| `site_audit` | crawls of up to 2 of 7 pages and a failure, also a redirected site, 4 similarities | `TypeOK SchemaSeen OnlyFaqsRaise EveryPageReported SiteBetweenPages TopFive LinksAgree` |
| `jobs_robots`, `limiter_lockout`, `crawler_redirect`, `semantic_range`, `deployment` | smallest that shows it | one property each, violated (section 5) |

What they show:

* **`jobs_allfaults`.** One job is enough for the safety of a row, since rows do not
  interact, and two workers let a doubled publish run twice at once. Several
  properties say `SoleRun(j) =>`: with two runs of one job the unguarded updates
  do break coherence, so this is the exact condition. `CoherentReport`: a success has a
  result and no message, a failure a message, a phase neither. `PhaseMatchesRow`: no
  exception or signal leaves the run ahead of or behind the phase the client sees.
  `StrandedHasCause`: an unfinished row with no handler, message or worker left
  always traces to one of six losses. `MailMeansReport`: who is told "your audit is
  ready" can read it, even when the row is later overwritten to FAILURE.
  `NeverBackwards`: statuses move forward. `JobSettles`: every row reaches a final status and
  keeps it, or has a recorded loss. `SlotsRecover`: a worker is always given back.
* **`jobs_contract`.** Without ambiguous statements, soft limits and doubled publishes
  the reports implement `JobLifecycle`, with `view` mapped to `Report(row)`. The three
  faults left out really break it: an ambiguous SUCCESS, or the soft limit in the
  mail step, turns SUCCESS into FAILURE; an ambiguous INSERT is an early phase change
  nobody asked for. `AtMostOneRun` is the promise of `celery_app.py:22`.
* **`api_process`.** One request of each kind is enough for the pairs that matter: a GET after its
  POST, a `/ready` before or after a failing request, a handler held back by a publish; two boots
  put a restart between any two of them. `ReadyIsHonest` relates every `/ready` of a boot to every
  request of it, whatever happens to the database in between: the pool neither opens late nor is
  lost while a handler runs. `ReadsYourWrites`: a `job_id` in a client's hand is never a 404.
* **`limiter_window`.** With limit 2 and four requests TLC reaches a full window, its end and the
  second window up to the bound of `Burst`, `2 * MaxRequests - 1` requests within one window's
  length: the request that opened the first window is a whole window old when that window ends.
  A fourth request within that length would violate it. `Quota` is per life of a key. Requests that pass
  because Redis failed ("fail open") are not counted, as the code intends. `WindowCloses`: a client
  over the limit gets a new window unless its EXPIRE was lost.
* **`crawler_site`.** The bounds let a page link to itself, to both others and to a URL the client
  refuses, redirect to any class of URL, and fill the limit with a batch in flight; with limit 3
  and batches of 2 the second batch is cut short by the limit. An asset is left out of the instance: to the
  crawl it is a link that yields nothing, like a page whose host the DNS calls unsafe.
  `RequestsAreVetted`: on every hop, a GET only goes to a page whose host the DNS, asked on that very
  hop, found safe: neither a redirect nor an earlier verdict stands in for the check. `EachUrlOnce` and
  `FrontierExhausted` are the bookkeeping; `CrawlEnds` the termination on cyclic links and redirects.
* **`scorer_pages`.** `ScoresInRange` is the 0-100 of `README.md:70` for the five categories computed
  by rule (the sixth is `semantic_range`). From every page around the thresholds of one category, the others
  at the values that only just avoid advice, all ways to follow the advice. `AdviceIsExact`: no
  recommendation is given exactly to the pages inside every window, and none is given twice: the
  bands of the advice have no gap. `AdvicePays`: no edit without a recommendation, and none
  lowers the score but a cut of FAQ answers below 24 words (section 5). `AdviceSettles`: no recommendation without an edit, and they
  run out. `UnadvisedIsGood` bounds the score of a page without advice
  from below by 77: in the "good" band, not always in "strong".
* **`site_audit`.** The seven pages are the situations in which the order of the parser matters:
  nothing but what every page has, JSON-LD in head and in body, `main` beside `nav` and `header`,
  links only in navigation, advertising, a malformed FAQ where it is read and where it is not, and an
  empty document. `SchemaSeen`: exactly the JSON-LD outside the container counts. `OnlyFaqsRaise`: only
  a malformed FAQ that is read ends the audit. `EveryPageReported`: the four lists of a report
  account for the crawl. `SiteBetweenPages` and `TopFive`: a site's figures stay between its pages',
  its semantic clarity between its sections', through two roundings, and its recommendations are its most
  frequent; that the semantic figures lie in 0-100 is not claimed (section 5). `LinksAgree`: parser,
  crawler, scope and safety check agree on a link, and "no internal links" is only said of a page
  whose links are all in decomposed parts.

Deadlock is checked in the job, process and limiter runs (`Finished` is the step of a job system
with nothing left to do; time always ticks in the limiter; outages come and go). It is not in
the others, which end.

### Fairness

* `AuditJobs`: weak fairness of each handler past the URL check, of each worker's own
  steps, and of a worker taking a queued message. Each await has a timeout or the hard
  limit behind it, the event loop runs every ready task, Celery prefetches whenever a
  process is free. No client has to send a request, no fault or signal has to happen.
* `ApiProcess`: weak fairness of each handler: the event loop runs what is ready, and every await
  ends, as the drivers and the broker's client give up in the end. asyncpg's statements have no
  timeout of their own, so for a database that accepts a statement and never answers this is the
  TCP stack's doing. No start, stop or crash has to happen.
* `RateLimiter`: time passes; a Redis command returns or raises.
* `Crawler`: some step is taken while one is possible: each await ends by an answer or a
  timeout. (A site that sends a body slowly, chunk by chunk, is bounded by the task's
  limits only: see the hazard on `CRAWL_TOTAL_TIMEOUT`.)
* `Scorer`: the owner keeps following advice.
* `Deployment`: compose starts what it may, and a running container gets on.

## 4. What is proved

All proofs hold for every value of the constants, under the named `ASSUME`s of each module
(the faults are known ones, the limits positive naturals as `config.py` validates them, the
null values are not members of the sets they stand beside, a submitted URL is normalised to a page, an
asset or a URL out of scope, a crawl's pages are trees at URLs of a host that is no IPv6 literal, an audited
page is one a parser may produce, a draft is no longer than the window of good lengths is wide,
similarities lie between -1 and 1).

**`AuditJobs_proofs`.** `TypeCorrect`, `ReportsCohere`, `PhasesMatch`, `StrandedIsExplained`,
`MailIsHonest`, `StatusesAdvance`, and `RunsAtMostOnce` under `"duplicate" \notin Faults`. None
of the properties is inductive. `Inv` adds: what each process state allows (`ProcOK`), that a
message is queued, held by at most one worker, or accepted and gone (`Delivery`), that its job is
inserted and its handler through (`Placed`), that a second copy exists only with the first
(`FirstCopies`), that a job nobody has accepted still has its inserted row (`Fresh`), and that a job
whose worker is gone is final or has a cause (`WorkedOn`). The argument: with a sole run, only its
worker writes the row, and the row written last is a function of that worker's program counter. The
dozen actions of a worker and its signals are first reduced to one shape (`WorkShape`,
`InterruptShape`, `NextIsStep`): the worker goes on, fails, closes or leaves, and the row is written
or not. Each part of `Inv` then has one preservation lemma over that shape and the steps of the API,
the broker and `Accept`.

**`JobLifecycle_proofs`.** `ReportsKeepThePromise`: without the three faults of `jobs_contract`'s
description, `AuditJobs` implements `JobLifecycle`. One more invariant is needed, `FailureUnfinished`
(a run that is about to store a failure has a row in a phase); then every step that writes a row
maps to the abstract step of that row, and every other one stutters.

**`ApiProcess_proofs`.** `TypeCorrect`, `ReadinessIsHonest`, `GivenIdsAreFound`, and
`ProcessImplementsAuditJobs`. The invariant says that a handler only runs while the process serves or
drains (`HandlersOK`), that the pool a probe or a request saw is the pool of the whole boot
(`PoolOK`), which row and message each state of a POST allows (`PostOK`), and that a GET that is
owed its job asks for one with a row (`OwedOK`). The refinement reduces all handler steps to one
shape (`HandleIsStep`) and maps that.

**`RateLimiter_proofs`.** `TypeCorrect`, `QuotaHolds`, `KeysExpire`, `BurstHolds`. The invariant
behind the quota: the slots of the requests counted in a key's present life are distinct and at most the
counter (`SlotOK`, `LiveOK`), so the ones that passed map one to one into `1 .. MaxRequests`. Behind the
burst: the EXPIRE of a key comes after the request that opened it and after all of its former lives
(`ExpireOK`), so the age of those and the TTL add up to a window (`AgeOK`); when the key dies only its
later requests are young, and they map one to one into `2 .. MaxRequests` (`FormerOK`).

**`Crawler_proofs`.** `TypeCorrect`, `LimitHolds`, `OnlyVettedRequests`, `RobotsObeyed`,
`FrontierIsExhausted`, `EveryUrlOnce`. `HopsVetted` says a fetch about to send a GET is at a page that the
DNS found safe on this hop, or at a URL the client refuses to request; `NothingLost` that every visited URL is queued, in the batch, a
result, a failure or skipped; `LinksFollowed` that every link of a result is visited or
still among the links being looked at; `Apart` that queue and batch never repeat
a URL nor hold a skipped one, and `AddUp` that the sizes of the five places add up to that of
`visited`; with `NothingLost` they are then pairwise different.

**`PageScore_proofs`.** `ScoresOfAnyPage`: every category of every page scores 0 to 100, the
weighted sum 0 to 10,000. First come the facts about `Lists` that the next modules rest on. They are
inductions over lists, done without an induction theorem: a set of naturals that is not empty has a
least member (`LeastExists`), and the least counterexample contradicts the equation at its
predecessor (`UpTo`). So a total lies between the length times the bounds of the items and
changes with one item (`TotalBetween`, `TotalChange`, `TotalLonger`, `TotalWithout`), a flattened list
is its parts (`FlattenParts`), a strict total order of a finite set ranks it (`RankedIs`), and a selection
keeps the order (`InOrderIs`, `PickedIs`). Then rounding: `Round` is a nearest integer
(`RoundIs`), monotone, and stays between integers (`RoundBetween`); then the range and the advice of
each metric.

**`Scorer_proofs`.** `TypeCorrect`: `TypeOK` is inductive; the hard part is an edit of the FAQ, whose
answers are divided and rounded. `ScoresStayInRange`. `UnadvisedAreGood`: the least score of each
category within its windows. `AdviceMeetsWindows`: each category's advice is empty exactly within its
windows and has no string twice, and the categories share none. `FollowingPays`: an edit disturbs one
or two metrics (`OtherGrows`); a length that moves toward its window never loses points
(`WindowToward`), for a share, an average and a sum of directives this takes the lemmas above. The
FAQ is the delicate case: what a new item gains makes up for the rounding of the average. Long answers
earn 10 points, and any average from 24 words on rounds to as many (`AnswersPay`).

**`SiteAudit_proofs`.** `InvIsInvariant`: the inductive invariant says of each list of the run what
it holds, page by page: `ParsedInv` (entry `k` is `Parsed` of page `k`, which does not break the
parser), `ScoredInv`, `SemanticInv` (the alignments are those of the first pages with a chunk) and
`ReportInv` (the report is `Result` when the audit is done). `TypeOK` needs of it that what `Measured`
reads is an `IsPage` (`MeasuredIsPage`), hence scores 0 to 100. From `Inv` follow `TypeCorrect`,
`FaqsAloneRaise` (the entries of the scripts that are read, flattened, are those of each),
`ReportIsComplete`, `SiteScoreIsBetween` (a mean is between the least and the greatest, through both
roundings), `RecommendationsAreTop` (`Ahead` orders the recommendations strictly and totally, so
ranking them puts the most frequent first), `ScorerHearsOutside` by `JsonOutsideIsSeen` (scripts are
decomposed exactly below the container, for every tree), and `ParserAndCrawlerAgree` by the theorems
about `normalize_url`. Those are `NormalIsSafe` and `NormalIsSettled`: for a site that is not
addressed by an IPv6 literal, a normalised link is in scope, passes the checks before the DNS, and
is its own normal form; and `LiteralLeavesScope`: for one that is, no normalised URL is in scope or safe,
neither a link nor the submitted URL itself, so that nothing of such a site is crawled.

Only model-checked: the six liveness properties `JobSettles`, `SlotsRecover`, `EveryRequestAnswered`,
`WindowCloses`, `CrawlEnds` and `AdviceSettles`. Liveness under fairness is not in the prover's reach;
each is checked on its run's instance. The violated properties of section 5 are counterexamples.

## 5. Where code and text disagree

* `jobs_robots`: the message for a site blocked by robots.txt (`tasks.py:89-92`) is never used;
  such a site is reported as unreachable, because `pages_crawled == 0` is tested first.
* `limiter_lockout`: one Redis error between INCR and EXPIRE limits a client for ever,
  although "if Redis is briefly unavailable the audit should still work"
  (`dependencies.py:82-83`).
* `crawler_redirect`: a redirect to a URL with an unreadable port raises `ValueError` out of
  `assert_url_safe`, which `_fetch` does not catch there, and ends the whole audit. A link or redirect whose
  path httpx refuses (`InvalidURL`, which is no `ValueError`) does the same.
* `semantic_range`: "Overall and per-category scores are 0-100" (`README.md:70`), and "Semantic clarity"
  is a category (`README.md:68`); its score is a cosine times 100 (`semantic_scorer.py:45`), which nothing
  keeps from being negative, and so is the site's.
* `deployment`: `alembic/env.py:16` reads `settings.DATABASE_URL_SYNC`, which `Settings` does not
  have, so the migrator fails and compose starts neither API nor worker, although "This starts the
  API, Celery worker, PostgreSQL, Redis, and the Alembic migrator" (`README.md:102`).

Met on the way, without a run of its own: `main.py:20-22` speaks of "the next successful connect", but
nothing in a boot connects again (`ApiProcess` has one `Connect` per boot); following "Keep FAQ answers
concise (10-50 words)" (`scorer.py:538`) lowers the score when they are cut below 24 words
(`AdvicePays` says so: without the exception, or with 23, it is violated); a site addressed by an
IPv6 literal is accepted and never crawled: the normalised form of its own URL is out of scope
(`LiteralLeavesScope`), and it is reported as unreachable; a page that redirects can
be reported under a URL that robots.txt refuses, or twice.

## 6. What is not modelled

* The embedding model: its similarities are free. The text and HTML of the mail, the JSON of stored
  reports, `findings` (worded like the recommendations, by the same thresholds), logging, the SQL of
  the migrations, the image.
* BeautifulSoup's parsing of broken markup: a page is the tree it makes of it. The address
  classes of `security.py`: the DNS answers freely "public" or not.
* A Redis that restarts and forgets the limiter's counters (compose gives it no volume): `Quota` and
  `Burst` hold within one life of Redis.
* Real time: timeouts are free choices. `CRAWL_TOTAL_TIMEOUT` is not used by the code.
* Several API processes: each has its own pool; what they share is in `AuditJobs` and `RateLimiter`.

## 7. Order of the work

Built in this order: the job core (`JobLifecycle`, `AuditJobs`), the limiter, the crawler, the scorer;
then the refinement proof of `JobLifecycle`, `EachUrlOnce`, `UrlNormal`, `PageParser` with `SiteAudit`,
`ApiProcess` and its refinement, `Deployment`, and the proof of `Burst`; then `Lists`, which restates
the sums and selections of the scorer and the parser as functions, and the proofs of `Scorer` and
`SiteAudit`. What would be worth adding: the address classes of `security.py`, an `AuditJobs` with
several API processes, and a variant function for each liveness property (a measure that every
fair step lowers), whose safety part could be proved.
