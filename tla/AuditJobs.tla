------------------------------ MODULE AuditJobs ------------------------------
(***************************************************************************)
(* The life of an audit job across the processes that touch it: the        *)
(* FastAPI handler that inserts the row and publishes the task             *)
(* (app/api/routes/audit.py, app/database.py), the Redis broker, the       *)
(* Celery worker that runs it and rewrites the row at every phase          *)
(* (app/worker/tasks.py, app/core/orchestrator.py) and the report a client *)
(* reads back (app/core/reporter.py).  None of them shares a transaction   *)
(* with another, so every await is a step of its own here, and CONSTANT    *)
(* Faults says which of the environment's failures a run allows.           *)
(***************************************************************************)
EXTENDS Naturals

CONSTANTS
    Jobs,       \* audit requests, each a POST /api/v1/audit
    Workers,    \* processes of the Celery pool
    Faults,     \* the environment's failures that may happen
    NoMessage   \* what an idle worker holds

FaultKinds == {
    "db_error",      \* a statement or a connection fails and has no effect
    "db_ambiguous",  \* a statement commits but its reply is lost: the caller sees an error
    "broker",        \* publishing raises, with or without the message being queued
    "broker_loss",   \* Redis restarts and forgets a queued message
    "duplicate",     \* a publish that is retried queues the message twice
    "api_crash",     \* the API process dies with its in-flight handlers
    "kill",          \* a worker process dies: hard time limit, OOM, deploy
    "soft_limit" }   \* TASK_SOFT_TIME_LIMIT fires in a worker

Copies   == {1, 2}              \* how often one publish can be queued
Messages == Jobs \X Copies
JobOf(m) == m[1]

ASSUME FaultsAssumption == Faults \subseteq FaultKinds
ASSUME NoMessageAssumption == NoMessage \notin Messages

VARIABLES
    api,       \* api[j]: where the POST handler of j is
    row,       \* row[j]: the jobs row of j
    queue,     \* messages in the broker that no worker has accepted
    proc,      \* proc[w]: the task that worker w runs
    accepted,  \* history: the messages some worker accepted
    mailed,    \* history: the jobs whose completion mail was sent
    causes     \* history: causes[j], what has kept a run of j from finishing its row

vars == <<api, row, queue, proc, accepted, mailed, causes>>

-----------------------------------------------------------------------------
(* The jobs table.                                                         *)

Phases   == {"PENDING", "STARTED", "CRAWLING", "SCORING"}
Terminal == {"SUCCESS", "FAILURE"}
Statuses == Phases \cup Terminal \cup {"NONE"}

\* The user-visible messages: an unsafe seed URL, "could not be reached", and
\* GENERIC_FAILURE_MESSAGE for every other exception.
Failures == {"unsafe", "unreachable", "blocked", "generic"}

Rows == [status: Statuses, result: BOOLEAN, error: Failures \cup {"none"},
         completed: BOOLEAN]

NoRow    == [status |-> "NONE", result |-> FALSE, error |-> "none", completed |-> FALSE]
\* Mutant of Inserted: the enum's value is stored where its name is expected.
InsertedByValue == [NoRow EXCEPT !.status = "pending"]

Inserted == [NoRow EXCEPT !.status = "PENDING"]

\* Mutant of Updated: SUCCESS is announced before its result is stored.
UpdatedWithoutResult(r, s, m) ==
    [status    |-> s,
     result    |-> r.result,
     error     |-> IF s = "FAILURE" THEN m ELSE r.error,
     completed |-> r.completed \/ s \in Terminal]

(***************************************************************************)
(* UPDATE jobs SET status = s, ... WHERE job_id = ...: there is no guard   *)
(* on the old status, SUCCESS also sets result, FAILURE also sets the      *)
(* message, both set completed_at, and no column is ever cleared.          *)
(***************************************************************************)
Updated(r, s, m) ==
    [status    |-> s,
     result    |-> r.result \/ s = "SUCCESS",
     error     |-> IF s = "FAILURE" THEN m ELSE r.error,
     completed |-> r.completed \/ s \in Terminal]

(* What generate_report shows of a row.                                    *)
Report(r) == [status |-> r.status, result |-> r.result, error |-> r.error]

Rank(s) == CASE s = "NONE"     -> 0
             [] s = "PENDING"  -> 1
             [] s = "STARTED"  -> 2
             [] s = "CRAWLING" -> 3
             [] s = "SCORING"  -> 4
             [] s \in Terminal -> 5

-----------------------------------------------------------------------------
(* A worker process and the steps of _run_audit_async.                     *)

Writing == {"started", "crawling", "scoring", "success", "failure"}
Running == Writing \cup {"pool", "check", "crawl", "score", "email", "close"}
Awaiting == Writing \cup {"pool", "check", "crawl", "close"}
Crawls  == {"none", "pages", "down", "robots"}

Procs == [msg: Messages \cup {NoMessage}, pc: Running \cup {"idle"},
          soft: BOOLEAN, crawl: Crawls, error: Failures \cup {"none"}]

IdleProc == [msg |-> NoMessage, pc |-> "idle", soft |-> FALSE, crawl |-> "none",
             error |-> "none"]

\* Mutant of StatusAt: the two callbacks of orchestrate are swapped.
StatusAtSwapped(pc) == CASE pc = "started"  -> "STARTED"
                         [] pc = "crawling" -> "SCORING"
                         [] pc = "scoring"  -> "CRAWLING"
                         [] pc = "success"  -> "SUCCESS"
                         [] pc = "failure"  -> "FAILURE"

StatusAt(pc) == CASE pc = "started"  -> "STARTED"
                  [] pc = "crawling" -> "CRAWLING"
                  [] pc = "scoring"  -> "SCORING"
                  [] pc = "success"  -> "SUCCESS"
                  [] pc = "failure"  -> "FAILURE"

\* Mutant of After: the mail is sent before the result is stored.
AfterMailFirst(pc) == CASE pc = "started"  -> "check"
                        [] pc = "crawling" -> "crawl"
                        [] pc = "scoring"  -> "email"
                        [] pc = "success"  -> "close"
                        [] pc = "failure"  -> "close"

After(pc) == CASE pc = "started"  -> "check"
               [] pc = "crawling" -> "crawl"
               [] pc = "scoring"  -> "score"
               [] pc = "success"  -> "email"
               [] pc = "failure"  -> "close"

Job(w) == JobOf(proc[w].msg)

Goto(w, pc) == proc' = [proc EXCEPT ![w].pc = pc]

(* An exception reaches one of the two except clauses: _mark_failure.      *)
Fails(w, m) == proc' = [proc EXCEPT ![w].pc = "failure", ![w].error = m]

Leave(w) == proc' = [proc EXCEPT ![w] = IdleProc]

Written(w) == [row EXCEPT ![Job(w)] = Updated(@, StatusAt(proc[w].pc), proc[w].error)]

(* A statement in flight is applied or lost.                               *)
MayWrite(w) == row' = row \/ (proc[w].pc \in Writing /\ row' = Written(w))

(* A run that ends here without a terminal row leaves its cause.           *)
Blame(j, cause) ==
    causes' = IF row'[j].status \in Terminal THEN causes
              ELSE [causes EXCEPT ![j] = @ \cup {cause}]

CauseKinds == {"enqueue", "lost", "pool", "unmarked", "cancelled", "killed"}

-----------------------------------------------------------------------------
(* POST /api/v1/audit.                                                     *)

\* assert_url_safe before anything is persisted: 400 for an unsafe URL, 500
\* when it raises anything else.
CheckUrl(j) ==
    /\ api[j] = "new"
    /\ \E next \in {"insert", "rejected", "error"} : api' = [api EXCEPT ![j] = next]
    /\ UNCHANGED <<row, queue, proc, accepted, mailed, causes>>

CreateJob(j) ==
    /\ api[j] = "insert"
    /\ api' = [api EXCEPT ![j] = "publish"]
    /\ row' = [row EXCEPT ![j] = Inserted]
    /\ UNCHANGED <<queue, proc, accepted, mailed, causes>>

\* create_job raises: no pool, no connection, or an INSERT whose reply is lost.
CreateJobFails(j) ==
    /\ api[j] = "insert"
    /\ api' = [api EXCEPT ![j] = "error"]
    /\ \/ "db_error" \in Faults /\ UNCHANGED <<row, causes>>
       \/ /\ "db_ambiguous" \in Faults
          /\ row' = [row EXCEPT ![j] = Inserted]
          /\ Blame(j, "enqueue")
    /\ UNCHANGED <<queue, proc, accepted, mailed>>

\* run_audit_task.delay, a blocking call, then the response.
Publish(j) ==
    /\ api[j] = "publish"
    /\ api' = [api EXCEPT ![j] = "ok"]
    /\ \/ queue' = queue \cup {<<j, 1>>}
       \/ "duplicate" \in Faults /\ queue' = queue \cup {<<j, 1>>, <<j, 2>>}
    /\ UNCHANGED <<row, proc, accepted, mailed, causes>>

\* The client gets a 500, and the row it will never learn of stays.
PublishFails(j) ==
    /\ api[j] = "publish"
    /\ "broker" \in Faults
    /\ api' = [api EXCEPT ![j] = "error"]
    /\ UNCHANGED row
    /\ \/ queue' = queue /\ Blame(j, "enqueue")
       \/ queue' = queue \cup {<<j, 1>>} /\ UNCHANGED causes
    /\ UNCHANGED <<proc, accepted, mailed>>

InFlight == {j \in Jobs : api[j] \in {"insert", "publish"}}

(* Every handler between two awaits is lost with the process.              *)
ApiCrash ==
    /\ "api_crash" \in Faults
    /\ InFlight # {}
    /\ api' = [j \in Jobs |-> IF j \in InFlight THEN "gone" ELSE api[j]]
    /\ causes' = [j \in Jobs |-> IF api[j] = "publish" THEN causes[j] \cup {"enqueue"}
                                 ELSE causes[j]]
    /\ UNCHANGED <<row, queue, proc, accepted, mailed>>

(* Redis runs without a volume: what it has not saved is gone.             *)
BrokerLoses(m) ==
    /\ "broker_loss" \in Faults
    /\ m \in queue
    /\ queue' = queue \ {m}
    /\ UNCHANGED row
    /\ Blame(JobOf(m), "lost")
    /\ UNCHANGED <<api, proc, accepted, mailed>>

-----------------------------------------------------------------------------
(* The Celery worker.                                                      *)

\* task_acks_late = False: the message is gone before the task's first line.
Accept(w, m) ==
    /\ proc[w].pc = "idle"
    /\ m \in queue
    /\ queue' = queue \ {m}
    /\ accepted' = accepted \cup {m}
    /\ proc' = [proc EXCEPT ![w] = [IdleProc EXCEPT !.msg = m, !.pc = "pool"]]
    /\ UNCHANGED <<api, row, mailed, causes>>

PoolReady(w) ==
    /\ proc[w].pc = "pool"
    /\ Goto(w, "started")
    /\ UNCHANGED <<api, row, queue, accepted, mailed, causes>>

\* create_pool raises, so pool is None and _mark_failure returns at once.
PoolFails(w) ==
    /\ proc[w].pc = "pool"
    /\ "db_error" \in Faults
    /\ Leave(w)
    /\ UNCHANGED <<api, row, queue, accepted, mailed>>
    /\ Blame(Job(w), "pool")

Write(w) ==
    /\ proc[w].pc \in Writing
    /\ row' = Written(w)
    /\ Goto(w, After(proc[w].pc))
    /\ UNCHANGED <<api, queue, accepted, mailed, causes>>

\* Mutant of WriteFails: a phase update that fails is ignored.
WriteFailsIgnored(w) ==
    /\ proc[w].pc \in Writing
    /\ "db_error" \in Faults
    /\ Goto(w, After(proc[w].pc))
    /\ UNCHANGED <<api, row, queue, accepted, mailed, causes>>

\* An UPDATE raises.  In a phase this fails the audit; in _mark_failure it is
\* logged and swallowed.
WriteFails(w) ==
    /\ proc[w].pc \in Writing
    /\ \/ "db_error" \in Faults /\ row' = row
       \/ "db_ambiguous" \in Faults /\ row' = Written(w)
    /\ IF proc[w].pc = "failure"
       THEN Goto(w, "close") /\ Blame(Job(w), "unmarked")
       ELSE Fails(w, "generic") /\ UNCHANGED causes
    /\ UNCHANGED <<api, queue, accepted, mailed>>

\* orchestrate checks the seed again before it announces CRAWLING.
CheckSeed(w) ==
    /\ proc[w].pc = "check"
    /\ Goto(w, "crawling") \/ Fails(w, "unsafe") \/ Fails(w, "generic")
    /\ UNCHANGED <<api, row, queue, accepted, mailed, causes>>

\* crawler.crawl() and the parse of its pages: some pages, none because the
\* site is down, none because robots.txt refuses the seed, or an exception.
Crawl(w) ==
    /\ proc[w].pc = "crawl"
    /\ \/ Fails(w, "generic")
       \/ \E outcome \in Crawls \ {"none"} :
             proc' = [proc EXCEPT ![w].pc = "scoring", ![w].crawl = outcome]
    /\ UNCHANGED <<api, row, queue, accepted, mailed, causes>>

(***************************************************************************)
(* The checks after orchestrate: no page crawled is "unreachable"; its     *)
(* second check (no page scored) is never true, because every crawled page *)
(* has status 200 and score_page then returns a score.                     *)
(***************************************************************************)
Verdict(crawl) == IF crawl = "pages" THEN "none" ELSE "unreachable"

\* Mutant of Score: an empty crawl ends the run without _mark_failure.
ScoreReturns(w) ==
    /\ proc[w].pc = "score"
    /\ IF Verdict(proc[w].crawl) = "none"
       THEN Goto(w, "success") \/ Fails(w, "generic")
       ELSE Goto(w, "close")
    /\ UNCHANGED <<api, row, queue, accepted, mailed, causes>>

Score(w) ==
    /\ proc[w].pc = "score"
    /\ IF Verdict(proc[w].crawl) = "none"
       THEN Goto(w, "success") \/ Fails(w, "generic")
       ELSE Fails(w, Verdict(proc[w].crawl))
    /\ UNCHANGED <<api, row, queue, accepted, mailed, causes>>

\* Mutant of Email: an exception of Resend leaves the mailer.
EmailRaises(w) ==
    /\ proc[w].pc = "email"
    /\ \/ mailed' = mailed \cup {Job(w)} /\ Goto(w, "close")
       \/ mailed' = mailed /\ Fails(w, "generic")
    /\ UNCHANGED <<api, row, queue, accepted, causes>>

\* No address, Resend disabled, or Resend failing: no mail, and the audit stands.
Email(w) ==
    /\ proc[w].pc = "email"
    /\ \E to \in SUBSET {Job(w)} : mailed' = mailed \cup to
    /\ Goto(w, "close")
    /\ UNCHANGED <<api, row, queue, accepted, causes>>

\* Mutant of Close: pool.close waits for a connection the signal has leaked.
CloseWaits(w) ==
    /\ proc[w].pc = "close"
    /\ ~proc[w].soft
    /\ Leave(w)
    /\ UNCHANGED <<api, row, queue, accepted, mailed, causes>>

Close(w) ==
    /\ proc[w].pc = "close"
    /\ Leave(w)
    /\ UNCHANGED <<api, row, queue, accepted, mailed, causes>>

-----------------------------------------------------------------------------
(* TASK_SOFT_TIME_LIMIT: a signal raises SoftTimeLimitExceeded, once, in   *)
(* whatever frame the process is executing.                                *)

SoftLimit(w) == "soft_limit" \in Faults /\ proc[w].pc \in Running /\ ~proc[w].soft

\* In a frame of the coroutine: it is an Exception like any other.
SoftRaised(w) ==
    /\ SoftLimit(w)
    /\ MayWrite(w)
    /\ \/ proc[w].pc = "pool" /\ Leave(w) /\ Blame(Job(w), "pool")
       \/ proc[w].pc = "close" /\ Leave(w) /\ UNCHANGED causes
       \/ /\ proc[w].pc = "failure"
          /\ proc' = [proc EXCEPT ![w].pc = "close", ![w].soft = TRUE]
          /\ Blame(Job(w), "unmarked")
       \/ /\ proc[w].pc \notin {"pool", "close", "failure"}
          /\ proc' = [proc EXCEPT ![w].pc = "failure", ![w].error = "generic",
                                  ![w].soft = TRUE]
          /\ UNCHANGED causes
    /\ mailed' = mailed \/ (proc[w].pc = "email" /\ mailed' = mailed \cup {Job(w)})
    /\ UNCHANGED <<api, queue, accepted>>

\* In the event loop, waiting for a socket: asyncio.run cancels the task, and
\* CancelledError passes every "except Exception" on its way to finally.
SoftCancelled(w) ==
    /\ SoftLimit(w)
    /\ proc[w].pc \in Awaiting
    /\ MayWrite(w)
    /\ IF proc[w].pc \in {"pool", "close"}
       THEN Leave(w)
       ELSE proc' = [proc EXCEPT ![w].pc = "close", ![w].soft = TRUE]
    /\ Blame(Job(w), "cancelled")
    /\ UNCHANGED <<api, queue, accepted, mailed>>

\* Inside one of the broad handlers of the crawler, the parser or the mailer,
\* or in a callback of the loop: logged, and the task goes on.
SoftSwallowed(w) ==
    /\ SoftLimit(w)
    /\ proc' = [proc EXCEPT ![w].soft = TRUE]
    /\ UNCHANGED <<api, row, queue, accepted, mailed, causes>>

\* Mutant of Kill: task_reject_on_worker_lost returns the message to Redis.
KillRequeues(w) ==
    /\ "kill" \in Faults
    /\ proc[w].pc \in Running
    /\ queue' = queue \cup {proc[w].msg}
    /\ Leave(w)
    /\ UNCHANGED <<api, row, accepted, mailed, causes>>

\* TASK_TIME_LIMIT, OOM or a redeploy: the message was acknowledged early and
\* task_reject_on_worker_lost is False, so nobody runs the job again.
Kill(w) ==
    /\ "kill" \in Faults
    /\ proc[w].pc \in Running
    /\ MayWrite(w)
    /\ mailed' = mailed \/ (proc[w].pc = "email" /\ mailed' = mailed \cup {Job(w)})
    /\ Leave(w)
    /\ Blame(Job(w), "killed")
    /\ UNCHANGED <<api, queue, accepted>>

-----------------------------------------------------------------------------

Init ==
    /\ api = [j \in Jobs |-> "new"]
    /\ row = [j \in Jobs |-> NoRow]
    /\ queue = {}
    /\ proc = [w \in Workers |-> IdleProc]
    /\ accepted = {}
    /\ mailed = {}
    /\ causes = [j \in Jobs |-> {}]

Handle(j) == CreateJob(j) \/ CreateJobFails(j) \/ Publish(j) \/ PublishFails(j)

Work(w) ==
    \/ PoolReady(w) \/ PoolFails(w) \/ Write(w) \/ WriteFails(w)
    \/ CheckSeed(w) \/ Crawl(w) \/ Score(w) \/ Email(w) \/ Close(w)

Interrupt(w) == SoftRaised(w) \/ SoftCancelled(w) \/ SoftSwallowed(w) \/ Kill(w)

\* Every request answered and every message consumed.
Finished ==
    /\ \A j \in Jobs : api[j] \in {"ok", "rejected", "error", "gone"}
    /\ queue = {}
    /\ \A w \in Workers : proc[w].pc = "idle"
    /\ UNCHANGED vars

Next ==
    \/ \E j \in Jobs : CheckUrl(j) \/ Handle(j)
    \/ ApiCrash
    \/ \E m \in Messages : BrokerLoses(m)
    \/ \E w \in Workers, m \in Messages : Accept(w, m)
    \/ \E w \in Workers : Work(w) \/ Interrupt(w)
    \/ Finished

Spec == Init /\ [][Next]_vars

(***************************************************************************)
(* The event loop and the workers keep running what they have begun (every *)
(* await of a run has a timeout or the hard limit behind it), and a free   *)
(* worker takes what is queued.  Requests, faults and signals are not fair.*)
(***************************************************************************)
Fairness ==
    /\ \A j \in Jobs : WF_vars(Handle(j))
    /\ \A w \in Workers : WF_vars(Work(w))
    /\ \A w \in Workers : WF_vars(\E m \in Messages : Accept(w, m))

FairSpec == Spec /\ Fairness
-----------------------------------------------------------------------------
(* Properties.                                                             *)

TypeOK ==
    /\ api \in [Jobs -> {"new", "insert", "publish", "ok", "rejected", "error", "gone"}]
    /\ row \in [Jobs -> Rows]
    /\ queue \subseteq Messages
    /\ proc \in [Workers -> Procs]
    /\ accepted \subseteq Messages
    /\ mailed \subseteq Jobs
    /\ causes \in [Jobs -> SUBSET CauseKinds]

(* At most one task of job j was started.                                  *)
SoleRun(j) == \A m, n \in accepted : JobOf(m) = j /\ JobOf(n) = j => m = n

(* Somebody will still act for job j.                                      *)
InHand(j) ==
    \/ api[j] = "publish"
    \/ \E m \in queue : JobOf(m) = j
    \/ \E w \in Workers : proc[w].msg \in Messages /\ Job(w) = j

(***************************************************************************)
(* What GET returns agrees with itself whatever failed: a success shows a  *)
(* result and no message, a failure shows a message, both are dated, and   *)
(* an unfinished job shows none of these.  (A failure may show the result  *)
(* of a success that it overwrote: see RefinesLifecycle.)                  *)
(***************************************************************************)
CoherentReport == \A j \in Jobs : SoleRun(j) =>
    LET r == row[j] IN
    /\ r.status = "SUCCESS" => r.result /\ r.error = "none" /\ r.completed
    /\ r.status = "FAILURE" => r.error # "none" /\ r.completed
    /\ r.status \notin Terminal => ~r.result /\ r.error = "none" /\ ~r.completed

(***************************************************************************)
(* The phase a client polls is the phase its worker is in: an exception,   *)
(* a lost reply or a signal never leaves the run going on from a phase     *)
(* that the row does not show.                                             *)
(***************************************************************************)
RowAt(pc) == CASE pc \in {"pool", "started"}    -> {"PENDING"}
               [] pc \in {"check", "crawling"}  -> {"STARTED"}
               [] pc \in {"crawl", "scoring"}   -> {"CRAWLING"}
               [] pc \in {"score", "success"}   -> {"SCORING"}
               [] pc = "email"                  -> {"SUCCESS"}
               [] pc \in {"failure", "close"}   -> Phases \cup Terminal

PhaseMatchesRow == \A w \in Workers :
    proc[w].pc # "idle" /\ SoleRun(Job(w)) => row[Job(w)].status \in RowAt(proc[w].pc)

(***************************************************************************)
(* A row left in a phase with nobody to finish it (there is no reaper) is  *)
(* explained by one of six losses: the publish, the broker, the worker's   *)
(* pool, the FAILURE update, a cancelled run or a killed one.  No other    *)
(* path of the handler or the task strands a job.                          *)
(***************************************************************************)
StrandedHasCause == \A j \in Jobs :
    row[j].status \in Phases /\ ~InHand(j) => causes[j] # {}

(***************************************************************************)
(* A client who got the completion mail can read the result, whatever      *)
(* happens to the worker or the row afterwards.                            *)
(***************************************************************************)
MailMeansReport == \A j \in mailed : row[j].result

(***************************************************************************)
(* The statuses a client sees only move forward while one task runs the    *)
(* job, although no UPDATE looks at the status it replaces.                *)
(***************************************************************************)
NeverBackwards ==
    [][\A j \in Jobs : SoleRun(j)' => Rank(row[j].status) <= Rank(row'[j].status)]_vars

(***************************************************************************)
(* celery_app.py:22: "a worker crash should not trigger an automatic       *)
(* duplicate crawl of the same site": without a duplicated publish, a job  *)
(* is started at most once and a started message never returns to Redis.   *)
(***************************************************************************)
AtMostOneRun ==
    /\ queue \cap accepted = {}
    /\ \A j \in Jobs : SoleRun(j)

(***************************************************************************)
(* When statements either commit or visibly fail, no signal fires and no   *)
(* publish is doubled, the reports implement the promise of JobLifecycle.  *)
(***************************************************************************)
Lifecycle == INSTANCE JobLifecycle WITH view <- [j \in Jobs |-> Report(row[j])]

RefinesLifecycle == Lifecycle!Spec

(***************************************************************************)
(* tasks.py:89-92 answers a crawl that robots.txt refused with "All pages  *)
(* on the domain were blocked from crawling": such a site is not told that *)
(* it could not be reached.                                                *)
(***************************************************************************)
BlockedSiteIsTold == \A w \in Workers :
    proc[w].pc = "failure" /\ proc[w].crawl = "robots" => proc[w].error # "unreachable"

(***************************************************************************)
(* Every row reaches a final status and keeps one, unless one of the six   *)
(* losses happened to it.                                                  *)
(***************************************************************************)
JobSettles == \A j \in Jobs :
    row[j].status # "NONE" ~> [](row[j].status \in Terminal \/ causes[j] # {})

(***************************************************************************)
(* No fault takes a worker out of service: each one becomes free again.    *)
(***************************************************************************)
SlotsRecover == \A w \in Workers : proc[w].pc # "idle" ~> proc[w].pc = "idle"
=============================================================================
