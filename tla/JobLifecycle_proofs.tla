------------------------ MODULE JobLifecycle_proofs ------------------------
(***************************************************************************)
(* AuditJobs implements JobLifecycle, for every set of jobs and workers,   *)
(* under every choice of the faults that leave a statement's outcome known *)
(* and a task's message single.  Rests on the invariant of AuditJobs_proofs.*)
(***************************************************************************)
EXTENDS AuditJobs_proofs

(* The faults under which the promise is not kept.                         *)
Unclean == {"db_ambiguous", "duplicate", "soft_limit"}

(* _mark_failure is only on its way for a row that is not final: without   *)
(* lost replies and signals no exception follows the SUCCESS update.       *)
FailureUnfinished == \A w \in Workers :
    proc[w].pc = "failure" => row[Job(w)].status \in Phases

LEMMA AllSole == ASSUME Inv, "duplicate" \notin Faults PROVE \A j \in Jobs : SoleRun(j)
<1> SUFFICES ASSUME NEW j \in Jobs, NEW m \in accepted, NEW n \in accepted,
                    JobOf(m) = j, JobOf(n) = j
             PROVE  m = n
  BY DEF SoleRun
<1>1. m \in Messages /\ n \in Messages /\ m[2] = 1 /\ n[2] = 1
  BY DEF Inv, TypeOK, FirstCopies
<1> QED
  BY <1>1 DEF Messages, JobOf

(* Two workers that are not idle work for two jobs.                        *)
LEMMA WorkersApart ==
    ASSUME Inv, "duplicate" \notin Faults, NEW v \in Workers, NEW w \in Workers, v # w,
           proc[v].pc \in Running, proc[w].pc \in Running
    PROVE  Job(v) # Job(w)
<1>1. /\ proc[v].msg \in accepted /\ proc[w].msg \in accepted
      /\ proc[v].msg # proc[w].msg /\ Job(v) \in Jobs
  BY JobOfWorker DEF Inv, Delivery
<1> QED
  BY <1>1, AllSole DEF SoleRun, Job

(* A task turns to _mark_failure before the SUCCESS update, and from a     *)
(* step that left the row alone.                                           *)
LEMMA FailsFrom ==
    ASSUME TypeOK, ProcOK, Faults \cap Unclean = {}, NEW w \in Workers,
           Work(w) \/ Interrupt(w), proc'[w].pc = "failure"
    PROVE  /\ row' = row /\ proc'[w].msg = proc[w].msg
           /\ proc[w].pc \in Running \ {"failure", "close", "email"}
<1>1. "db_ambiguous" \notin Faults /\ "soft_limit" \notin Faults
  BY DEF Unclean
<1>2. ~SoftRaised(w) /\ ~SoftCancelled(w) /\ ~SoftSwallowed(w)
  BY <1>1 DEF SoftRaised, SoftCancelled, SoftSwallowed, SoftLimit
<1>3. Leave(w) => proc'[w].pc # "failure"
  BY LeaveShape DEF IdleProc
<1>4. ASSUME NEW pc \in Running \ {"failure"}, Goto(w, pc) PROVE FALSE
  BY <1>4, GotoShape
<1>5. ASSUME NEW m \in Failures, Fails(w, m) PROVE proc'[w].msg = proc[w].msg
  BY <1>5, FailsShape
<1>6. ~PoolReady(w) /\ ~PoolFails(w) /\ ~Email(w) /\ ~Close(w) /\ ~Kill(w)
  BY <1>3, <1>4 DEF PoolReady, PoolFails, Email, Close, Kill, Running, Writing
<1>7. ~Write(w)
  <2>1. proc[w].pc \in Writing => After(proc[w].pc) \in Running \ {"failure"}
    BY DEF Writing, After, Running
  <2> QED
    BY <1>4, <2>1 DEF Write
<1>8. CASE WriteFails(w)
  <2>1. proc[w].pc \in Writing /\ row' = row
    BY <1>1, <1>8 DEF WriteFails
  <2>2. proc[w].pc # "failure"
    BY <1>4, <1>8 DEF WriteFails, Running
  <2>3. Fails(w, "generic") /\ "generic" \in Failures
    BY <1>8, <2>2 DEF WriteFails, Failures
  <2> QED
    BY <1>5, <2>1, <2>2, <2>3 DEF Running, Writing
<1>9. CASE CheckSeed(w)
  <2>1. \E m \in Failures : Fails(w, m)
    BY <1>4, <1>9 DEF CheckSeed, Running, Writing, Failures
  <2> QED
    BY <1>5, <1>9, <2>1 DEF CheckSeed, Running
<1>10. CASE Crawl(w)
  <2>1. ASSUME NEW outcome \in Crawls \ {"none"},
               proc' = [proc EXCEPT ![w].pc = "scoring", ![w].crawl = outcome]
        PROVE  FALSE
    <3>1. proc[w] \in Procs /\ proc \in [Workers -> Procs]
      BY DEF TypeOK
    <3>2. proc'[w] = [proc[w] EXCEPT !.pc = "scoring", !.crawl = outcome]
      BY <2>1, <3>1
    <3> QED
      BY <3>1, <3>2 DEF Procs
  <2>2. Fails(w, "generic") /\ "generic" \in Failures
    BY <1>10, <2>1 DEF Crawl, Failures
  <2> QED
    BY <1>5, <1>10, <2>2 DEF Crawl, Running
<1>11. CASE Score(w)
  <2>1. \E m \in Failures : Fails(w, m)
    <3>1. Verdict(proc[w].crawl) # "none" => Verdict(proc[w].crawl) \in Failures
      BY DEF Verdict, Failures
    <3> QED
      BY <1>4, <1>11, <3>1 DEF Score, Running, Writing, Failures
  <2> QED
    BY <1>5, <1>11, <2>1 DEF Score, Running
<1> QED
  BY <1>2, <1>6, <1>7, <1>8, <1>9, <1>10, <1>11 DEF Work, Interrupt

(* A job that some worker runs is past its INSERT, so only that worker     *)
(* changes its row.                                                        *)
LEMMA RowOfOther ==
    ASSUME Inv, "duplicate" \notin Faults, Step, NEW w \in Workers,
           proc[w].pc \in Running, row'[Job(w)] # row[Job(w)]
    PROVE  Shape(w)
<1>1. Job(w) \in Jobs /\ proc[w].msg \in accepted
  BY JobOfWorker DEF Inv, Delivery
<1>2. PICK v \in Workers : proc[v].pc \in Writing /\ Shape(v) /\ Job(v) = Job(w)
  BY <1>1, RowChange DEF Inv, Job
<1>3. v = w
  BY <1>2, WorkersApart DEF Running
<1> QED
  BY <1>2, <1>3

LEMMA FailureUnfinishedStep ==
    ASSUME Inv, Faults \cap Unclean = {}, FailureUnfinished, [Next]_vars
    PROVE  FailureUnfinished'
<1> SUFFICES ASSUME NEW w \in Workers, proc'[w].pc = "failure"
             PROVE  row'[Job(w)'].status \in Phases
  BY DEF FailureUnfinished
<1>1. "duplicate" \notin Faults /\ Step
  BY NextIsStep DEF Inv, Unclean
<1>2. CASE Work(w) \/ Interrupt(w)
  <2>1. /\ row' = row /\ Job(w)' = Job(w)
        /\ proc[w].pc \in Running \ {"failure", "close", "email"}
    BY <1>2, FailsFrom DEF Inv, Job
  <2>2. Job(w) \in Jobs /\ proc[w].pc # "idle"
    BY <2>1, JobOfWorker DEF Inv, Running, Writing
  <2>3. row[Job(w)].status \in RowAt(proc[w].pc)
    BY <1>1, <2>2, AllSole DEF Inv, PhaseMatchesRow
  <2>4. RowAt(proc[w].pc) \subseteq Phases
    BY <2>1 DEF RowAt, Running, Writing, Phases
  <2> QED
    BY <2>1, <2>3, <2>4
<1>3. ASSUME proc'[w] = proc[w], row'[Job(w)] = row[Job(w)]
      PROVE  row'[Job(w)'].status \in Phases
  BY <1>3 DEF FailureUnfinished, Job
<1>4. ASSUME NEW v \in Workers, v # w, Work(v) \/ Interrupt(v)
      PROVE  row'[Job(w)'].status \in Phases
  <2>1. proc[v].pc \in Running /\ Shape(v)
    BY <1>4, WorkerStep DEF Inv
  <2>2. proc'[w] = proc[w] /\ \A j \in Jobs \ {Job(v)} : row'[j] = row[j]
    BY <1>4, <2>1, ShapeFrame DEF Inv
  <2>3. proc[w].pc \in Running
    BY <2>2 DEF Running, Writing
  <2>4. Job(w) \in Jobs /\ Job(v) # Job(w)
    BY <1>1, <1>4, <2>1, <2>3, JobOfWorker, WorkersApart DEF Inv
  <2> QED
    BY <1>3, <2>2, <2>4
<1>5. ASSUME proc' = proc, ~Shape(w) \/ row' = row
      PROVE  row'[Job(w)'].status \in Phases
  <2>1. proc[w].pc \in Running
    BY <1>5 DEF Running, Writing
  <2> QED
    BY <1>1, <1>3, <1>5, <2>1, RowOfOther
<1>6. ASSUME NEW v \in Workers, NEW m \in Messages, Accept(v, m)
      PROVE  row'[Job(w)'].status \in Phases
  <2>1. proc'[w] = proc[w] /\ row' = row
    BY <1>6, AcceptShape DEF Inv, Accept
  <2> QED
    BY <1>3, <2>1
<1>7. ASSUME NEW j \in Jobs, CreateJob(j) \/ CreateJobFails(j)
      PROVE  row'[Job(w)'].status \in Phases
  <2>1. proc' = proc /\ api' # api
    BY <1>7 DEF CreateJob, CreateJobFails, Inv, TypeOK
  <2> QED
    BY <1>5, <2>1 DEF Shape
<1>8. ASSUME NEW j \in Jobs, CheckUrl(j) \/ Publish(j) \/ PublishFails(j)
      PROVE  row'[Job(w)'].status \in Phases
  BY <1>5, <1>8 DEF CheckUrl, Publish, PublishFails
<1>9. ASSUME \/ ApiCrash
             \/ \E m \in Messages : BrokerLoses(m)
             \/ UNCHANGED vars
      PROVE  row'[Job(w)'].status \in Phases
  BY <1>5, <1>9 DEF ApiCrash, BrokerLoses, vars
<1> QED
  BY <1>2, <1>4, <1>6, <1>7, <1>8, <1>9 DEF Next, Handle, Finished

-----------------------------------------------------------------------------
(* Every step shows the client one step of JobLifecycle, or nothing.       *)

View == [j \in Jobs |-> Report(row[j])]

LEMMA OneRowChanges ==
    ASSUME TypeOK, NEW j \in Jobs, NEW r, row' = [row EXCEPT ![j] = r]
    PROVE  View' = [View EXCEPT ![j] = Report(r)]
BY DEF TypeOK, View

LEMMA InsertIsCreate ==
    ASSUME Inv, NEW j \in Jobs, row[j] = NoRow, row' = [row EXCEPT ![j] = Inserted]
    PROVE  Lifecycle!Next
<1>1. View' = [View EXCEPT ![j] = Report(Inserted)]
  BY OneRowChanges DEF Inv
<1>2. Report(Inserted) = [status |-> "PENDING", result |-> FALSE, error |-> "none"]
  BY DEF Report, Inserted, NoRow
<1>3. View[j] = [status |-> "NONE", result |-> FALSE, error |-> "none"]
  <2>1. View[j] = Report(NoRow)
    BY DEF View
  <2> QED
    BY <2>1 DEF Report, NoRow
<1>4. Lifecycle!Create(j)
  BY <1>1, <1>2, <1>3 DEF Lifecycle!Create, Lifecycle!Show, Lifecycle!NoView, View
<1> QED
  BY <1>4 DEF Lifecycle!Next

(* The UPDATE of a task at pc, from the phase that pc stands for.          *)
LEMMA UpdateIsPhase ==
    ASSUME Inv, NEW j \in Jobs, NEW pc \in Writing, NEW e \in Failures \cup {"none"},
           pc = "failure" => e \in Failures /\ row[j].status \in Phases,
           row[j].status \in RowAt(pc), SoleRun(j),
           row' = [row EXCEPT ![j] = Updated(@, StatusAt(pc), e)]
    PROVE  Lifecycle!Next
<1> DEFINE u == Updated(row[j], StatusAt(pc), e)
<1>1. View' = [View EXCEPT ![j] = Report(u)]
  BY OneRowChanges DEF Inv
<1>2. View[j] = Report(row[j]) /\ row[j] \in Rows
  BY DEF View, Inv, TypeOK
<1>3. row[j].status \in Phases => row[j].result = FALSE /\ row[j].error = "none"
  BY <1>2 DEF Inv, CoherentReport, Phases, Terminal, Rows
<1>4. ASSUME NEW s \in Phases, NEW t \in Phases, row[j].status = s, StatusAt(pc) = t,
             Lifecycle!Rank(t) = Lifecycle!Rank(s) + 1
      PROVE  Lifecycle!Next
  <2>1. Report(u) = [status |-> t, result |-> FALSE, error |-> "none"]
    BY <1>3, <1>4 DEF Report, Updated, Phases
  <2>2. Lifecycle!Advance(j)
    BY <1>1, <1>2, <1>4, <2>1 DEF Lifecycle!Advance, Lifecycle!Unfinished, Lifecycle!Show,
       Lifecycle!Phases, Phases, Report, View
  <2> QED
    BY <2>2 DEF Lifecycle!Next
<1>5. CASE pc \in {"started", "crawling", "scoring"}
  <2>1. /\ pc = "started"  => row[j].status = "PENDING"  /\ StatusAt(pc) = "STARTED"
        /\ pc = "crawling" => row[j].status = "STARTED"  /\ StatusAt(pc) = "CRAWLING"
        /\ pc = "scoring"  => row[j].status = "CRAWLING" /\ StatusAt(pc) = "SCORING"
    BY DEF RowAt, StatusAt
  <2>2. /\ Lifecycle!Rank("PENDING") = 1 /\ Lifecycle!Rank("STARTED") = 2
        /\ Lifecycle!Rank("CRAWLING") = 3 /\ Lifecycle!Rank("SCORING") = 4
    BY DEF Lifecycle!Rank, Lifecycle!Terminal
  <2> QED
    BY <1>4, <1>5, <2>1, <2>2 DEF Phases
<1>6. CASE pc = "success"
  <2>1. row[j].status = "SCORING" /\ StatusAt(pc) = "SUCCESS"
    BY <1>6 DEF RowAt, StatusAt
  <2>2. Report(u) = [status |-> "SUCCESS", result |-> TRUE, error |-> "none"]
    BY <1>3, <2>1 DEF Report, Updated, Phases
  <2>3. Lifecycle!Succeed(j)
    BY <1>1, <1>2, <2>1, <2>2 DEF Lifecycle!Succeed, Lifecycle!Show, Report, View
  <2> QED
    BY <2>3 DEF Lifecycle!Next
<1>7. CASE pc = "failure"
  <2>1. row[j].status \in Phases /\ e \in Failures /\ StatusAt(pc) = "FAILURE"
    BY <1>7 DEF StatusAt
  <2>2. Report(u) = [status |-> "FAILURE", result |-> FALSE, error |-> e]
    BY <1>3, <2>1 DEF Report, Updated
  <2>3. Lifecycle!Fail(j)
    BY <1>1, <1>2, <2>1, <2>2 DEF Lifecycle!Fail, Lifecycle!Unfinished, Lifecycle!Show,
       Lifecycle!Phases, Phases, Report, View
  <2> QED
    BY <2>3 DEF Lifecycle!Next
<1> QED
  BY <1>5, <1>6, <1>7 DEF Writing

LEMMA StepIsLifecycle ==
    ASSUME Inv, FailureUnfinished, "duplicate" \notin Faults, Step
    PROVE  Lifecycle!Next \/ View' = View
<1>1. row' = row => View' = View
  BY DEF View
<1>2. ASSUME NEW j \in Jobs, CreateJob(j) \/ CreateJobFails(j)
      PROVE  Lifecycle!Next \/ View' = View
  <2>1. api[j] = "insert" /\ (row' = row \/ row' = [row EXCEPT ![j] = Inserted])
    BY <1>2 DEF CreateJob, CreateJobFails
  <2>2. \A m \in accepted : JobOf(m) # j
    BY <2>1 DEF Inv, Placed
  <2>3. row[j] \in {NoRow, Inserted}
    BY <2>2 DEF Inv, Fresh
  <2>4. row[j] = Inserted => row' = row
    BY <2>1 DEF Inv, TypeOK
  <2> QED
    BY <1>1, <2>1, <2>3, <2>4, InsertIsCreate
<1>3. ASSUME NEW w \in Workers, proc[w].pc \in Running, Shape(w)
      PROVE  Lifecycle!Next \/ View' = View
  <2>1. CASE row' = row
    BY <1>1, <2>1
  <2>2. CASE Wrote(w)
    <3>1. Job(w) \in Jobs /\ proc[w] \in Procs /\ proc[w].pc \in Writing /\ SoleRun(Job(w))
      BY <1>3, <2>2, JobOfWorker, AllSole DEF Inv, TypeOK, Wrote
    <3>2. row[Job(w)].status \in RowAt(proc[w].pc)
      BY <3>1 DEF Inv, PhaseMatchesRow, Writing
    <3>3. /\ proc[w].error \in Failures \cup {"none"}
          /\ proc[w].pc = "failure" =>
                proc[w].error \in Failures /\ row[Job(w)].status \in Phases
      BY <3>1 DEF Procs, Inv, ProcOK, FailureUnfinished
    <3>4. row' = [row EXCEPT ![Job(w)] = Updated(@, StatusAt(proc[w].pc), proc[w].error)]
      BY <2>2 DEF Wrote, Written
    <3> QED
      BY <3>1, <3>2, <3>3, <3>4, UpdateIsPhase
  <2> QED
    BY <1>3, <2>1, <2>2 DEF Shape
<1>4. ASSUME \/ \E j \in Jobs : CheckUrl(j) \/ Publish(j) \/ PublishFails(j)
             \/ ApiCrash
             \/ \E m \in Messages : BrokerLoses(m)
             \/ \E w \in Workers, m \in Messages : Accept(w, m)
             \/ UNCHANGED vars
      PROVE  View' = View
  BY <1>1, <1>4 DEF CheckUrl, Publish, PublishFails, ApiCrash, BrokerLoses, Accept, vars
<1> QED
  BY <1>2, <1>3, <1>4 DEF Step

(* The reports keep the promise of JobLifecycle, under db_error, broker,   *)
(* broker_loss, api_crash and kill: no final report changes, no phase is   *)
(* skipped and no report is taken back.                                    *)
THEOREM ReportsKeepThePromise ==
    ASSUME Faults \cap Unclean = {} PROVE Spec => RefinesLifecycle
<1>1. Init => Lifecycle!Init /\ FailureUnfinished
  BY DEF Init, Lifecycle!Init, Lifecycle!NoView, FailureUnfinished, Report, NoRow, IdleProc
<1>2. Inv /\ FailureUnfinished /\ [Next]_vars =>
         FailureUnfinished' /\ (Lifecycle!Next \/ View' = View)
  <2> SUFFICES ASSUME Inv, FailureUnfinished, [Next]_vars
               PROVE  FailureUnfinished' /\ (Lifecycle!Next \/ View' = View)
    OBVIOUS
  <2>1. "duplicate" \notin Faults /\ Step
    BY NextIsStep DEF Inv, Unclean
  <2> QED
    BY <2>1, FailureUnfinishedStep, StepIsLifecycle
<1>3. Inv /\ FailureUnfinished /\ [Next]_vars => [Lifecycle!Next]_View
  BY <1>2
<1>4. Spec => [](Inv /\ FailureUnfinished)
  BY InvIsInvariant, <1>1, <1>2, PTL DEF Spec
<1> QED
  BY <1>1, <1>3, <1>4, PTL DEF Spec, RefinesLifecycle, Lifecycle!Spec, View
=============================================================================
