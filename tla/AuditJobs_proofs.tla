-------------------------- MODULE AuditJobs_proofs --------------------------
(***************************************************************************)
(* Proofs about AuditJobs, for every set of jobs and workers and every     *)
(* choice of faults.                                                       *)
(***************************************************************************)
EXTENDS AuditJobs, TLAPS

ApiPcs == {"new", "insert", "publish", "ok", "rejected", "error", "gone"}

-----------------------------------------------------------------------------
(* The helpers keep the types of what they are given.                      *)

(* An UPDATE of a row yields a row.                                        *)
LEMMA UpdatedType ==
    ASSUME NEW r \in Rows, NEW s \in Terminal \cup Phases,
           NEW m \in Failures \cup {"none"}
    PROVE  Updated(r, s, m) \in Rows
BY DEF Updated, Rows, Statuses

(* Every step that writes the row has a status and a successor.            *)
LEMMA WritingType ==
    ASSUME NEW pc \in Writing
    PROVE  /\ StatusAt(pc) \in Terminal \cup Phases
           /\ After(pc) \in Running
BY DEF Writing, StatusAt, After, Terminal, Phases, Running

(* A running worker holds a message, so it works for some job.             *)
LEMMA JobType == \A m \in Messages : JobOf(m) \in Jobs
BY DEF Messages, JobOf

(* Assignments to a process keep its type.                                 *)
LEMMA ProcType ==
    ASSUME NEW p \in Procs, NEW pc \in Running \cup {"idle"},
           NEW e \in Failures \cup {"none"}, NEW c \in Crawls, NEW s \in BOOLEAN,
           NEW m \in Messages \cup {NoMessage}
    PROVE  [msg |-> m, pc |-> pc, soft |-> s, crawl |-> c, error |-> e] \in Procs
BY DEF Procs

LEMMA IdleType == IdleProc \in Procs
BY DEF IdleProc, Procs, Crawls

LEMMA GotoType ==
    ASSUME NEW p \in Procs, NEW pc \in Running
    PROVE  [p EXCEPT !.pc = pc] \in Procs
BY DEF Procs

LEMMA FailsType ==
    ASSUME NEW p \in Procs, NEW m \in Failures
    PROVE  [p EXCEPT !.pc = "failure", !.error = m] \in Procs
BY DEF Procs, Running, Writing

LEMMA InsertedType == NoRow \in Rows /\ Inserted \in Rows
BY DEF NoRow, Inserted, Rows, Statuses, Phases

-----------------------------------------------------------------------------
(* What any step of a worker does, whichever line of the task it is at.    *)

(* A worker is idle, or it holds a message; in failure it has an error.    *)
ProcOK == \A w \in Workers :
    /\ proc[w].pc = "idle" => proc[w] = IdleProc
    /\ proc[w].pc \in Running => proc[w].msg \in Messages
    /\ proc[w].pc = "failure" => proc[w].error \in Failures

(* The steps that leave the row alone and go on.                           *)
Onward == {<<"pool", "started">>, <<"check", "crawling">>, <<"crawl", "scoring">>,
           <<"score", "success">>}

Wrote(w) == proc[w].pc \in Writing /\ row' = Written(w)

Moved(w) ==
    LET p == proc[w]
        q == proc'[w]
    IN  \/ q = IdleProc
        \/ /\ q.msg = p.msg
           /\ \/ q.pc = "failure" /\ q.error \in Failures
              \/ q.pc = "close"
              \/ Wrote(w) /\ q.pc = After(p.pc) /\ q.error = p.error
              \/ row' = row /\ <<p.pc, q.pc>> \in Onward
              \/ row' = row /\ q.pc = p.pc /\ q.error = p.error

(* A run that stops working leaves a final row or a cause.                 *)
Accounted(w) ==
    proc'[w].pc \in {"idle", "close", "email"} =>
        \/ proc[w].pc \in {"close", "email"} /\ row' = row
        \/ row'[Job(w)].status \in Terminal
        \/ causes'[Job(w)] # {}

Shape(w) ==
    /\ UNCHANGED <<api, queue, accepted>>
    /\ row' = row \/ Wrote(w)
    /\ proc' = [proc EXCEPT ![w] = proc'[w]]
    /\ proc'[w] \in Procs
    /\ Moved(w)
    /\ causes' \in [Jobs -> SUBSET CauseKinds]
    /\ \A j \in Jobs : causes[j] \subseteq causes'[j]
    /\ Accounted(w)
    /\ mailed' = mailed \/ (proc[w].pc = "email" /\ mailed' = mailed \cup {Job(w)})

LEMMA BlameType ==
    ASSUME TypeOK, NEW j \in Jobs, NEW c \in CauseKinds, Blame(j, c)
    PROVE  /\ causes' \in [Jobs -> SUBSET CauseKinds]
           /\ \A k \in Jobs : causes[k] \subseteq causes'[k]
           /\ row'[j].status \in Terminal \/ causes'[j] # {}
BY DEF TypeOK, Blame

LEMMA LeaveShape ==
    ASSUME TypeOK, NEW w \in Workers, Leave(w)
    PROVE  /\ proc' = [proc EXCEPT ![w] = proc'[w]]
           /\ proc'[w] = IdleProc
           /\ proc'[w] \in Procs
BY IdleType DEF TypeOK, Leave

LEMMA GotoShape ==
    ASSUME TypeOK, NEW w \in Workers, NEW pc \in Running, Goto(w, pc)
    PROVE  /\ proc' = [proc EXCEPT ![w] = proc'[w]]
           /\ proc'[w] \in Procs
           /\ proc'[w].pc = pc
           /\ proc'[w].msg = proc[w].msg
           /\ proc'[w].error = proc[w].error
<1>1. proc[w] \in Procs
  BY DEF TypeOK
<1>2. proc'[w] = [proc[w] EXCEPT !.pc = pc]
  BY DEF TypeOK, Goto
<1>3. proc' = [proc EXCEPT ![w] = proc'[w]]
  BY DEF TypeOK, Goto
<1> QED
  BY <1>1, <1>2, <1>3, GotoType DEF Procs

LEMMA FailsShape ==
    ASSUME TypeOK, NEW w \in Workers, NEW m \in Failures, Fails(w, m)
    PROVE  /\ proc' = [proc EXCEPT ![w] = proc'[w]]
           /\ proc'[w] \in Procs
           /\ proc'[w].pc = "failure"
           /\ proc'[w].msg = proc[w].msg
           /\ proc'[w].error = m
<1>1. proc[w] \in Procs
  BY DEF TypeOK
<1>2. proc'[w] = [proc[w] EXCEPT !.pc = "failure", !.error = m]
  BY DEF TypeOK, Fails
<1>3. proc' = [proc EXCEPT ![w] = proc'[w]]
  BY DEF TypeOK, Fails
<1>4. proc'[w] \in Procs
  BY <1>1, <1>2, FailsType, Zenon
<1>5. proc'[w].pc = "failure" /\ proc'[w].msg = proc[w].msg /\ proc'[w].error = m
  BY <1>1, <1>2 DEF Procs
<1> QED
  BY <1>3, <1>4, <1>5, Zenon

(* The common part of the steps that leave the causes and the mail alone.  *)
LEMMA QuietCauses ==
    ASSUME TypeOK, UNCHANGED causes
    PROVE  /\ causes' \in [Jobs -> SUBSET CauseKinds]
           /\ \A j \in Jobs : causes[j] \subseteq causes'[j]
BY DEF TypeOK

LEMMA JobOfWorker ==
    ASSUME ProcOK, NEW w \in Workers, proc[w].pc \in Running
    PROVE  proc[w].msg \in Messages /\ Job(w) \in Jobs
BY JobType DEF ProcOK, Job

(* The steps of a run that nothing disturbs have this shape.               *)
LEMMA WorkShape ==
    ASSUME TypeOK, ProcOK, NEW w \in Workers, Work(w)
    PROVE  Shape(w)
<1>1. CASE PoolReady(w)
  <2>1. "started" \in Running
    BY DEF Running, Writing
  <2>2. Moved(w) /\ Accounted(w)
    BY <1>1, <2>1, GotoShape DEF PoolReady, Moved, Accounted, Onward
  <2> QED
    BY <1>1, <2>1, <2>2, GotoShape, QuietCauses DEF PoolReady, Shape
<1>2. CASE PoolFails(w)
  <2>1. Job(w) \in Jobs /\ "pool" \in CauseKinds
    BY <1>2, JobOfWorker DEF PoolFails, Running, CauseKinds
  <2>2. Moved(w) /\ Accounted(w)
    BY <1>2, <2>1, LeaveShape, BlameType DEF PoolFails, Moved, Accounted
  <2> QED
    BY <1>2, <2>1, <2>2, LeaveShape, BlameType DEF PoolFails, Shape
<1>3. CASE Write(w)
  <2>1. After(proc[w].pc) \in Running /\ Wrote(w)
    BY <1>3, WritingType DEF Write, Wrote
  <2>2. proc'[w].pc = After(proc[w].pc)
    BY <1>3, <2>1, GotoShape DEF Write
  <2>3. Moved(w)
    BY <1>3, <2>1, <2>2, GotoShape DEF Write, Moved
  <2>4. row'[Job(w)] = Updated(row[Job(w)], StatusAt(proc[w].pc), proc[w].error)
    BY <1>3, JobOfWorker DEF TypeOK, Write, Written, Running
  <2>5. proc[w].pc \in {"success", "failure"} => row'[Job(w)].status \in Terminal
    BY <2>4 DEF Updated, StatusAt, Terminal
  <2>6. Accounted(w)
    BY <1>3, <2>2, <2>5 DEF Write, Accounted, After, Writing
  <2> QED
    BY <1>3, <2>1, <2>3, <2>6, GotoShape, QuietCauses DEF Write, Shape
<1>4. CASE WriteFails(w)
  <2>1. Job(w) \in Jobs /\ "unmarked" \in CauseKinds /\ "close" \in Running
        /\ "generic" \in Failures
    BY <1>4, JobOfWorker DEF WriteFails, Running, CauseKinds, Failures
  <2>2. row' = row \/ Wrote(w)
    BY <1>4 DEF WriteFails, Wrote
  <2>3. CASE proc[w].pc = "failure"
    <3>1. Goto(w, "close") /\ Blame(Job(w), "unmarked")
      BY <1>4, <2>3 DEF WriteFails
    <3>2. Moved(w) /\ Accounted(w)
      BY <2>1, <3>1, GotoShape, BlameType DEF Moved, Accounted
    <3> QED
      BY <1>4, <2>1, <2>2, <3>1, <3>2, GotoShape, BlameType DEF WriteFails, Shape
  <2>4. CASE proc[w].pc # "failure"
    <3>1. Fails(w, "generic") /\ UNCHANGED causes
      BY <1>4, <2>4 DEF WriteFails
    <3>2. Moved(w) /\ Accounted(w)
      BY <2>1, <3>1, FailsShape DEF Moved, Accounted
    <3> QED
      BY <1>4, <2>1, <2>2, <3>1, <3>2, FailsShape, QuietCauses DEF WriteFails, Shape
  <2> QED
    BY <2>3, <2>4
<1>5. CASE CheckSeed(w)
  <2>1. "crawling" \in Running /\ {"unsafe", "generic"} \subseteq Failures
    BY DEF Running, Writing, Failures
  <2>2. Moved(w) /\ Accounted(w)
    BY <1>5, <2>1, GotoShape, FailsShape DEF CheckSeed, Moved, Accounted, Onward
  <2> QED
    BY <1>5, <2>1, <2>2, GotoShape, FailsShape, QuietCauses DEF CheckSeed, Shape
<1>6. CASE Crawl(w)
  <2>1. CASE Fails(w, "generic")
    <3>1. "generic" \in Failures
      BY DEF Failures
    <3>2. Moved(w) /\ Accounted(w)
      BY <2>1, <3>1, FailsShape DEF Moved, Accounted
    <3> QED
      BY <1>6, <2>1, <3>1, <3>2, FailsShape, QuietCauses DEF Crawl, Shape
  <2>2. CASE ~Fails(w, "generic")
    <3>1. PICK c \in Crawls :
             proc' = [proc EXCEPT ![w].pc = "scoring", ![w].crawl = c]
      BY <1>6, <2>2 DEF Crawl
    <3>2. proc'[w] = [proc[w] EXCEPT !.pc = "scoring", !.crawl = c] /\ proc[w] \in Procs
      BY <3>1 DEF TypeOK
    <3>3. /\ proc'[w] \in Procs /\ proc'[w].pc = "scoring"
          /\ proc'[w].msg = proc[w].msg
      BY <3>2 DEF Procs, Running, Writing
    <3>4. proc' = [proc EXCEPT ![w] = proc'[w]]
      BY <3>1 DEF TypeOK
    <3>5. Moved(w) /\ Accounted(w)
      BY <1>6, <3>3 DEF Crawl, Moved, Accounted, Onward
    <3> QED
      BY <1>6, <3>3, <3>4, <3>5, QuietCauses DEF Crawl, Shape
  <2> QED
    BY <2>1, <2>2
<1>7. CASE Score(w)
  <2>1. "success" \in Running /\ {"generic", "unreachable"} \subseteq Failures
    BY DEF Running, Writing, Failures
  <2>2. Goto(w, "success") \/ Fails(w, "generic") \/ Fails(w, "unreachable")
    BY <1>7 DEF Score, Verdict
  <2>3. Moved(w) /\ Accounted(w)
    BY <1>7, <2>1, <2>2, GotoShape, FailsShape DEF Score, Moved, Accounted, Onward
  <2> QED
    BY <1>7, <2>1, <2>2, <2>3, GotoShape, FailsShape, QuietCauses DEF Score, Shape
<1>8. CASE Email(w)
  <2>1. "close" \in Running
    BY DEF Running
  <2>2. mailed' = mailed \/ mailed' = mailed \cup {Job(w)}
    <3>1. PICK to \in SUBSET {Job(w)} : mailed' = mailed \cup to
      BY <1>8 DEF Email
    <3>2. to = {} \/ to = {Job(w)}
      OBVIOUS
    <3> QED
      BY <3>1, <3>2
  <2>3. Moved(w) /\ Accounted(w)
    BY <1>8, <2>1, GotoShape DEF Email, Moved, Accounted
  <2> QED
    BY <1>8, <2>1, <2>2, <2>3, GotoShape, QuietCauses DEF Email, Shape
<1>9. CASE Close(w)
  <2>1. Moved(w) /\ Accounted(w)
    BY <1>9, LeaveShape DEF Close, Moved, Accounted
  <2> QED
    BY <1>9, <2>1, LeaveShape, QuietCauses DEF Close, Shape
<1> QED
  BY <1>1, <1>2, <1>3, <1>4, <1>5, <1>6, <1>7, <1>8, <1>9 DEF Work

(* A signal that the task survives sends it to close, to failure or on.    *)
LEMMA SignalCloses ==
    ASSUME TypeOK, NEW w \in Workers,
           proc' = [proc EXCEPT ![w].pc = "close", ![w].soft = TRUE]
    PROVE  /\ proc' = [proc EXCEPT ![w] = proc'[w]]
           /\ proc'[w] \in Procs
           /\ proc'[w].pc = "close"
           /\ proc'[w].msg = proc[w].msg
<1>1. proc \in [Workers -> Procs] /\ proc[w] \in Procs
  BY DEF TypeOK
<1>2. /\ proc' = [proc EXCEPT ![w] = proc'[w]]
      /\ proc'[w] = [proc[w] EXCEPT !.pc = "close", !.soft = TRUE]
  BY <1>1
<1> QED
  BY <1>1, <1>2 DEF Procs, Running

LEMMA SignalFails ==
    ASSUME TypeOK, NEW w \in Workers,
           proc' = [proc EXCEPT ![w].pc = "failure", ![w].error = "generic",
                                ![w].soft = TRUE]
    PROVE  /\ proc' = [proc EXCEPT ![w] = proc'[w]]
           /\ proc'[w] \in Procs
           /\ proc'[w].pc = "failure"
           /\ proc'[w].error \in Failures
           /\ proc'[w].msg = proc[w].msg
<1>1. proc \in [Workers -> Procs] /\ proc[w] \in Procs
  BY DEF TypeOK
<1>2. /\ proc' = [proc EXCEPT ![w] = proc'[w]]
      /\ proc'[w] = [proc[w] EXCEPT !.pc = "failure", !.error = "generic", !.soft = TRUE]
  BY <1>1
<1> QED
  BY <1>1, <1>2 DEF Procs, Running, Writing, Failures

LEMMA SignalPasses ==
    ASSUME TypeOK, NEW w \in Workers, proc' = [proc EXCEPT ![w].soft = TRUE]
    PROVE  /\ proc' = [proc EXCEPT ![w] = proc'[w]]
           /\ proc'[w] \in Procs
           /\ proc'[w].pc = proc[w].pc
           /\ proc'[w].error = proc[w].error
           /\ proc'[w].msg = proc[w].msg
<1>1. proc \in [Workers -> Procs] /\ proc[w] \in Procs
  BY DEF TypeOK
<1>2. /\ proc' = [proc EXCEPT ![w] = proc'[w]]
      /\ proc'[w] = [proc[w] EXCEPT !.soft = TRUE]
  BY <1>1
<1> QED
  BY <1>1, <1>2 DEF Procs

(* A signal or a kill has the same shape as a step of the task.            *)
LEMMA InterruptShape ==
    ASSUME TypeOK, ProcOK, NEW w \in Workers, Interrupt(w)
    PROVE  Shape(w)
<1>0. proc[w].pc \in Running /\ Job(w) \in Jobs
  BY JobOfWorker DEF Interrupt, SoftRaised, SoftCancelled, SoftSwallowed, Kill, SoftLimit
<1>1. CASE SoftRaised(w)
  <2>1. /\ row' = row \/ Wrote(w)
        /\ UNCHANGED <<api, queue, accepted>>
        /\ mailed' = mailed \/ (proc[w].pc = "email" /\ mailed' = mailed \cup {Job(w)})
    BY <1>1 DEF SoftRaised, MayWrite, Wrote
  <2>2. CASE proc[w].pc = "pool" /\ Leave(w) /\ Blame(Job(w), "pool")
    <3>1. "pool" \in CauseKinds
      BY DEF CauseKinds
    <3>2. Moved(w) /\ Accounted(w)
      BY <1>0, <2>2, <3>1, LeaveShape, BlameType DEF Moved, Accounted
    <3> QED
      BY <1>0, <2>1, <2>2, <3>1, <3>2, LeaveShape, BlameType DEF Shape
  <2>3. CASE proc[w].pc = "close" /\ Leave(w) /\ UNCHANGED causes
    <3>1. row' = row
      BY <2>1, <2>3 DEF Wrote, Writing
    <3>2. Moved(w) /\ Accounted(w)
      BY <2>3, <3>1, LeaveShape DEF Moved, Accounted
    <3> QED
      BY <2>1, <2>3, <3>2, LeaveShape, QuietCauses DEF Shape
  <2>4. CASE /\ proc' = [proc EXCEPT ![w].pc = "close", ![w].soft = TRUE]
             /\ Blame(Job(w), "unmarked")
    <3>1. "unmarked" \in CauseKinds
      BY DEF CauseKinds
    <3>2. Moved(w) /\ Accounted(w)
      BY <1>0, <2>4, <3>1, SignalCloses, BlameType DEF Moved, Accounted
    <3> QED
      BY <1>0, <2>1, <2>4, <3>1, <3>2, SignalCloses, BlameType DEF Shape
  <2>5. CASE /\ proc' = [proc EXCEPT ![w].pc = "failure", ![w].error = "generic",
                                     ![w].soft = TRUE]
             /\ UNCHANGED causes
    <3>1. Moved(w) /\ Accounted(w)
      BY <2>5, SignalFails DEF Moved, Accounted
    <3> QED
      BY <2>1, <2>5, <3>1, SignalFails, QuietCauses DEF Shape
  <2> QED
    BY <1>1, <2>2, <2>3, <2>4, <2>5 DEF SoftRaised
<1>2. CASE SoftCancelled(w)
  <2>1. row' = row \/ Wrote(w)
    BY <1>2 DEF SoftCancelled, MayWrite, Wrote
  <2>2. "cancelled" \in CauseKinds
    BY DEF CauseKinds
  <2>3. CASE Leave(w)
    <3>1. Moved(w) /\ Accounted(w)
      BY <1>0, <1>2, <2>2, <2>3, LeaveShape, BlameType DEF SoftCancelled, Moved, Accounted
    <3> QED
      BY <1>0, <1>2, <2>1, <2>2, <2>3, <3>1, LeaveShape, BlameType DEF SoftCancelled, Shape
  <2>4. CASE proc' = [proc EXCEPT ![w].pc = "close", ![w].soft = TRUE]
    <3>1. Moved(w) /\ Accounted(w)
      BY <1>0, <1>2, <2>2, <2>4, SignalCloses, BlameType DEF SoftCancelled, Moved, Accounted
    <3> QED
      BY <1>0, <1>2, <2>1, <2>2, <2>4, <3>1, SignalCloses, BlameType DEF SoftCancelled, Shape
  <2> QED
    BY <1>2, <2>3, <2>4 DEF SoftCancelled
<1>3. CASE SoftSwallowed(w)
  <2>1. Moved(w)
    BY <1>3, SignalPasses DEF SoftSwallowed, Moved
  <2>2. Accounted(w)
    BY <1>0, <1>3, SignalPasses DEF SoftSwallowed, Accounted, Running, Writing
  <2> QED
    BY <1>3, <2>1, <2>2, SignalPasses, QuietCauses DEF SoftSwallowed, Shape
<1>4. CASE Kill(w)
  <2>1. row' = row \/ Wrote(w)
    BY <1>4 DEF Kill, MayWrite, Wrote
  <2>2. "killed" \in CauseKinds
    BY DEF CauseKinds
  <2>3. Moved(w) /\ Accounted(w)
    BY <1>0, <1>4, <2>2, LeaveShape, BlameType DEF Kill, Moved, Accounted
  <2> QED
    BY <1>0, <1>4, <2>1, <2>2, <2>3, LeaveShape, BlameType DEF Kill, Shape
<1> QED
  BY <1>1, <1>2, <1>3, <1>4 DEF Interrupt

LEMMA WorkerStep ==
    ASSUME TypeOK, ProcOK, NEW w \in Workers, Work(w) \/ Interrupt(w)
    PROVE  proc[w].pc \in Running /\ Shape(w)
<1>1. Work(w) => proc[w].pc \in Running
  BY DEF Work, PoolReady, PoolFails, Write, WriteFails, CheckSeed, Crawl, Score, Email,
         Close, Running
<1>2. Interrupt(w) => proc[w].pc \in Running
  BY DEF Interrupt, SoftRaised, SoftCancelled, SoftSwallowed, Kill, SoftLimit
<1> QED
  BY <1>1, <1>2, WorkShape, InterruptShape

(* The steps of the system, with those of the workers reduced to a shape.  *)
Step ==
    \/ \E j \in Jobs : CheckUrl(j)
    \/ \E j \in Jobs : CreateJob(j)
    \/ \E j \in Jobs : CreateJobFails(j)
    \/ \E j \in Jobs : Publish(j)
    \/ \E j \in Jobs : PublishFails(j)
    \/ ApiCrash
    \/ \E m \in Messages : BrokerLoses(m)
    \/ \E w \in Workers, m \in Messages : Accept(w, m)
    \/ \E w \in Workers : proc[w].pc \in Running /\ Shape(w)
    \/ UNCHANGED vars

LEMMA NextIsStep == TypeOK /\ ProcOK /\ [Next]_vars => Step
BY WorkerStep DEF Next, Handle, Finished, Step

-----------------------------------------------------------------------------
(* The inductive invariant.                                                *)

(* A message is in Redis or with the one worker that accepted it.          *)
Delivery ==
    /\ queue \cap accepted = {}
    /\ \A w \in Workers : proc[w].pc \in Running => proc[w].msg \in accepted
    /\ \A v, w \in Workers :
          proc[v].pc \in Running /\ proc[w].pc \in Running /\ proc[v].msg = proc[w].msg
          => v = w

(* Only an inserted job is published, and its handler is then done with it. *)
Placed ==
    /\ \A m \in queue \cup accepted :
          api[JobOf(m)] \in {"ok", "error"} /\ row[JobOf(m)].status # "NONE"
    /\ \A j \in Jobs : api[j] = "publish" => row[j].status # "NONE"

(* Without a duplicated publish there are no second copies.                *)
FirstCopies == "duplicate" \notin Faults => \A m \in queue \cup accepted : m[2] = 1

(* Until a worker accepts a job, its row is as it was inserted.            *)
Fresh == \A j \in Jobs : (\A m \in accepted : JobOf(m) # j) => row[j] \in {NoRow, Inserted}

(* A worker that has more to do for job j than to say goodbye.             *)
Active(w) == proc[w].pc \in Running \ {"close", "email"}

WorkedOn == \A j \in Jobs : row[j].status \in Phases =>
    \/ causes[j] # {}
    \/ api[j] = "publish"
    \/ \E m \in queue : JobOf(m) = j
    \/ \E w \in Workers : Active(w) /\ Job(w) = j

MailOK ==
    /\ MailMeansReport
    /\ \A j \in mailed : \E m \in accepted : JobOf(m) = j
    /\ \A w \in Workers : proc[w].pc = "email" => row[Job(w)].result

Inv ==
    /\ TypeOK
    /\ ProcOK
    /\ Delivery
    /\ Placed
    /\ FirstCopies
    /\ Fresh
    /\ CoherentReport
    /\ PhaseMatchesRow
    /\ WorkedOn
    /\ MailOK

LEMMA InvInit == Init => Inv
<1> SUFFICES ASSUME Init PROVE Inv
  OBVIOUS
<1>1. TypeOK
  BY IdleType, InsertedType DEF Init, TypeOK
<1>2. ProcOK /\ Delivery /\ Placed /\ FirstCopies /\ Fresh
  BY DEF Init, ProcOK, Delivery, Placed, FirstCopies, Fresh, IdleProc, Running, Writing
<1>3. CoherentReport /\ PhaseMatchesRow
  BY DEF Init, CoherentReport, PhaseMatchesRow, NoRow, IdleProc, Terminal
<1>4. WorkedOn /\ MailOK
  BY DEF Init, WorkedOn, MailOK, MailMeansReport, NoRow, IdleProc, Phases
<1> QED
  BY <1>1, <1>2, <1>3, <1>4 DEF Inv

(* The shape of a worker's step, said of one job and one other worker.     *)
LEMMA ShapeFrame ==
    ASSUME TypeOK, ProcOK, NEW w \in Workers, proc[w].pc \in Running, Shape(w)
    PROVE  /\ \A v \in Workers \ {w} : proc'[v] = proc[v]
           /\ \A j \in Jobs \ {Job(w)} : row'[j] = row[j]
           /\ \/ row'[Job(w)] = row[Job(w)]
              \/ /\ proc[w].pc \in Writing
                 /\ row'[Job(w)] =
                       Updated(row[Job(w)], StatusAt(proc[w].pc), proc[w].error)
           /\ proc'[w].pc \in Running => proc'[w].msg = proc[w].msg
BY JobOfWorker DEF TypeOK, Shape, Wrote, Written, Moved, IdleProc, Running, Writing

LEMMA ShapeType ==
    ASSUME TypeOK, ProcOK, NEW w \in Workers, proc[w].pc \in Running, Shape(w)
    PROVE  TypeOK'
<1>1. Job(w) \in Jobs
  BY JobOfWorker
<1>2. row' \in [Jobs -> Rows]
  <2>1. CASE row' = row
    BY <2>1 DEF TypeOK
  <2>2. CASE Wrote(w)
    <3>1. row[Job(w)] \in Rows /\ proc[w].error \in Failures \cup {"none"}
      BY <1>1 DEF TypeOK, Procs
    <3>2. Updated(row[Job(w)], StatusAt(proc[w].pc), proc[w].error) \in Rows
      BY <2>2, <3>1, UpdatedType, WritingType DEF Wrote
    <3> QED
      BY <2>2, <3>2 DEF Wrote, Written, TypeOK
  <2> QED
    BY <2>1, <2>2 DEF Shape
<1>3. proc' \in [Workers -> Procs]
  BY DEF TypeOK, Shape
<1>4. mailed' \subseteq Jobs
  BY <1>1 DEF TypeOK, Shape
<1> QED
  BY <1>2, <1>3, <1>4 DEF TypeOK, Shape

(* Every step keeps the types.                                             *)
LEMMA TypeStep == TypeOK /\ ProcOK /\ Step => TypeOK'
<1> SUFFICES ASSUME TypeOK, ProcOK, Step PROVE TypeOK'
  OBVIOUS
<1>1. ASSUME NEW j \in Jobs, CheckUrl(j) PROVE TypeOK'
  BY <1>1 DEF CheckUrl, TypeOK
<1>2. ASSUME NEW j \in Jobs, CreateJob(j) PROVE TypeOK'
  BY <1>2, InsertedType DEF CreateJob, TypeOK
<1>3. ASSUME NEW j \in Jobs, CreateJobFails(j) PROVE TypeOK'
  <2>1. "enqueue" \in CauseKinds
    BY DEF CauseKinds
  <2>2. causes' \in [Jobs -> SUBSET CauseKinds]
    BY <1>3, <2>1, BlameType DEF CreateJobFails, TypeOK
  <2> QED
    BY <1>3, <2>2, InsertedType DEF CreateJobFails, TypeOK
<1>4. ASSUME NEW j \in Jobs, Publish(j) PROVE TypeOK'
  <2>1. <<j, 1>> \in Messages /\ <<j, 2>> \in Messages
    BY DEF Messages, Copies
  <2> QED
    BY <1>4, <2>1 DEF Publish, TypeOK
<1>5. ASSUME NEW j \in Jobs, PublishFails(j) PROVE TypeOK'
  <2>1. "enqueue" \in CauseKinds /\ <<j, 1>> \in Messages
    BY DEF CauseKinds, Messages, Copies
  <2>2. causes' \in [Jobs -> SUBSET CauseKinds]
    BY <1>5, <2>1, BlameType DEF PublishFails, TypeOK
  <2> QED
    BY <1>5, <2>1, <2>2 DEF PublishFails, TypeOK
<1>6. ASSUME ApiCrash PROVE TypeOK'
  <2>1. causes' \in [Jobs -> SUBSET CauseKinds]
    BY <1>6 DEF ApiCrash, TypeOK, CauseKinds
  <2> QED
    BY <1>6, <2>1 DEF ApiCrash, TypeOK
<1>7. ASSUME NEW m \in Messages, BrokerLoses(m) PROVE TypeOK'
  <2>1. "lost" \in CauseKinds /\ JobOf(m) \in Jobs
    BY JobType DEF CauseKinds
  <2>2. causes' \in [Jobs -> SUBSET CauseKinds]
    BY <1>7, <2>1, BlameType DEF BrokerLoses
  <2> QED
    BY <1>7, <2>2 DEF BrokerLoses, TypeOK
<1>8. ASSUME NEW w \in Workers, NEW m \in Messages, Accept(w, m) PROVE TypeOK'
  <2>1. [IdleProc EXCEPT !.msg = m, !.pc = "pool"] \in Procs
    BY IdleType DEF Procs, Running
  <2> QED
    BY <1>8, <2>1 DEF Accept, TypeOK
<1>9. ASSUME NEW w \in Workers, proc[w].pc \in Running, Shape(w) PROVE TypeOK'
  BY <1>9, ShapeType
<1>10. ASSUME UNCHANGED vars PROVE TypeOK'
  BY <1>10 DEF vars, TypeOK
<1> QED
  BY <1>1, <1>2, <1>3, <1>4, <1>5, <1>6, <1>7, <1>8, <1>9, <1>10 DEF Step

(* What a worker that accepts a message looks like afterwards.             *)
LEMMA AcceptShape ==
    ASSUME TypeOK, NEW w \in Workers, NEW m \in Messages, Accept(w, m)
    PROVE  /\ proc'[w].msg = m /\ proc'[w].pc = "pool"
           /\ \A v \in Workers \ {w} : proc'[v] = proc[v]
BY DEF TypeOK, Accept, IdleProc

LEMMA ProcStep == TypeOK /\ ProcOK /\ Step => ProcOK'
<1> SUFFICES ASSUME TypeOK, ProcOK, Step PROVE ProcOK'
  OBVIOUS
<1>1. ASSUME NEW w \in Workers, NEW m \in Messages, Accept(w, m) PROVE ProcOK'
  BY <1>1, AcceptShape DEF ProcOK
<1>2. ASSUME NEW w \in Workers, proc[w].pc \in Running, Shape(w) PROVE ProcOK'
  <2>1. \/ proc'[w] = IdleProc
        \/ /\ proc'[w].msg \in Messages
           /\ proc'[w].pc \in Running
           /\ proc'[w].pc = "failure" => proc'[w].error \in Failures
    <3>1. CASE proc'[w].pc = "failure" /\ proc'[w].error \in Failures /\ proc'[w].msg = proc[w].msg
      BY <1>2, <3>1 DEF ProcOK, Running, Writing
    <3>2. CASE proc'[w].pc = "close" /\ proc'[w].msg = proc[w].msg
      BY <1>2, <3>2 DEF ProcOK, Running
    <3>3. CASE Wrote(w) /\ proc'[w].pc = After(proc[w].pc) /\ proc'[w].msg = proc[w].msg
      BY <1>2, <3>3 DEF ProcOK, Wrote, After, Running, Writing
    <3>4. CASE <<proc[w].pc, proc'[w].pc>> \in Onward /\ proc'[w].msg = proc[w].msg
      BY <1>2, <3>4 DEF ProcOK, Onward, Running, Writing
    <3>5. CASE /\ proc'[w].pc = proc[w].pc /\ proc'[w].msg = proc[w].msg
               /\ proc'[w].error = proc[w].error
      BY <1>2, <3>5 DEF ProcOK
    <3>6. Moved(w)
      BY <1>2 DEF Shape
    <3> QED
      BY <3>1, <3>2, <3>3, <3>4, <3>5, <3>6 DEF Moved
  <2>2. \A v \in Workers \ {w} : proc'[v] = proc[v]
    BY <1>2, ShapeFrame
  <2>3. IdleProc.pc = "idle" /\ "idle" \notin Running
    BY DEF IdleProc, Running, Writing
  <2>4. "failure" \in Running /\ "failure" # "idle"
    BY DEF Running, Writing
  <2> QED
    BY <2>1, <2>2, <2>3, <2>4 DEF ProcOK
<1>3. ASSUME UNCHANGED proc PROVE ProcOK'
  BY <1>3 DEF ProcOK
<1> QED
  BY <1>1, <1>2, <1>3 DEF Step, CheckUrl, CreateJob, CreateJobFails, Publish, PublishFails,
     ApiCrash, BrokerLoses, vars

(* Messages: nobody publishes a job twice, and acceptance takes it away.    *)
LEMMA MessagesStep ==
    TypeOK /\ ProcOK /\ Delivery /\ Placed /\ FirstCopies /\ Step
    => (Delivery /\ FirstCopies)'
<1> SUFFICES ASSUME TypeOK, ProcOK, Delivery, Placed, FirstCopies, Step
             PROVE  (Delivery /\ FirstCopies)'
  OBVIOUS
<1>1. ASSUME NEW j \in Jobs, api[j] = "publish", UNCHANGED <<proc, accepted>>,
             \/ queue' = queue \cup {<<j, 1>>}
             \/ "duplicate" \in Faults /\ queue' = queue \cup {<<j, 1>>, <<j, 2>>}
      PROVE  (Delivery /\ FirstCopies)'
  <2>1. <<j, 1>> \notin accepted /\ <<j, 2>> \notin accepted
    BY <1>1 DEF Placed, JobOf
  <2>2. Delivery'
    BY <1>1, <2>1 DEF Delivery
  <2>3. FirstCopies'
    BY <1>1 DEF FirstCopies
  <2> QED
    BY <2>2, <2>3
<1>2. ASSUME NEW w \in Workers, NEW m \in Messages, Accept(w, m)
      PROVE  (Delivery /\ FirstCopies)'
  <2>1. m \notin accepted /\ queue' = queue \ {m} /\ accepted' = accepted \cup {m}
    BY <1>2 DEF Accept, Delivery
  <2>2. Delivery'
    BY <1>2, <2>1, AcceptShape DEF Delivery
  <2>3. FirstCopies'
    BY <1>2, <2>1 DEF FirstCopies, Accept
  <2> QED
    BY <2>2, <2>3
<1>3. ASSUME NEW w \in Workers, proc[w].pc \in Running, Shape(w)
      PROVE  (Delivery /\ FirstCopies)'
  <2>1. UNCHANGED <<queue, accepted>>
    BY <1>3 DEF Shape
  <2>2. Delivery'
    BY <1>3, <2>1, ShapeFrame DEF Delivery
  <2>3. FirstCopies'
    BY <2>1 DEF FirstCopies
  <2> QED
    BY <2>2, <2>3
<1>4. ASSUME UNCHANGED <<proc, accepted>>, queue' \subseteq queue
      PROVE  (Delivery /\ FirstCopies)'
  BY <1>4 DEF Delivery, FirstCopies
<1>5. ASSUME NEW j \in Jobs, Publish(j) \/ PublishFails(j)
      PROVE  (Delivery /\ FirstCopies)'
  BY <1>1, <1>4, <1>5 DEF Publish, PublishFails
<1> QED
  BY <1>2, <1>3, <1>4, <1>5 DEF Step, CheckUrl, CreateJob, CreateJobFails, ApiCrash,
     BrokerLoses, vars

(* A written status is never NONE.                                         *)
LEMMA ShapeKeepsRow ==
    ASSUME TypeOK, ProcOK, NEW w \in Workers, proc[w].pc \in Running, Shape(w)
    PROVE  \A j \in Jobs : row[j].status # "NONE" => row'[j].status # "NONE"
<1>1. proc[w].pc \in Writing => StatusAt(proc[w].pc) # "NONE"
  BY DEF Writing, StatusAt
<1>2. SUFFICES ASSUME NEW j \in Jobs, row[j].status # "NONE"
               PROVE  row'[j].status # "NONE"
  OBVIOUS
<1>3. CASE row'[j] = row[j]
  BY <1>2, <1>3
<1>4. CASE /\ proc[w].pc \in Writing
           /\ row'[j] = Updated(row[j], StatusAt(proc[w].pc), proc[w].error)
  BY <1>1, <1>4 DEF Updated
<1> QED
  BY <1>3, <1>4, ShapeFrame

(* A job is published after its row exists, and only once.                 *)
LEMMA PlacedStep == TypeOK /\ ProcOK /\ Placed /\ Step => Placed'
<1> SUFFICES ASSUME TypeOK, ProcOK, Placed, Step PROVE Placed'
  OBVIOUS
<1>0. /\ \A m \in queue \cup accepted : JobOf(m) \in Jobs
      /\ \A j \in Jobs : JobOf(<<j, 1>>) = j /\ JobOf(<<j, 2>>) = j
  BY JobType DEF TypeOK, JobOf
<1>1. ASSUME NEW j \in Jobs, CheckUrl(j) PROVE Placed'
  BY <1>0, <1>1 DEF CheckUrl, Placed, TypeOK
<1>2. ASSUME NEW j \in Jobs, CreateJob(j) \/ CreateJobFails(j) PROVE Placed'
  <2>1. /\ \A k \in Jobs \ {j} : row'[k] = row[k] /\ api'[k] = api[k]
        /\ row'[j] = Inserted \/ api'[j] = "error"
        /\ api[j] = "insert"
        /\ UNCHANGED <<queue, accepted>>
    BY <1>2 DEF CreateJob, CreateJobFails, TypeOK
  <2>2. Inserted.status # "NONE"
    BY DEF Inserted, NoRow
  <2> QED
    BY <1>0, <2>1, <2>2 DEF Placed
<1>3. ASSUME NEW j \in Jobs, Publish(j) \/ PublishFails(j) PROVE Placed'
  <2>1. /\ api[j] = "publish" /\ api' \in [Jobs -> ApiPcs]
        /\ api'[j] \in {"ok", "error"}
        /\ \A k \in Jobs \ {j} : api'[k] = api[k]
        /\ UNCHANGED <<row, accepted>>
        /\ queue' \subseteq queue \cup {<<j, 1>>, <<j, 2>>}
    BY <1>3 DEF Publish, PublishFails, TypeOK, ApiPcs
  <2>2. row[j].status # "NONE"
    BY <2>1 DEF Placed
  <2>3. ASSUME NEW m \in queue' \cup accepted'
        PROVE  api'[JobOf(m)] \in {"ok", "error"} /\ row'[JobOf(m)].status # "NONE"
    <3>1. m \in queue \cup accepted \/ JobOf(m) = j
      BY <1>0, <2>1
    <3> QED
      BY <1>0, <2>1, <2>2, <3>1 DEF Placed
  <2> QED
    BY <2>1, <2>3 DEF Placed
<1>4. ASSUME ApiCrash PROVE Placed'
  BY <1>0, <1>4 DEF ApiCrash, InFlight, Placed, TypeOK
<1>5. ASSUME NEW m \in Messages, BrokerLoses(m) PROVE Placed'
  BY <1>5 DEF BrokerLoses, Placed
<1>6. ASSUME NEW w \in Workers, NEW m \in Messages, Accept(w, m) PROVE Placed'
  BY <1>6 DEF Accept, Placed
<1>7. ASSUME NEW w \in Workers, proc[w].pc \in Running, Shape(w) PROVE Placed'
  BY <1>0, <1>7, ShapeKeepsRow DEF Shape, Placed
<1>8. ASSUME UNCHANGED vars PROVE Placed'
  BY <1>8 DEF vars, Placed
<1> QED
  BY <1>1, <1>2, <1>3, <1>4, <1>5, <1>6, <1>7, <1>8 DEF Step

(* How a row changes: by its INSERT, or by the worker that has the job.    *)
LEMMA RowChange ==
    ASSUME TypeOK, ProcOK, Delivery, Placed, Step, NEW j \in Jobs, row'[j] # row[j]
    PROVE  /\ accepted' = accepted
           /\ \/ /\ row'[j] = Inserted
                 /\ \A m \in accepted : JobOf(m) # j
              \/ \E w \in Workers :
                    /\ proc[w].pc \in Writing
                    /\ Shape(w)
                    /\ Job(w) = j
                    /\ proc[w].msg \in accepted
                    /\ row'[j] = Updated(row[j], StatusAt(proc[w].pc), proc[w].error)
<1>1. ASSUME NEW k \in Jobs, CreateJob(k) \/ CreateJobFails(k)
      PROVE  /\ accepted' = accepted
             /\ row'[j] = Inserted
             /\ \A m \in accepted : JobOf(m) # j
  <2>1. k = j /\ row'[j] = Inserted /\ api[j] = "insert" /\ accepted' = accepted
    BY <1>1 DEF CreateJob, CreateJobFails, TypeOK
  <2> QED
    BY <2>1 DEF Placed
<1>2. ASSUME NEW w \in Workers, proc[w].pc \in Running, Shape(w)
      PROVE  /\ accepted' = accepted
             /\ proc[w].pc \in Writing
             /\ Job(w) = j
             /\ proc[w].msg \in accepted
             /\ row'[j] = Updated(row[j], StatusAt(proc[w].pc), proc[w].error)
  BY <1>2, ShapeFrame DEF Shape, Delivery
<1> QED
  BY <1>1, <1>2 DEF Step, CheckUrl, Publish, PublishFails, ApiCrash, BrokerLoses, Accept, vars

LEMMA FreshStep ==
    TypeOK /\ ProcOK /\ Delivery /\ Placed /\ Fresh /\ Step => Fresh'
<1> SUFFICES ASSUME TypeOK, ProcOK, Delivery, Placed, Fresh, Step,
                    NEW j \in Jobs, \A m \in accepted' : JobOf(m) # j
             PROVE  row'[j] \in {NoRow, Inserted}
  BY DEF Fresh
<1>1. accepted \subseteq accepted'
  BY DEF Step, CheckUrl, CreateJob, CreateJobFails, Publish, PublishFails, ApiCrash,
     BrokerLoses, Accept, Shape, vars
<1>2. row[j] \in {NoRow, Inserted}
  BY <1>1 DEF Fresh
<1>3. CASE row'[j] # row[j]
  BY <1>1, <1>3, RowChange DEF Job
<1> QED
  BY <1>2, <1>3

(* Acceptance is for ever, so a job with a sole run had none or that one.  *)
LEMMA AcceptedGrows == Step => accepted \subseteq accepted'
BY DEF Step, CheckUrl, CreateJob, CreateJobFails, Publish, PublishFails, ApiCrash,
   BrokerLoses, Accept, Shape, vars

LEMMA SoleBefore == \A j : Step /\ SoleRun(j)' => SoleRun(j)
BY AcceptedGrows DEF SoleRun

(* What an update of a coherent row at its worker's phase produces.        *)
LEMMA UpdateCoherent ==
    ASSUME NEW r \in Rows, NEW pc \in Writing, NEW e \in Failures \cup {"none"},
           pc = "failure" => e \in Failures,
           r.status \in RowAt(pc),
           r.status \notin Terminal => ~r.result /\ r.error = "none" /\ ~r.completed
    PROVE  LET u == Updated(r, StatusAt(pc), e) IN
           /\ u.status = "SUCCESS" => u.result /\ u.error = "none" /\ u.completed
           /\ u.status = "FAILURE" => u.error # "none" /\ u.completed
           /\ u.status \notin Terminal => ~u.result /\ u.error = "none" /\ ~u.completed
           /\ Rank(r.status) <= Rank(u.status)
           /\ u.status \in RowAt(After(pc))
<1> DEFINE u == Updated(r, StatusAt(pc), e)
<1>1. /\ u.status = StatusAt(pc)
      /\ u.error = IF StatusAt(pc) = "FAILURE" THEN e ELSE r.error
  BY DEF Updated
<1>2. /\ u.result <=> r.result \/ StatusAt(pc) = "SUCCESS"
      /\ u.completed <=> r.completed \/ StatusAt(pc) \in Terminal
  BY DEF Updated
<1>3. CASE pc = "started"
  <2>1. StatusAt(pc) = "STARTED" /\ r.status = "PENDING" /\ After(pc) = "check"
    BY <1>3 DEF StatusAt, RowAt, After
  <2> QED
    BY <1>1, <1>2, <2>1 DEF Terminal, Rank, RowAt
<1>4. CASE pc = "crawling"
  <2>1. StatusAt(pc) = "CRAWLING" /\ r.status = "STARTED" /\ After(pc) = "crawl"
    BY <1>4 DEF StatusAt, RowAt, After
  <2> QED
    BY <1>1, <1>2, <2>1 DEF Terminal, Rank, RowAt
<1>5. CASE pc = "scoring"
  <2>1. StatusAt(pc) = "SCORING" /\ r.status = "CRAWLING" /\ After(pc) = "score"
    BY <1>5 DEF StatusAt, RowAt, After
  <2> QED
    BY <1>1, <1>2, <2>1 DEF Terminal, Rank, RowAt
<1>6. CASE pc = "success"
  <2>1. StatusAt(pc) = "SUCCESS" /\ r.status = "SCORING" /\ After(pc) = "email"
    BY <1>6 DEF StatusAt, RowAt, After
  <2> QED
    BY <1>1, <1>2, <2>1 DEF Terminal, Rank, RowAt
<1>7. CASE pc = "failure"
  <2>1. StatusAt(pc) = "FAILURE" /\ r.status \in Phases \cup Terminal /\ After(pc) = "close"
    BY <1>7 DEF StatusAt, RowAt, After
  <2>2. e # "none"
    BY <1>7 DEF Failures
  <2>3. Rank(r.status) <= Rank("FAILURE")
    BY <2>1 DEF Rank, Phases, Terminal
  <2> QED
    BY <1>1, <1>2, <2>1, <2>2, <2>3 DEF Terminal, RowAt
<1> QED
  BY <1>3, <1>4, <1>5, <1>6, <1>7 DEF Writing

(* The change of a row that one task works on: its INSERT or an update     *)
(* from the phase the row shows.                                           *)
LEMMA SoleChange ==
    ASSUME Inv, Step, NEW j \in Jobs, SoleRun(j)', row'[j] # row[j]
    PROVE  \/ row[j] \in {NoRow, Inserted} /\ row'[j] = Inserted
           \/ \E w \in Workers :
                 /\ proc[w].pc \in Writing
                 /\ Shape(w)
                 /\ Job(w) = j
                 /\ proc[w].error \in Failures \cup {"none"}
                 /\ proc[w].pc = "failure" => proc[w].error \in Failures
                 /\ row[j].status \in RowAt(proc[w].pc)
                 /\ row'[j] = Updated(row[j], StatusAt(proc[w].pc), proc[w].error)
<1>1. CASE row'[j] = Inserted /\ \A m \in accepted : JobOf(m) # j
  BY <1>1 DEF Inv, Fresh
<1>2. ASSUME NEW w \in Workers, proc[w].pc \in Writing, Job(w) = j
      PROVE  /\ proc[w].error \in Failures \cup {"none"}
             /\ proc[w].pc = "failure" => proc[w].error \in Failures
             /\ row[j].status \in RowAt(proc[w].pc)
  <2>1. proc[w] \in Procs /\ proc[w].pc # "idle"
    BY <1>2 DEF Inv, TypeOK, Writing
  <2>2. row[j].status \in RowAt(proc[w].pc)
    BY <1>2, <2>1, SoleBefore DEF Inv, PhaseMatchesRow
  <2> QED
    BY <2>1, <2>2 DEF Inv, ProcOK, Procs
<1> QED
  BY <1>1, <1>2, RowChange DEF Inv

LEMMA CoherentStep == Inv /\ Step => CoherentReport'
<1> SUFFICES ASSUME Inv, Step, NEW j \in Jobs, SoleRun(j)'
             PROVE  LET r == row'[j] IN
                    /\ r.status = "SUCCESS" => r.result /\ r.error = "none" /\ r.completed
                    /\ r.status = "FAILURE" => r.error # "none" /\ r.completed
                    /\ r.status \notin Terminal =>
                          ~r.result /\ r.error = "none" /\ ~r.completed
  BY DEF CoherentReport
<1>1. CASE row'[j] = row[j]
  BY <1>1, SoleBefore DEF Inv, CoherentReport
<1>2. CASE row'[j] = Inserted
  BY <1>2 DEF Inserted, NoRow, Terminal
<1>3. ASSUME NEW w \in Workers,
             proc[w].pc \in Writing,
             proc[w].error \in Failures \cup {"none"},
             proc[w].pc = "failure" => proc[w].error \in Failures,
             row[j].status \in RowAt(proc[w].pc),
             row'[j] = Updated(row[j], StatusAt(proc[w].pc), proc[w].error)
      PROVE  LET r == row'[j] IN
             /\ r.status = "SUCCESS" => r.result /\ r.error = "none" /\ r.completed
             /\ r.status = "FAILURE" => r.error # "none" /\ r.completed
             /\ r.status \notin Terminal =>
                   ~r.result /\ r.error = "none" /\ ~r.completed
  <2>1. row[j] \in Rows
    BY DEF Inv, TypeOK
  <2>2. row[j].status \notin Terminal =>
           ~row[j].result /\ row[j].error = "none" /\ ~row[j].completed
    BY SoleBefore DEF Inv, CoherentReport
  <2> QED
    BY <1>3, <2>1, <2>2, UpdateCoherent
<1> QED
  BY <1>1, <1>2, <1>3, SoleChange

(* Where a worker's own step leads: its row shows the new phase.           *)
LEMMA PhaseOfMover ==
    ASSUME Inv, Step, NEW w \in Workers, proc[w].pc \in Running, Shape(w),
           SoleRun(Job(w)), proc'[w].pc # "idle"
    PROVE  row'[Job(w)].status \in RowAt(proc'[w].pc)
<1>1. Job(w) \in Jobs /\ row'[Job(w)] \in Rows
  BY JobOfWorker, ShapeType DEF Inv, TypeOK
<1>2. row[Job(w)].status \in RowAt(proc[w].pc)
  BY DEF Inv, PhaseMatchesRow, Running, Writing
<1>3. row[Job(w)] \in Rows /\ proc[w] \in Procs
  BY <1>1 DEF Inv, TypeOK
<1>4. CASE proc'[w].pc \in {"failure", "close"}
  <2>1. row'[Job(w)].status # "NONE"
    <3>1. row[Job(w)].status # "NONE"
      BY <1>1 DEF Inv, Delivery, Placed, Job
    <3> QED
      BY <1>1, <3>1, ShapeKeepsRow DEF Inv
  <2> QED
    BY <1>1, <1>4, <2>1 DEF RowAt, Rows, Statuses
<1>5. CASE Wrote(w) /\ proc'[w].pc = After(proc[w].pc)
  <2>1. row'[Job(w)] = Updated(row[Job(w)], StatusAt(proc[w].pc), proc[w].error)
    BY <1>1, <1>5 DEF Wrote, Written, Inv, TypeOK
  <2>2. proc[w].error \in Failures \cup {"none"}
    BY <1>3 DEF Procs
  <2>3. proc[w].pc = "failure" => proc[w].error \in Failures
    BY DEF Inv, ProcOK
  <2>4. row[Job(w)].status \notin Terminal =>
           /\ ~row[Job(w)].result
           /\ row[Job(w)].error = "none"
           /\ ~row[Job(w)].completed
    BY <1>1 DEF Inv, CoherentReport
  <2> QED
    BY <1>2, <1>3, <1>5, <2>1, <2>2, <2>3, <2>4, UpdateCoherent DEF Wrote
<1>6. CASE row' = row /\ <<proc[w].pc, proc'[w].pc>> \in Onward
  BY <1>2, <1>6 DEF Onward, RowAt
<1>7. CASE row' = row /\ proc'[w].pc = proc[w].pc
  BY <1>2, <1>7
<1>8. proc'[w] # IdleProc
  BY DEF IdleProc
<1>9. Moved(w)
  BY DEF Shape
<1> QED
  BY <1>4, <1>5, <1>6, <1>7, <1>8, <1>9 DEF Moved

LEMMA PhaseStep == Inv /\ Step => PhaseMatchesRow'
<1> SUFFICES ASSUME Inv, Step, NEW v \in Workers, proc'[v].pc # "idle", SoleRun(Job(v))'
             PROVE  row'[Job(v)'].status \in RowAt(proc'[v].pc)
  BY DEF PhaseMatchesRow
<1>0. TypeOK' /\ ProcOK' /\ Delivery'
  BY TypeStep, ProcStep, MessagesStep DEF Inv
<1>1. /\ proc'[v].pc \in Running
      /\ Job(v)' \in Jobs
      /\ proc'[v].msg \in accepted'
  <2>1. proc'[v].pc \in Running
    BY <1>0 DEF TypeOK, Procs
  <2> QED
    BY <1>0, <2>1, JobType DEF ProcOK, Delivery, Job
<1>2. ASSUME NEW m \in Messages, Accept(v, m)
      PROVE  row'[Job(v)'].status \in RowAt(proc'[v].pc)
  <2>1. proc'[v].msg = m /\ proc'[v].pc = "pool" /\ Job(v)' = JobOf(m)
    BY <1>2, AcceptShape DEF Inv, Job
  <2>2. m \in queue /\ m \notin accepted /\ m \in accepted' /\ row' = row
    BY <1>2 DEF Accept, Inv, Delivery
  <2>3. \A n \in accepted : JobOf(n) # JobOf(m)
    BY <2>1, <2>2, AcceptedGrows DEF SoleRun
  <2>4. row[JobOf(m)] = Inserted
    BY <1>1, <2>1, <2>2, <2>3 DEF Inv, Fresh, Placed, NoRow
  <2> QED
    BY <2>1, <2>2, <2>4 DEF RowAt, Inserted, NoRow
<1>3. ASSUME proc[v].pc \in Running, Shape(v)
      PROVE  row'[Job(v)'].status \in RowAt(proc'[v].pc)
  <2>1. Job(v)' = Job(v)
    BY <1>1, <1>3, ShapeFrame DEF Inv, Job
  <2>2. SoleRun(Job(v))
    BY <2>1, SoleBefore
  <2>3. row'[Job(v)].status \in RowAt(proc'[v].pc)
    BY <1>3, <2>2, PhaseOfMover
  <2> QED
    BY <2>1, <2>3
<1>4. ASSUME proc'[v] = proc[v], ~(Shape(v) /\ proc[v].pc \in Running)
      PROVE  row'[Job(v)'].status \in RowAt(proc'[v].pc)
  <2>1. Job(v)' = Job(v) /\ proc[v].pc \in Running /\ proc[v].msg \in accepted
        /\ JobOf(proc[v].msg) = Job(v)
    BY <1>1, <1>4 DEF Job, Inv, Delivery
  <2>2. row'[Job(v)] = row[Job(v)]
    <3>1. SUFFICES ASSUME row'[Job(v)] # row[Job(v)] PROVE FALSE
      OBVIOUS
    <3>2. PICK w \in Workers : /\ proc[w].pc \in Writing
                               /\ Shape(w)
                               /\ Job(w) = Job(v)
                               /\ proc[w].msg \in accepted
                               /\ accepted' = accepted
      BY <1>1, <2>1, <3>1, RowChange DEF Inv
    <3>3. proc[w].msg = proc[v].msg
      BY <2>1, <3>2 DEF SoleRun, Job
    <3>4. w = v
      BY <2>1, <3>2, <3>3 DEF Inv, Delivery, Running
    <3> QED
      BY <1>4, <2>1, <3>2, <3>4
  <2>3. row[Job(v)].status \in RowAt(proc[v].pc)
    BY <1>4, <2>1, SoleBefore DEF Inv, PhaseMatchesRow
  <2> QED
    BY <1>4, <2>1, <2>2, <2>3
<1>5. ASSUME NEW w \in Workers \ {v}, NEW m \in Messages, Accept(w, m)
      PROVE  proc'[v] = proc[v]
  BY <1>5, AcceptShape DEF Inv
<1>6. ASSUME NEW w \in Workers \ {v}, proc[w].pc \in Running, Shape(w)
      PROVE  proc'[v] = proc[v]
  BY <1>6, ShapeFrame DEF Inv
<1> QED
  BY <1>2, <1>3, <1>4, <1>5, <1>6 DEF Step, CheckUrl, CreateJob, CreateJobFails, Publish,
     PublishFails, ApiCrash, BrokerLoses, vars

(* Work is handed on without a gap: handler, broker, worker, or a cause.   *)
LEMMA WorkedOnStep == Inv /\ Step => WorkedOn'
<1> SUFFICES ASSUME Inv, Step, NEW j \in Jobs, row'[j].status \in Phases,
                    causes'[j] = {}
             PROVE  \/ api'[j] = "publish"
                    \/ \E m \in queue' : JobOf(m) = j
                    \/ \E w \in Workers : Active(w)' /\ Job(w)' = j
  BY DEF WorkedOn
<1> DEFINE Goal == \/ api'[j] = "publish"
                   \/ \E m \in queue' : JobOf(m) = j
                   \/ \E w \in Workers : Active(w)' /\ Job(w)' = j
           Before == \/ api[j] = "publish"
                     \/ \E m \in queue : JobOf(m) = j
                     \/ \E w \in Workers : Active(w) /\ Job(w) = j
<1>0. TypeOK /\ ProcOK /\ WorkedOn /\ api \in [Jobs -> ApiPcs]
  BY DEF Inv, TypeOK, ApiPcs
<1>1. ASSUME row'[j] = row[j], causes[j] = {} PROVE Before
  BY <1>0, <1>1 DEF WorkedOn
<1>2. ASSUME UNCHANGED proc PROVE \A w : (Active(w) <=> Active(w)') /\ Job(w) = Job(w)'
  BY <1>2 DEF Active, Job
<1>3. ASSUME NEW k \in Jobs, CheckUrl(k) PROVE Goal
  BY <1>0, <1>1, <1>2, <1>3 DEF CheckUrl
<1>4. ASSUME NEW k \in Jobs, CreateJob(k) PROVE Goal
  <2>1. CASE k = j
    BY <1>0, <1>4, <2>1 DEF CreateJob
  <2>2. CASE k # j
    BY <1>0, <1>1, <1>2, <1>4, <2>2 DEF CreateJob
  <2> QED
    BY <2>1, <2>2
<1>5. ASSUME NEW k \in Jobs, CreateJobFails(k) PROVE Goal
  <2>1. UNCHANGED causes \/ Blame(k, "enqueue")
    BY <1>5 DEF CreateJobFails
  <2>2. "enqueue" \in CauseKinds
    BY DEF CauseKinds
  <2>3. causes[j] = {}
    BY <1>0, <2>1, <2>2, BlameType
  <2>4. CASE row' = row
    BY <1>0, <1>1, <1>2, <1>5, <2>3, <2>4 DEF CreateJobFails
  <2>5. CASE row' # row /\ k = j
    <3>1. Blame(k, "enqueue") /\ row'[k] = Inserted
      BY <1>0, <1>5, <2>5 DEF CreateJobFails, TypeOK
    <3>2. Inserted.status \notin Terminal
      BY DEF Inserted, NoRow, Terminal
    <3> QED
      BY <1>0, <2>2, <2>5, <3>1, <3>2, BlameType
  <2>6. CASE row' # row /\ k # j
    BY <1>0, <1>1, <1>2, <1>5, <2>3, <2>6 DEF CreateJobFails, TypeOK
  <2> QED
    BY <2>4, <2>5, <2>6
<1>6. ASSUME NEW k \in Jobs, Publish(k) PROVE Goal
  <2>1. Before
    BY <1>1, <1>6 DEF Publish
  <2>2. queue \subseteq queue' /\ <<k, 1>> \in queue' /\ UNCHANGED proc
        /\ JobOf(<<k, 1>>) = k
    BY <1>6 DEF Publish, JobOf
  <2>3. k # j => api'[j] = api[j]
    BY <1>0, <1>6 DEF Publish
  <2> QED
    BY <1>2, <2>1, <2>2, <2>3
<1>7. ASSUME NEW k \in Jobs, PublishFails(k) PROVE Goal
  <2>1. "enqueue" \in CauseKinds
    BY DEF CauseKinds
  <2>2. causes[j] = {} /\ row'[j] = row[j]
    BY <1>0, <1>7, <2>1, BlameType DEF PublishFails
  <2>3. Before
    BY <1>1, <2>2
  <2>4. queue \subseteq queue' /\ UNCHANGED proc /\ JobOf(<<k, 1>>) = k
    BY <1>7 DEF PublishFails, JobOf
  <2>5. k # j => api'[j] = api[j]
    BY <1>0, <1>7 DEF PublishFails
  <2>6. k = j => <<k, 1>> \in queue'
    <3>1. SUFFICES ASSUME k = j, Blame(k, "enqueue") PROVE FALSE
      BY <1>7 DEF PublishFails
    <3>2. row'[j].status \in Terminal
      BY <1>0, <2>1, <3>1, BlameType
    <3> QED
      BY <3>2 DEF Terminal, Phases
  <2> QED
    BY <1>2, <2>3, <2>4, <2>5, <2>6
<1>8. ASSUME ApiCrash PROVE Goal
  <2>1. causes[j] = {} /\ api[j] # "publish" /\ row' = row /\ UNCHANGED <<queue, proc>>
    BY <1>0, <1>8 DEF ApiCrash
  <2> QED
    BY <1>1, <1>2, <2>1
<1>9. ASSUME NEW m \in Messages, BrokerLoses(m) PROVE Goal
  <2>1. "lost" \in CauseKinds /\ JobOf(m) \in Jobs
    BY JobType DEF CauseKinds
  <2>2. causes[j] = {} /\ row'[j] = row[j] /\ UNCHANGED <<api, proc>>
        /\ queue' = queue \ {m}
    BY <1>0, <1>9, <2>1, BlameType DEF BrokerLoses
  <2>3. JobOf(m) # j
    <3>1. SUFFICES ASSUME JobOf(m) = j PROVE FALSE
      OBVIOUS
    <3>2. row'[j].status \in Terminal
      BY <1>0, <1>9, <2>1, <3>1, BlameType DEF BrokerLoses
    <3> QED
      BY <3>2 DEF Terminal, Phases
  <2> QED
    BY <1>1, <1>2, <2>2, <2>3
<1>10. ASSUME NEW w \in Workers, NEW m \in Messages, Accept(w, m) PROVE Goal
  <2>1. Before
    BY <1>1, <1>10 DEF Accept
  <2>2. api' = api /\ queue' = queue \ {m}
    BY <1>10 DEF Accept
  <2>3. Active(w)' /\ Job(w)' = JobOf(m)
    BY <1>0, <1>10, AcceptShape DEF Active, Job, Running
  <2>4. \A v \in Workers \ {w} : (Active(v) <=> Active(v)') /\ Job(v) = Job(v)'
    BY <1>0, <1>10, AcceptShape DEF Active, Job
  <2>5. ~Active(w)
    BY <1>10 DEF Accept, Active, Running, Writing
  <2> QED
    BY <2>1, <2>2, <2>3, <2>4, <2>5
<1>11. ASSUME NEW w \in Workers, proc[w].pc \in Running, Shape(w) PROVE Goal
  <2>1. UNCHANGED <<api, queue>> /\ causes[j] = {}
    BY <1>11 DEF Shape
  <2>2. \A v \in Workers \ {w} : (Active(v) <=> Active(v)') /\ Job(v) = Job(v)'
    BY <1>0, <1>11, ShapeFrame DEF Active, Job
  <2>3. CASE Job(w) # j
    <3>1. row'[j] = row[j]
      BY <1>0, <1>11, <2>3, ShapeFrame
    <3> QED
      BY <1>1, <2>1, <2>2, <2>3, <3>1
  <2>4. CASE Job(w) = j /\ proc'[w].pc \in {"idle", "close", "email"}
    <3>1. j = Job(w) => row'[j].status \notin Terminal
      BY DEF Terminal, Phases
    <3>2. proc[w].pc \in {"close", "email"} /\ row' = row
      BY <1>11, <2>4, <3>1 DEF Shape, Accounted
    <3>3. ~Active(w)
      BY <3>2 DEF Active
    <3> QED
      BY <1>1, <2>1, <2>2, <3>2, <3>3
  <2>5. CASE Job(w) = j /\ proc'[w].pc \notin {"idle", "close", "email"}
    <3>1. proc'[w].pc \in Running /\ proc'[w].msg = proc[w].msg
      BY <1>0, <1>11, <2>5, ShapeFrame DEF Shape, Procs
    <3>2. Active(w)' /\ Job(w)' = j
      BY <2>5, <3>1 DEF Active, Job
    <3> QED
      BY <3>2
  <2> QED
    BY <2>3, <2>4, <2>5
<1>12. ASSUME UNCHANGED vars PROVE Goal
  BY <1>1, <1>2, <1>12 DEF vars
<1> QED
  BY <1>3, <1>4, <1>5, <1>6, <1>7, <1>8, <1>9, <1>10, <1>11, <1>12 DEF Step

LEMMA UpdatedResult ==
    ASSUME NEW r, NEW s, NEW m
    PROVE  Updated(r, s, m).result <=> r.result \/ s = "SUCCESS"
BY DEF Updated

(* A result is never taken back.                                           *)
LEMMA ResultStays ==
    ASSUME TypeOK, ProcOK, Delivery, Placed, Step, NEW j \in Jobs,
           \E m \in accepted : JobOf(m) = j, row[j].result
    PROVE  row'[j].result
<1>1. CASE row'[j] = row[j]
  BY <1>1
<1>2. ASSUME NEW s, NEW e, row'[j] = Updated(row[j], s, e)
      PROVE  row'[j].result
  BY <1>2, UpdatedResult
<1>3. CASE row'[j] # row[j]
  <2>1. PICK w \in Workers :
           row'[j] = Updated(row[j], StatusAt(proc[w].pc), proc[w].error)
    BY <1>3, RowChange
  <2> QED
    BY <1>2, <2>1
<1> QED
  BY <1>1, <1>3

LEMMA MailStep == Inv /\ Step => MailOK'
<1> SUFFICES ASSUME Inv, Step PROVE MailOK'
  OBVIOUS
<1>1. mailed \subseteq Jobs
  BY DEF Inv, TypeOK
<1>2. \A j \in mailed : row'[j].result /\ \E m \in accepted' : JobOf(m) = j
  BY <1>1, ResultStays, AcceptedGrows DEF Inv, MailOK, MailMeansReport
<1>3. ASSUME NEW w \in Workers, proc[w].pc \in Running, Shape(w) PROVE MailOK'
  <2>1. Job(w) \in Jobs /\ proc[w].msg \in accepted /\ JobOf(proc[w].msg) = Job(w)
    BY <1>3, JobOfWorker DEF Inv, Delivery, Job
  <2>2. proc[w].pc = "email" => row'[Job(w)].result
    BY <2>1, ResultStays DEF Inv, MailOK
  <2>3. \A j \in mailed' : row'[j].result /\ \E m \in accepted' : JobOf(m) = j
    BY <1>2, <1>3, <2>1, <2>2, AcceptedGrows DEF Shape
  <2>4. \A v \in Workers \ {w} : proc'[v] = proc[v]
    BY <1>3, ShapeFrame DEF Inv
  <2>5. ASSUME NEW v \in Workers \ {w}, proc'[v].pc = "email"
        PROVE  row'[Job(v)'].result
    <3>1. Job(v)' = Job(v) /\ Job(v) \in Jobs /\ row[Job(v)].result
          /\ proc[v].msg \in accepted /\ JobOf(proc[v].msg) = Job(v)
      BY <2>4, <2>5, JobOfWorker DEF Inv, MailOK, Delivery, Job, Running
    <3> QED
      BY <3>1, ResultStays DEF Inv
  <2>6. ASSUME proc'[w].pc = "email" PROVE row'[Job(w)'].result
    <3>1. Job(w)' = Job(w)
      BY <1>3, <2>6, ShapeFrame DEF Inv, Job, Running
    <3>2. CASE Wrote(w) /\ proc'[w].pc = After(proc[w].pc)
      <4>1. proc[w].pc = "success"
        BY <2>6, <3>2 DEF Wrote, After, Writing
      <4>2. row'[Job(w)] = Updated(row[Job(w)], "SUCCESS", proc[w].error)
        BY <2>1, <3>2, <4>1 DEF Wrote, Written, StatusAt, Inv, TypeOK
      <4>3. row'[Job(w)].result
        BY <4>2, UpdatedResult
      <4> QED
        BY <3>1, <4>3
    <3>3. CASE proc'[w].pc = proc[w].pc
      BY <2>2, <2>6, <3>1, <3>3
    <3>4. <<proc[w].pc, proc'[w].pc>> \notin Onward /\ proc'[w] # IdleProc
      BY <2>6 DEF Onward, IdleProc
    <3>5. Moved(w)
      BY <1>3 DEF Shape
    <3> QED
      BY <2>6, <3>2, <3>3, <3>4, <3>5 DEF Moved
  <2> QED
    BY <2>3, <2>5, <2>6 DEF MailOK, MailMeansReport
<1>4. ASSUME UNCHANGED mailed,
             \A v \in Workers : proc'[v] = proc[v] \/ proc'[v].pc = "pool"
      PROVE  MailOK'
  <2>1. ASSUME NEW v \in Workers, proc'[v].pc = "email" PROVE row'[Job(v)'].result
    <3>1. proc'[v] = proc[v]
      BY <1>4, <2>1
    <3>2. Job(v)' = Job(v) /\ Job(v) \in Jobs /\ row[Job(v)].result
          /\ proc[v].msg \in accepted /\ JobOf(proc[v].msg) = Job(v)
      BY <2>1, <3>1, JobOfWorker DEF Inv, MailOK, Delivery, Job, Running
    <3> QED
      BY <3>2, ResultStays DEF Inv
  <2> QED
    BY <1>2, <1>4, <2>1 DEF MailOK, MailMeansReport
<1>5. ASSUME NEW w \in Workers, NEW m \in Messages, Accept(w, m) PROVE MailOK'
  BY <1>4, <1>5, AcceptShape DEF Inv, Accept
<1> QED
  BY <1>3, <1>4, <1>5 DEF Step, CheckUrl, CreateJob, CreateJobFails, Publish, PublishFails,
     ApiCrash, BrokerLoses, vars

-----------------------------------------------------------------------------
(* The theorems.                                                           *)

(* Inv holds in every reachable state, under every choice of faults.       *)
THEOREM InvIsInvariant == Spec => []Inv
<1>1. Inv /\ [Next]_vars => Inv'
  <2> SUFFICES ASSUME Inv, [Next]_vars PROVE Inv'
    OBVIOUS
  <2>1. Step
    BY NextIsStep DEF Inv
  <2>2. TypeOK' /\ ProcOK' /\ Delivery' /\ FirstCopies' /\ Placed' /\ Fresh'
    BY <2>1, TypeStep, ProcStep, MessagesStep, PlacedStep, FreshStep DEF Inv
  <2>3. CoherentReport' /\ PhaseMatchesRow'
    BY <2>1, CoherentStep, PhaseStep
  <2>4. WorkedOn' /\ MailOK'
    BY <2>1, WorkedOnStep, MailStep
  <2> QED
    BY <2>2, <2>3, <2>4 DEF Inv
<1> QED
  BY <1>1, InvInit, PTL DEF Spec

(* Type correctness of the handler, the row, the broker and the workers.   *)
THEOREM TypeCorrect == Spec => []TypeOK
<1>1. Inv => TypeOK
  BY DEF Inv
<1> QED
  BY <1>1, InvIsInvariant, PTL

(* A report agrees with itself, whatever failed.                           *)
THEOREM ReportsCohere == Spec => []CoherentReport
<1>1. Inv => CoherentReport
  BY DEF Inv
<1> QED
  BY <1>1, InvIsInvariant, PTL

(* The phase a client polls is the phase the worker is in.                 *)
THEOREM PhasesMatch == Spec => []PhaseMatchesRow
<1>1. Inv => PhaseMatchesRow
  BY DEF Inv
<1> QED
  BY <1>1, InvIsInvariant, PTL

(* Only the six recorded losses strand a job.                              *)
THEOREM StrandedIsExplained == Spec => []StrandedHasCause
<1>1. Inv => StrandedHasCause
  <2> SUFFICES ASSUME Inv, NEW j \in Jobs, row[j].status \in Phases, ~InHand(j)
               PROVE  causes[j] # {}
    BY DEF StrandedHasCause
  <2>1. \A w \in Workers : Active(w) => proc[w].msg \in Messages
    BY DEF Inv, ProcOK, Active
  <2> QED
    BY <2>1 DEF Inv, WorkedOn, InHand
<1> QED
  BY <1>1, InvIsInvariant, PTL

(* A completion mail never announces a result that is not stored.          *)
THEOREM MailIsHonest == Spec => []MailMeansReport
<1>1. Inv => MailMeansReport
  BY DEF Inv, MailOK
<1> QED
  BY <1>1, InvIsInvariant, PTL

(* Early acknowledgement: without a doubled publish, at most one run.      *)
THEOREM RunsAtMostOnce == ASSUME "duplicate" \notin Faults PROVE Spec => []AtMostOneRun
<1>1. Inv => AtMostOneRun
  <2> SUFFICES ASSUME Inv PROVE AtMostOneRun
    OBVIOUS
  <2>1. queue \cap accepted = {}
    BY DEF Inv, Delivery
  <2>2. ASSUME NEW j \in Jobs, NEW m \in accepted, NEW n \in accepted,
               JobOf(m) = j, JobOf(n) = j
        PROVE  m = n
    <3>1. m \in Messages /\ n \in Messages /\ m[2] = 1 /\ n[2] = 1
      BY DEF Inv, TypeOK, FirstCopies
    <3> QED
      BY <2>2, <3>1 DEF Messages, JobOf
  <2> QED
    BY <2>1, <2>2 DEF AtMostOneRun, SoleRun
<1> QED
  BY <1>1, InvIsInvariant, PTL

(* While one task runs a job, its status only moves forward.               *)
THEOREM StatusesAdvance == Spec => NeverBackwards
<1>1. Inv /\ [Next]_vars =>
         [\A j \in Jobs : SoleRun(j)' => Rank(row[j].status) <= Rank(row'[j].status)]_vars
  <2> SUFFICES ASSUME Inv, Step, NEW j \in Jobs, SoleRun(j)'
               PROVE  Rank(row[j].status) <= Rank(row'[j].status)
    BY NextIsStep DEF Inv
  <2>1. row[j] \in Rows
    BY DEF Inv, TypeOK
  <2>2. Rank(row[j].status) \in Nat
    BY <2>1 DEF Rank, Rows, Statuses, Phases, Terminal
  <2>3. CASE row'[j] = row[j]
    BY <2>2, <2>3
  <2>4. CASE row[j] \in {NoRow, Inserted} /\ row'[j] = Inserted
    BY <2>4 DEF Rank, NoRow, Inserted, Terminal
  <2>5. ASSUME NEW w \in Workers,
               proc[w].pc \in Writing,
               proc[w].error \in Failures \cup {"none"},
               proc[w].pc = "failure" => proc[w].error \in Failures,
               row[j].status \in RowAt(proc[w].pc),
               row'[j] = Updated(row[j], StatusAt(proc[w].pc), proc[w].error)
        PROVE  Rank(row[j].status) <= Rank(row'[j].status)
    <3>1. row[j].status \notin Terminal =>
             ~row[j].result /\ row[j].error = "none" /\ ~row[j].completed
      BY SoleBefore DEF Inv, CoherentReport
    <3> QED
      BY <2>1, <2>5, <3>1, UpdateCoherent
  <2> QED
    BY <2>3, <2>4, <2>5, SoleChange
<1> QED
  BY <1>1, InvIsInvariant, PTL DEF Spec, NeverBackwards

=============================================================================
