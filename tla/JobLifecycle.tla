---------------------------- MODULE JobLifecycle ----------------------------
(***************************************************************************)
(* What an audit job promises to the client that polls                     *)
(* GET /api/v1/audit/{job_id}: the job appears once, moves forward through *)
(* the phases that app/models/jobs.py declares, and ends in SUCCESS with a *)
(* result or in FAILURE with a message, never in both and never twice.     *)
(* No process, queue or fault appears here: AuditJobs is shown to          *)
(* implement this under the faults named in its run.                       *)
(***************************************************************************)
EXTENDS Naturals

CONSTANTS
    Jobs,      \* audit requests
    Failures   \* the messages a failed audit can carry

VARIABLE view  \* view[j]: what a GET of job j returns

Phases   == {"PENDING", "STARTED", "CRAWLING", "SCORING"}
Terminal == {"SUCCESS", "FAILURE"}
Statuses == Phases \cup Terminal \cup {"NONE"}    \* NONE: no such job, 404

(***************************************************************************)
(* The order of the statuses: a later phase has a higher rank.             *)
(***************************************************************************)
Rank(s) == CASE s = "NONE"     -> 0
             [] s = "PENDING"  -> 1
             [] s = "STARTED"  -> 2
             [] s = "CRAWLING" -> 3
             [] s = "SCORING"  -> 4
             [] s \in Terminal -> 5

Views == [status: Statuses, result: BOOLEAN, error: Failures \cup {"none"}]

NoView == [status |-> "NONE", result |-> FALSE, error |-> "none"]

Show(j, status, result, error) ==
    view' = [view EXCEPT ![j] = [status |-> status, result |-> result, error |-> error]]

Unfinished(j) == view[j].status \in Phases

Create(j) == view[j] = NoView /\ Show(j, "PENDING", FALSE, "none")

Advance(j) == \E s \in Phases :
    /\ Unfinished(j)
    /\ Rank(s) = Rank(view[j].status) + 1
    /\ Show(j, s, FALSE, "none")

Succeed(j) == view[j].status = "SCORING" /\ Show(j, "SUCCESS", TRUE, "none")

Fail(j) == \E m \in Failures : Unfinished(j) /\ Show(j, "FAILURE", FALSE, m)

Init == view = [j \in Jobs |-> NoView]

Next == \E j \in Jobs : Create(j) \/ Advance(j) \/ Succeed(j) \/ Fail(j)

Spec == Init /\ [][Next]_view
=============================================================================
