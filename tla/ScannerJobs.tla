---------------------------- MODULE ScannerJobs -----------------------------
(***************************************************************************)
(* Single-scanner jobs and the registry of the target they scan.           *)
(*                                                                         *)
(*   backend/api/v1/targets.py  create, update, verify and delete a target *)
(*   backend/api/v1/scans.py    create_scan: check the target, insert the  *)
(*       scan_jobs row, hand run_scan to Celery with the target's URL      *)
(*   backend/workers/scan_worker.py  _run: one session around the whole    *)
(*       scan, and no handler for any error                                *)
(*                                                                         *)
(* All jobs of the model are jobs of one target.  Messages are delivered   *)
(* as in ScanLifecycle: acknowledged when their execution starts, and      *)
(* handed out again if the visibility timeout passes before.               *)
(***************************************************************************)
EXTENDS Scanners, Integers, FiniteSets

CONSTANTS
    Jobs,           \* scan ids, one per create_scan request
    Procs,          \* worker pool processes
    ScanProcs,      \* those whose worker has imported scan_worker
    NoJob,          \* what an idle process works on
    Urls,
    Types,          \* the scan types that are asked for
    MaxDeliveries   \* bound on the deliveries of one task message

ASSUME JobsAssumption == NoJob \notin Jobs
ASSUME ProcsAssumption == ScanProcs \subseteq Procs
ASSUME DeliveriesAssumption == MaxDeliveries \in Nat \ {0}

VARIABLES
    target,     \* the targets row
    verifying,  \* has verify_target found the record, with its commit to come?
    request,    \* the create_scan request of each job
    row,        \* scan_jobs.status; "none" before the insert, "deleted" after a cascade
    findings,   \* per job, the executions whose findings are committed
    queue,      \* copies of the run_scan message not yet executed
    started,    \* executions begun so far
    proc,       \* the worker processes
    used,       \* processes that have used the connections of core.db before
    proved,     \* URLs whose record verify_target has found (history)
    edited,     \* URLs given to a target that was, or was being, verified (history)
    basis,      \* per job, what its last final status was recorded on (history)
    lost        \* jobs a request or an execution ended on half-way (history)

registry == <<target, verifying, proved, edited>>
store    == <<row, findings, basis>>
broker   == <<queue, started>>
vars     == <<registry, store, request, broker, proc, used, lost>>

Executions == 1 .. MaxDeliveries

\* _dispatch.
Dispatch(type) == CASE type = "web"     -> "zap"
                    [] type = "api"     -> "nuclei"
                    [] type = "network" -> "nmap"
                    [] type = "sast"    -> "semgrep"
                    [] type = "secrets" -> "gitleaks"
                    [] OTHER            -> "unknown"

Unknown == [end |-> "unknown"]

\* A type that is not in the table is an error like those of the scanners.
ResultOf(type, o) == IF Dispatch(type) = "unknown" THEN "error" ELSE Result(Dispatch(type), o)

OutcomesOf(type) == IF Dispatch(type) = "unknown" THEN {Unknown} ELSE Outcomes

Idle == [pc |-> "idle"]

TypeOK ==
    /\ target \in [state : {"none", "present", "deleting", "deleted"},
                   url : Urls, verified : BOOLEAN]
    /\ verifying \in BOOLEAN
    /\ request \in [Jobs -> [pc : {"idle", "rejected"}] \cup
                            [pc : {"checked", "inserted", "answered", "died"},
                             url : Urls, type : Types]]
    /\ row \in [Jobs -> {"none", "pending", "running", "completed", "failed", "deleted"}]
    /\ findings \in [Jobs -> SUBSET Executions]
    /\ queue \in [Jobs -> 0 .. MaxDeliveries]
    /\ started \in [Jobs -> 0 .. MaxDeliveries]
    /\ proc \in [Procs -> {Idle} \cup
                          [pc : {"begin", "scan"}, job : Jobs, run : Executions] \cup
                          [pc : {"record", "store"}, job : Jobs, run : Executions,
                           outcome : Outcomes \cup {Unknown}]]
    /\ used \subseteq ScanProcs
    /\ proved \subseteq Urls
    /\ edited \subseteq Urls
    /\ basis \in [Jobs -> Outcomes \cup {Unknown}]
    /\ lost \subseteq Jobs

Init ==
    /\ target \in [state : {"none"}, url : Urls, verified : {FALSE}]
    /\ verifying = FALSE
    /\ request = [j \in Jobs |-> [pc |-> "idle"]]
    /\ row = [j \in Jobs |-> "none"]
    /\ findings = [j \in Jobs |-> {}]
    /\ queue = [j \in Jobs |-> 0]
    /\ started = [j \in Jobs |-> 0]
    /\ proc = [p \in Procs |-> Idle]
    /\ used = {}
    /\ proved = {}
    /\ edited = {}
    /\ basis = [j \in Jobs |-> Unknown]
    /\ lost = {}

-----------------------------------------------------------------------------
(* The registry                                                            *)

\* The row is there; a delete that has not committed yet hides nothing.
Registered == target.state \in {"present", "deleting"}

\* create_target: not verified.
CreateTarget ==
    /\ target.state = "none"
    /\ target' = [target EXCEPT !.state = "present"]
    /\ UNCHANGED <<verifying, proved, edited, store, request, broker, proc, used, lost>>

\* update_target with a URL: verified stays what it is.
EditTarget(u) ==
    /\ Registered
    /\ u /= target.url
    /\ target' = [target EXCEPT !.url = u]
    /\ edited' = IF target.verified \/ verifying THEN edited \cup {u} ELSE edited
    /\ UNCHANGED <<verifying, proved, store, request, broker, proc, used, lost>>

\* verify_target reads the row and finds the TXT record of this target under
\* the domain of its URL; without the record, 400.
LookUp ==
    /\ Registered
    /\ ~target.verified
    /\ verifying' = TRUE
    /\ proved' = proved \cup {target.url}
    /\ UNCHANGED <<target, edited, store, request, broker, proc, used, lost>>

\* Its commit writes verified, and nothing else; or the request ends before,
\* as it does when the row is gone.
EndVerify ==
    /\ verifying
    /\ verifying' = FALSE
    /\ \/ /\ Registered
          /\ target' = [target EXCEPT !.verified = TRUE]
       \/ UNCHANGED target
    /\ UNCHANGED <<proved, edited, store, request, broker, proc, used, lost>>

Rowless(j) == row[j] \in {"none", "deleted"}

\* delete_target: the flush loads target.scan_jobs, and fails with any row.
DeleteTarget ==
    /\ target.state = "present"
    /\ \A j \in Jobs : Rowless(j)
    /\ target' = [target EXCEPT !.state = "deleting"]
    /\ UNCHANGED <<verifying, proved, edited, store, request, broker, proc, used, lost>>

\* DELETE FROM targets; the database cascades to rows inserted meanwhile.
CommitDelete ==
    /\ target.state = "deleting"
    /\ target' = [target EXCEPT !.state = "deleted"]
    /\ row' = [j \in Jobs |-> IF row[j] = "none" THEN "none" ELSE "deleted"]
    /\ findings' = [j \in Jobs |-> {}]
    /\ UNCHANGED <<verifying, proved, edited, basis, request, broker, proc, used, lost>>

-----------------------------------------------------------------------------
(* create_scan                                                             *)

Requested(j, from, to) == /\ request[j].pc = from
                          /\ request' = [request EXCEPT ![j].pc = to]

\* Mutant: no check of verified.
CheckTarget_Unverified(j, type) ==
    /\ request[j].pc = "idle"
    /\ request' = [request EXCEPT ![j] =
                     IF Registered
                     THEN [pc |-> "checked", url |-> target.url, type |-> type]
                     ELSE [pc |-> "rejected"]]
    /\ UNCHANGED <<registry, store, broker, proc, used, lost>>

\* 404 without the target, 422 unless it is verified; the URL and the flag come
\* from one SELECT, and this URL is the one sent to the worker in the end.
CheckTarget(j, type) ==
    /\ request[j].pc = "idle"
    /\ request' = [request EXCEPT ![j] =
                     IF Registered /\ target.verified
                     THEN [pc |-> "checked", url |-> target.url, type |-> type]
                     ELSE [pc |-> "rejected"]]
    /\ UNCHANGED <<registry, store, broker, proc, used, lost>>

\* The commit, which the foreign key refuses when the target has gone (500).
InsertScan(j) ==
    /\ \/ /\ Registered
          /\ Requested(j, "checked", "inserted")
          /\ row' = [row EXCEPT ![j] = "pending"]
       \/ /\ ~Registered
          /\ Requested(j, "checked", "died")
          /\ UNCHANGED row
    /\ UNCHANGED <<registry, findings, basis, broker, proc, used, lost>>

\* db.refresh(scan) finds the row, run_scan.delay(...), 201.
Enqueue(j) ==
    /\ row[j] /= "deleted"
    /\ Requested(j, "inserted", "answered")
    /\ queue' = [queue EXCEPT ![j] = 1]
    /\ UNCHANGED <<registry, store, started, proc, used, lost>>

\* The server stops, the broker refuses, or the refresh finds no row.
RequestDies(j) ==
    /\ Requested(j, "checked", "died") \/ Requested(j, "inserted", "died")
    /\ lost' = lost \cup {j}
    /\ UNCHANGED <<registry, store, broker, proc, used>>

-----------------------------------------------------------------------------
(* The broker                                                              *)

Redeliver(j) ==
    /\ queue[j] > 0
    /\ queue[j] + started[j] < MaxDeliveries
    /\ queue' = [queue EXCEPT ![j] = @ + 1]
    /\ UNCHANGED <<registry, store, request, started, proc, used, lost>>

Take(p, j) ==
    /\ proc[p] = Idle
    /\ queue[j] > 0
    /\ queue' = [queue EXCEPT ![j] = @ - 1]
    /\ started' = [started EXCEPT ![j] = @ + 1]

\* A worker that has not registered run_scan drops the message.
DiscardJob(p, j) ==
    /\ Take(p, j)
    /\ p \notin ScanProcs
    /\ lost' = lost \cup {j}
    /\ UNCHANGED <<registry, store, request, proc, used>>

-----------------------------------------------------------------------------
(* run_scan                                                                *)

At(p, pc) == proc[p].pc = pc

\* asyncio.run ends; the pooled connections of core.db stay behind, bound to
\* its loop.
Stop(p) == /\ proc' = [proc EXCEPT ![p] = Idle]
           /\ used' = used \cup {p}

StartJob(p, j) ==
    /\ Take(p, j)
    /\ p \in ScanProcs
    /\ proc' = [proc EXCEPT ![p] = [pc |-> "begin", job |-> j, run |-> started[j] + 1]]
    /\ UNCHANGED <<registry, store, request, used, lost>>

\* status = running, or "scan not found".
BeginJob(p) ==
    LET j == proc[p].job IN
    /\ At(p, "begin")
    /\ IF Rowless(j)
       THEN Stop(p) /\ UNCHANGED row
       ELSE /\ proc' = [proc EXCEPT ![p].pc = "scan"]
            /\ row' = [row EXCEPT ![j] = "running"]
            /\ UNCHANGED used
    /\ UNCHANGED <<registry, findings, basis, request, broker, lost>>

\* The scanner returns a result.
ScannerReturns(p) ==
    LET j == proc[p].job IN
    /\ At(p, "scan")
    /\ \E o \in OutcomesOf(request[j].type) :
          /\ ResultOf(request[j].type, o) /= "raises"
          /\ proc' = [proc EXCEPT ![p] = [pc |-> "record", job |-> j, run |-> proc[p].run,
                                          outcome |-> o]]
    /\ UNCHANGED <<registry, store, request, broker, used, lost>>

\* Mutant: an error leaves the function before the status is written.
RecordStatus_Returns(p) ==
    LET j == proc[p].job IN
    /\ At(p, "record")
    /\ ~Rowless(j)
    /\ IF ResultOf(request[j].type, proc[p].outcome) = "error"
       THEN Stop(p) /\ UNCHANGED <<row, basis>>
       ELSE /\ proc' = [proc EXCEPT ![p].pc = "store"]
            /\ row' = [row EXCEPT ![j] = "completed"]
            /\ basis' = [basis EXCEPT ![j] = proc[p].outcome]
            /\ UNCHANGED used
    /\ UNCHANGED <<registry, findings, request, broker, lost>>

\* Mutant: an error puts the job back to pending for another try.
RecordStatus_Retries(p) ==
    LET j == proc[p].job IN
    /\ At(p, "record")
    /\ ~Rowless(j)
    /\ basis' = [basis EXCEPT ![j] = proc[p].outcome]
    /\ IF ResultOf(request[j].type, proc[p].outcome) = "error"
       THEN row' = [row EXCEPT ![j] = "pending"] /\ Stop(p)
       ELSE /\ row' = [row EXCEPT ![j] = "completed"]
            /\ proc' = [proc EXCEPT ![p].pc = "store"]
            /\ UNCHANGED used
    /\ UNCHANGED <<registry, findings, request, broker, lost>>

\* The second commit: failed or completed.
RecordStatus(p) ==
    LET j == proc[p].job IN
    /\ At(p, "record")
    /\ ~Rowless(j)
    /\ basis' = [basis EXCEPT ![j] = proc[p].outcome]
    /\ IF ResultOf(request[j].type, proc[p].outcome) = "error"
       THEN row' = [row EXCEPT ![j] = "failed"] /\ Stop(p)
       ELSE /\ row' = [row EXCEPT ![j] = "completed"]
            /\ proc' = [proc EXCEPT ![p].pc = "store"]
            /\ UNCHANGED used
    /\ UNCHANGED <<registry, findings, request, broker, lost>>

\* Mutant: findings are stored only when the row still says running.
StoreFindings_IfRunning(p) ==
    LET j == proc[p].job IN
    /\ At(p, "store")
    /\ findings' = IF row[j] = "running" /\ ResultOf(request[j].type, proc[p].outcome) = "findings"
                   THEN [findings EXCEPT ![j] = @ \cup {proc[p].run}]
                   ELSE findings
    /\ Stop(p)
    /\ UNCHANGED <<registry, row, basis, request, broker, lost>>

\* The third commit: the findings, if there are any.
StoreFindings(p) ==
    LET j == proc[p].job
        some == ResultOf(request[j].type, proc[p].outcome) = "findings"
    IN
    /\ At(p, "store")
    /\ some => ~Rowless(j)
    /\ findings' = IF some THEN [findings EXCEPT ![j] = @ \cup {proc[p].run}] ELSE findings
    /\ Stop(p)
    /\ UNCHANGED <<registry, row, basis, request, broker, lost>>

\* Nothing catches an exception, be it a scanner's (a report of an unexpected
\* shape, a program that may not be executed), the ORM's or the database's (the
\* row is gone, a title is null), or that of a connection bound to the loop of
\* an earlier task.  What was committed before stays.
TaskRaises(p) ==
    LET j == proc[p].job IN
    /\ \/ At(p, "begin") /\ p \in used
       \/ At(p, "scan")
       \/ At(p, "record") /\ Rowless(j)
       \/ At(p, "store") /\ ResultOf(request[j].type, proc[p].outcome) = "findings"
    /\ Stop(p)
    /\ lost' = lost \cup {j}
    /\ UNCHANGED <<registry, store, request, broker>>

\* The process is killed, and replaced by a new one.
TaskDies(p) ==
    /\ ~At(p, "idle")
    /\ proc' = [proc EXCEPT ![p] = Idle]
    /\ used' = used \ {p}
    /\ lost' = lost \cup {proc[p].job}
    /\ UNCHANGED <<registry, store, request, broker>>

-----------------------------------------------------------------------------
Registry == \/ CreateTarget \/ LookUp \/ EndVerify \/ DeleteTarget \/ CommitDelete
            \/ \E u \in Urls : EditTarget(u)

Create(j) == \/ InsertScan(j) \/ Enqueue(j) \/ RequestDies(j) \/ Redeliver(j)
             \/ \E type \in Types : CheckTarget(j, type)

Work(p) == \/ BeginJob(p) \/ ScannerReturns(p) \/ RecordStatus(p)
           \/ StoreFindings(p) \/ TaskRaises(p)

Next ==
    \/ Registry
    \/ \E j \in Jobs : Create(j)
    \/ \E p \in Procs : \/ Work(p) \/ TaskDies(p)
                        \/ \E j \in Jobs : StartJob(p, j) \/ DiscardJob(p, j)

Spec == Init /\ [][Next]_vars

(***************************************************************************)
(* A request in the server goes on, a process at work goes on (every       *)
(* scanner has a timeout), free processes take messages.                   *)
(***************************************************************************)
FairSpec ==
    /\ Spec
    /\ \A j \in Jobs : WF_vars(Enqueue(j) \/ RequestDies(j))
    /\ \A j \in Jobs : WF_vars(\E p \in Procs : StartJob(p, j) \/ DiscardJob(p, j))
    /\ \A p \in Procs : WF_vars(Work(p))

-----------------------------------------------------------------------------
(* Properties                                                              *)

\* A job that stays pending or running is one something ended on half-way: an
\* execution that died or raised, a worker without the task, a request that
\* never handed the job over.  Otherwise somebody is still at it.
UnfinishedIsExplained ==
    \A j \in Jobs \ lost :
        /\ row[j] = "pending" /\ request[j].pc = "answered"
              => queue[j] > 0 \/ \E p \in Procs : At(p, "begin") /\ proc[p].job = j
        /\ row[j] = "running"
              => \E p \in Procs : proc[p].pc \in {"scan", "record"} /\ proc[p].job = j

\* The status is committed before the findings.  When a job says completed
\* and its scanner found something, the findings are there, or being stored,
\* or an execution was lost on the way.
ReportedIsStored ==
    \A j \in Jobs \ lost :
        row[j] = "completed" /\ ResultOf(request[j].type, basis[j]) = "findings"
            => findings[j] /= {} \/ \E p \in Procs : At(p, "store") /\ proc[p].job = j

\* A completed job means that its program ran to its end: in time, with exit
\* status 0 where the wrapper looks at it, and for zap and semgrep with a
\* report.  A missing program, a timeout and an unknown scan type never look
\* like a clean result.
CompletedWasRun ==
    \A j \in Jobs : row[j] = "completed" =>
        /\ basis[j].end = "exit"
        /\ request[j].type \in {"api", "network"} => basis[j].status = 0
        /\ request[j].type \in {"web", "sast"} => basis[j].report \in {"clean", "issues"}

\* "User adds target -> verified via domain ownership check" (architecture.md:49):
\* a job scans a URL whose record was found, or one that took its place by an
\* edit of the target, which keeps the flag, also while verify_target is
\* between its lookup and its commit.
ScannedUrlWasProven ==
    \A j \in Jobs : started[j] > 0 => request[j].url \in proved \cup edited

\* What a client relies on, see ScanStatus; nothing is announced here.
Promise == INSTANCE ScanStatus WITH
              Scans <- Jobs, status <- row, told <- {}, MayRerun <- MaxDeliveries > 1

\* The commits of this worker, too, are steps of ScanStatus.
KeepsPromise == Promise!Spec

\* Every accepted job ends, unless it was lost.
AcceptedJobsEnd ==
    \A j \in Jobs : request[j].pc = "answered" ~>
        row[j] \in {"completed", "failed", "deleted"} \/ j \in lost
=============================================================================
