--------------------------- MODULE ScanLifecycle ----------------------------
(***************************************************************************)
(* The life of an agent scan, from the request that creates it to the last *)
(* message about it.                                                       *)
(*                                                                         *)
(*   backend/api/v1/agent_scans.py  create_agent_scan: check the target,   *)
(*       insert the scan_jobs row, hand run_agent_task to Celery           *)
(*   backend/workers/agent_worker.py  _run: the task, one database commit  *)
(*       at a time, with the terminal event and the SIEM message           *)
(*   backend/workers/siem_worker.py  _ship: the follow-up task             *)
(*   backend/api/v1/targets.py  delete_target, whose database cascade is   *)
(*       the only thing that removes a scan                                *)
(*                                                                         *)
(* All scans of the model are scans of one target.  Celery acknowledges a  *)
(* message when its execution starts, so a message is executed again only  *)
(* if the Redis broker handed it out twice before that (its visibility     *)
(* timeout passed while the message was prefetched), and an execution that *)
(* dies is not repeated.                                                   *)
(***************************************************************************)
EXTENDS Integers, FiniteSets

CONSTANTS
    Scans,          \* scan ids, one per create_agent_scan request
    Procs,          \* worker pool processes (replicas x --concurrency)
    NoScan,         \* what an idle process works on
    MaxDeliveries,  \* bound on the deliveries of one task message
    Deaths,         \* BOOLEAN: can requests and executions die half-way?
    SiemEnabled,    \* BOOLEAN: settings.siem_enabled
    WorkerTasks     \* the task names the worker processes have registered

ASSUME ScansAssumption == NoScan \notin Scans
ASSUME DeliveriesAssumption == MaxDeliveries \in Nat \ {0}
ASSUME SwitchesAssumption == Deaths \in BOOLEAN /\ SiemEnabled \in BOOLEAN
ASSUME WorkerTasksAssumption == "run_agent_task" \in WorkerTasks

VARIABLES
    target,     \* the targets row: "present", "deleting", "deleted"
    row,        \* scan_jobs.status; "none" before the insert, "deleted" after a cascade
    findings,   \* per scan, the executions whose findings are committed
    chains,     \* per scan, the executions whose attack chains are committed
    request,    \* the create_agent_scan request of each scan
    queue,      \* copies of the scan's run_agent_task message not yet executed
    started,    \* executions of the scan's task begun so far
    proc,       \* the worker processes
    announced,  \* terminal system events published (history)
    siem,       \* ship_to_siem messages not yet executed
    shipped,    \* what ship_to_siem forwarded (history)
    lost        \* scans a request or an execution died on (history)

db      == <<target, row, findings, chains>>
broker  == <<queue, started, siem>>
history == <<announced, shipped, lost>>
vars    == <<db, request, broker, proc, history>>

Executions == 1 .. MaxDeliveries

\* What the agent pipeline hands back: nothing, findings, findings and chains.
Reports == {"empty", "findings", "chains"}

WorkSteps == {"begin", "pipeline", "mark_failed", "record", "findings",
              "chains", "announce", "siem"}

Idle == [pc |-> "idle", scan |-> NoScan, run |-> 0, report |-> "empty"]

Status == {"none", "pending", "running", "completed", "failed", "deleted"}

TypeOK ==
    /\ target \in {"present", "deleting", "deleted"}
    /\ row \in [Scans -> Status]
    /\ findings \in [Scans -> SUBSET Executions]
    /\ chains \in [Scans -> SUBSET Executions]
    /\ request \in [Scans -> {"idle", "checked", "inserted", "answered",
                              "rejected", "died"}]
    /\ queue \in [Scans -> 0 .. MaxDeliveries]
    /\ started \in [Scans -> 0 .. MaxDeliveries]
    /\ proc \in [Procs -> [pc : WorkSteps, scan : Scans, run : Executions,
                           report : Reports] \cup {Idle}]
    /\ announced \subseteq [scan : Scans, run : Executions, report : Reports]
    /\ siem \subseteq [scan : Scans, run : Executions, report : Reports]
    /\ shipped \subseteq [scan : Scans, run : Executions, report : Reports,
                          rows : SUBSET Executions]
    /\ lost \subseteq Scans

Init ==
    /\ target = "present"
    /\ row = [s \in Scans |-> "none"]
    /\ findings = [s \in Scans |-> {}]
    /\ chains = [s \in Scans |-> {}]
    /\ request = [s \in Scans |-> "idle"]
    /\ queue = [s \in Scans |-> 0]
    /\ started = [s \in Scans |-> 0]
    /\ proc = [p \in Procs |-> Idle]
    /\ announced = {}
    /\ siem = {}
    /\ shipped = {}
    /\ lost = {}

-----------------------------------------------------------------------------
(* create_agent_scan                                                       *)

Requested(s, from, to) == /\ request[s] = from
                          /\ request' = [request EXCEPT ![s] = to]

\* The target is read and belongs to the caller's organisation; otherwise 404.
CheckTarget(s) ==
    /\ Requested(s, "idle", IF target = "deleted" THEN "rejected" ELSE "checked")
    /\ UNCHANGED <<db, broker, proc, history>>

\* db.add(scan); commit.  The foreign key fails when the target has gone.
InsertScan(s) ==
    /\ Requested(s, "checked", IF target = "deleted" THEN "rejected" ELSE "inserted")
    /\ row' = [row EXCEPT ![s] = IF target = "deleted" THEN @ ELSE "pending"]
    /\ UNCHANGED <<target, findings, chains, broker, proc, history>>

\* db.refresh(scan) finds the row, run_agent_task.delay(...), 201.
Enqueue(s) ==
    /\ row[s] /= "deleted"
    /\ Requested(s, "inserted", "answered")
    /\ queue' = [queue EXCEPT ![s] = 1]
    /\ UNCHANGED <<db, started, siem, proc, history>>

\* The server stops, the broker refuses the message, or the refresh finds
\* no row: the caller gets no 201, and an inserted row stays behind.
RequestDies(s) ==
    /\ \/ Deaths
       \/ row[s] = "deleted"
    /\ request[s] \in {"checked", "inserted"}
    /\ request' = [request EXCEPT ![s] = "died"]
    /\ lost' = lost \cup {s}
    /\ UNCHANGED <<db, broker, proc, announced, shipped>>

-----------------------------------------------------------------------------
(* The broker                                                              *)

Delivered(s) == queue[s] + started[s]

\* The visibility timeout passes while a worker holds the prefetched message:
\* Redis makes a second copy available, and the first is still executed.
Redeliver(s) ==
    /\ queue[s] > 0
    /\ Delivered(s) < MaxDeliveries
    /\ queue' = [queue EXCEPT ![s] = @ + 1]
    /\ UNCHANGED <<db, request, started, siem, proc, history>>

-----------------------------------------------------------------------------
(* run_agent_task: _run, one action per commit                             *)

At(p, step) == proc[p].pc = step

GoTo(p, step) == proc' = [proc EXCEPT ![p].pc = step]

Stop(p) == proc' = [proc EXCEPT ![p] = Idle]

Rowless(s) == row[s] \in {"none", "deleted"}

SetStatus(s, to) == row' = [row EXCEPT ![s] = to]

\* A free process takes a copy of the message and acknowledges it.
StartTask(p, s) ==
    /\ At(p, "idle")
    /\ queue[s] > 0
    /\ queue' = [queue EXCEPT ![s] = @ - 1]
    /\ started' = [started EXCEPT ![s] = @ + 1]
    /\ proc' = [proc EXCEPT ![p] = [pc |-> "begin", scan |-> s,
                                    run |-> started[s] + 1, report |-> "empty"]]
    /\ UNCHANGED <<db, request, siem, history>>

\* First session: status = running, or "scan not found".
BeginRun(p) ==
    LET s == proc[p].scan IN
    /\ At(p, "begin")
    /\ IF Rowless(s)
       THEN Stop(p) /\ UNCHANGED row
       ELSE GoTo(p, "pipeline") /\ SetStatus(s, "running")
    /\ UNCHANGED <<target, findings, chains, request, broker, history>>

\* run_agent_scan returns: no agent ever sets final_state["error"].
PipelineReturns(p) ==
    /\ At(p, "pipeline")
    /\ \E report \in Reports :
          proc' = [proc EXCEPT ![p].pc = "record", ![p].report = report]
    /\ UNCHANGED <<db, request, broker, history>>

\* run_agent_scan raises: an agent let an exception through.
PipelineRaises(p) ==
    /\ At(p, "pipeline")
    /\ GoTo(p, "mark_failed")
    /\ UNCHANGED <<db, request, broker, history>>

\* Mutant: the except branch returns without committing a status.
MarkFailed_Forgets(p) ==
    /\ At(p, "mark_failed")
    /\ Stop(p)
    /\ UNCHANGED <<db, request, broker, history>>

\* Mutant: the except branch resets the scan to pending.
MarkFailed_Resets(p) ==
    LET s == proc[p].scan IN
    /\ At(p, "mark_failed")
    /\ Stop(p)
    /\ IF Rowless(s) THEN UNCHANGED row ELSE SetStatus(s, "pending")
    /\ UNCHANGED <<target, findings, chains, request, broker, history>>

\* The except branch: status = failed if the scan is still there; no event.
MarkFailed(p) ==
    LET s == proc[p].scan IN
    /\ At(p, "mark_failed")
    /\ Stop(p)
    /\ IF Rowless(s) THEN UNCHANGED row ELSE SetStatus(s, "failed")
    /\ UNCHANGED <<target, findings, chains, request, broker, history>>

\* Mutant: the status assignment is missing.
RecordStatus_KeepsRunning(p) ==
    LET s == proc[p].scan IN
    /\ At(p, "record")
    /\ IF Rowless(s) THEN Stop(p) ELSE GoTo(p, "findings")
    /\ UNCHANGED <<db, request, broker, history>>

\* Mutant: the SIEM message is sent with the status, before the rows exist.
RecordStatus_ShipsEarly(p) ==
    LET s == proc[p].scan IN
    /\ At(p, "record")
    /\ IF Rowless(s)
       THEN Stop(p) /\ UNCHANGED <<row, siem>>
       ELSE /\ GoTo(p, "findings")
            /\ SetStatus(s, "completed")
            /\ siem' = siem \cup {[scan |-> s, run |-> proc[p].run,
                                  report |-> proc[p].report]}
    /\ UNCHANGED <<target, findings, chains, request, queue, started, history>>

\* Second session, first commit: status = completed, or "scan disappeared".
RecordStatus(p) ==
    LET s == proc[p].scan IN
    /\ At(p, "record")
    /\ IF Rowless(s)
       THEN Stop(p) /\ UNCHANGED row
       ELSE GoTo(p, "findings") /\ SetStatus(s, "completed")
    /\ UNCHANGED <<target, findings, chains, request, broker, history>>

\* Second commit: all Finding rows, or none when there is nothing to insert.
StoreFindings(p) ==
    LET s == proc[p].scan IN
    /\ At(p, "findings")
    /\ \/ /\ proc[p].report = "empty"
          /\ UNCHANGED findings
       \/ /\ proc[p].report /= "empty"
          /\ ~Rowless(s)
          /\ findings' = [findings EXCEPT ![s] = @ \cup {proc[p].run}]
    /\ GoTo(p, "chains")
    /\ UNCHANGED <<target, row, chains, request, broker, history>>

\* Third commit: the AttackChain rows.
StoreChains(p) ==
    LET s == proc[p].scan IN
    /\ At(p, "chains")
    /\ \/ /\ proc[p].report /= "chains"
          /\ UNCHANGED chains
       \/ /\ proc[p].report = "chains"
          /\ ~Rowless(s)
          /\ chains' = [chains EXCEPT ![s] = @ \cup {proc[p].run}]
    /\ GoTo(p, "announce")
    /\ UNCHANGED <<target, row, findings, request, broker, history>>

\* Mutant: the database error is swallowed and the task goes on.
RowsRefused_GoesOn(p) ==
    /\ \/ At(p, "findings") /\ proc[p].report /= "empty" /\ GoTo(p, "chains")
       \/ At(p, "chains") /\ proc[p].report = "chains" /\ GoTo(p, "announce")
    /\ UNCHANGED <<db, request, broker, history>>

\* The database refuses the rows (the scan is gone, a severity outside the
\* enum, a missing title): nothing catches the error and the task ends.
RowsRefused(p) ==
    /\ \/ At(p, "findings") /\ proc[p].report /= "empty"
       \/ At(p, "chains") /\ proc[p].report = "chains"
    /\ Stop(p)
    /\ UNCHANGED <<db, request, broker, history>>

Message(p) == [scan |-> proc[p].scan, run |-> proc[p].run, report |-> proc[p].report]

\* publish_scan_event_sync of the terminal event; a Redis error is swallowed.
Announce(p) ==
    /\ At(p, "announce")
    /\ \/ announced' = announced \cup {Message(p)}
       \/ UNCHANGED announced
    /\ GoTo(p, "siem")
    /\ UNCHANGED <<db, request, broker, shipped, lost>>

\* send_task("workers.siem_worker.ship_to_siem") when SIEM is enabled.
EndTask(p) ==
    /\ At(p, "siem")
    /\ siem' = IF SiemEnabled THEN siem \cup {Message(p)} ELSE siem
    /\ Stop(p)
    /\ UNCHANGED <<db, request, queue, started, history>>

\* The process is killed or its database connection breaks, at any point.
TaskDies(p) ==
    /\ Deaths
    /\ ~At(p, "idle")
    /\ lost' = lost \cup {proc[p].scan}
    /\ Stop(p)
    /\ UNCHANGED <<db, request, broker, announced, shipped>>

-----------------------------------------------------------------------------
(* ship_to_siem                                                            *)

\* A free process executes ship_to_siem: it forwards the findings it reads,
\* unless the scan or its findings are gone.
ShipToSiem(p, m) ==
    /\ At(p, "idle")
    /\ m \in siem
    /\ "ship_to_siem" \in WorkerTasks
    /\ siem' = siem \ {m}
    /\ shipped' = IF Rowless(m.scan) \/ findings[m.scan] = {}
                  THEN shipped
                  ELSE shipped \cup {[scan |-> m.scan, run |-> m.run, report |-> m.report,
                                      rows |-> findings[m.scan]]}
    /\ UNCHANGED <<db, request, queue, started, proc, announced, lost>>

\* A worker that has not registered the task drops the message.
DiscardSiem(p, m) ==
    /\ At(p, "idle")
    /\ m \in siem
    /\ "ship_to_siem" \notin WorkerTasks
    /\ siem' = siem \ {m}
    /\ UNCHANGED <<db, request, queue, started, proc, history>>

-----------------------------------------------------------------------------
(* delete_target                                                           *)

\* The flush loads target.scan_jobs; with any row it would null a NOT NULL
\* foreign key and the request ends in an error.
DeleteTarget ==
    /\ target = "present"
    /\ \A s \in Scans : Rowless(s)
    /\ target' = "deleting"
    /\ UNCHANGED <<row, findings, chains, request, broker, proc, history>>

\* DELETE FROM targets; the database cascades to rows inserted meanwhile.
CommitDelete ==
    /\ target = "deleting"
    /\ target' = "deleted"
    /\ row' = [s \in Scans |-> IF row[s] = "none" THEN "none" ELSE "deleted"]
    /\ findings' = [s \in Scans |-> {}]
    /\ chains' = [s \in Scans |-> {}]
    /\ UNCHANGED <<request, broker, proc, history>>

-----------------------------------------------------------------------------
Request(s) == CheckTarget(s) \/ InsertScan(s) \/ Enqueue(s)

Work(p) == \/ BeginRun(p) \/ PipelineReturns(p) \/ PipelineRaises(p)
           \/ MarkFailed(p) \/ RecordStatus(p) \/ StoreFindings(p)
           \/ StoreChains(p) \/ RowsRefused(p) \/ Announce(p) \/ EndTask(p)

Next ==
    \/ \E s \in Scans : Request(s) \/ RequestDies(s) \/ Redeliver(s)
    \/ \E p \in Procs : Work(p) \/ TaskDies(p)
    \/ \E p \in Procs, s \in Scans : StartTask(p, s)
    \/ \E p \in Procs, m \in siem : ShipToSiem(p, m) \/ DiscardSiem(p, m)
    \/ DeleteTarget
    \/ CommitDelete

Spec == Init /\ [][Next]_vars

(***************************************************************************)
(* A request that entered the server runs to its end, a process that works *)
(* goes on working (every scanner and LLM call has a timeout), and a free  *)
(* process takes messages.  Nothing obliges a client to send a request, an *)
(* admin to delete a target, the broker to redeliver or anything to die.   *)
(***************************************************************************)
Fairness ==
    /\ \A s \in Scans : WF_vars(InsertScan(s) \/ Enqueue(s))
    /\ \A s \in Scans : WF_vars(\E p \in Procs : StartTask(p, s))
    /\ \A p \in Procs : WF_vars(Work(p))

FairSpec == Spec /\ Fairness

-----------------------------------------------------------------------------
(* Properties                                                              *)

\* A scan whose row says pending or running is on somebody's hands, unless
\* its request or an execution of it died: an accepted pending scan has a
\* message waiting or just taken, a running scan has a process that will
\* still write its final status.  A second execution of the same message
\* must not break this (agent_worker._run writes status three times).
UnfinishedIsWorkedOn ==
    \A s \in Scans \ lost :
        /\ row[s] = "pending" /\ request[s] = "answered"
              => queue[s] > 0 \/ \E p \in Procs : At(p, "begin") /\ proc[p].scan = s
        /\ row[s] = "running"
              => \E p \in Procs : /\ proc[p].pc \in {"pipeline", "mark_failed", "record"}
                                  /\ proc[p].scan = s

\* The terminal system event is published after all database commits: when
\* a client hears that a run completed, the findings and the chains of that
\* run are in the database, unless the whole scan has been deleted.
AnnouncedIsStored ==
    \A m \in announced : ~Rowless(m.scan) =>
        /\ m.report /= "empty" => m.run \in findings[m.scan]
        /\ m.report = "chains" => m.run \in chains[m.scan]

\* No attack chain without the findings it is made of: a run that fails
\* between its commits may leave findings without chains, never the reverse.
ChainsHaveFindings == \A s \in Scans : chains[s] \subseteq findings[s]

\* What ship_to_siem forwards contains everything the run that sent the
\* message found, although it is another task reading another transaction.
ShippedIsWhole == \A x \in shipped : x.report /= "empty" => x.run \in x.rows

\* Findings belong to a completed scan.  This needs each message to be
\* executed once: a redelivered task sets the status back to running.
StoredMeansCompleted ==
    \A s \in Scans : findings[s] /= {} => row[s] = "completed"

\* What a client relies on, see ScanStatus.
Promise == INSTANCE ScanStatus WITH
              status   <- row,
              told     <- {m.scan : m \in announced},
              MayRerun <- MaxDeliveries > 1

\* The worker's commits, requests and deletes are steps of ScanStatus.
KeepsPromise == Promise!Spec

\* Every scan a client got a 201 for ends as completed or failed, or is
\* deleted with its target, unless something died on it.
AcceptedScansEnd ==
    \A s \in Scans : request[s] = "answered" ~>
        row[s] \in {"completed", "failed", "deleted"} \/ s \in lost
=============================================================================
