------------------------ MODULE ScanLifecycleProofs -------------------------
(***************************************************************************)
(* Theorems about ScanLifecycle and the documents of ScanReports, for any  *)
(* number of scans, processes, deliveries and readers.                     *)
(***************************************************************************)
EXTENDS ScanReports, TLAPS

Working(p) == proc[p].pc /= "idle"

\* Bookkeeping of the request and the broker: a scan has messages and
\* executions only after its row was inserted and its request answered.
RequestInv ==
    /\ \A s \in Scans :
         /\ request[s] \in {"idle", "checked"} => row[s] = "none"
         /\ request[s] = "inserted" => row[s] \in {"pending", "deleted"}
         /\ request[s] /= "answered" => queue[s] = 0 /\ started[s] = 0
         /\ request[s] = "answered" => row[s] /= "none"
         /\ queue[s] + started[s] <= MaxDeliveries
    /\ \A p \in Procs : Working(p) => request[proc[p].scan] = "answered"
    /\ \A m \in announced \cup siem : request[m.scan] = "answered"

\* Where an execution is bounds what the row of its scan can say.
WorkInv ==
    \A p \in Procs : Working(p) =>
        /\ proc[p].run <= started[proc[p].scan]
        /\ ~At(p, "begin") => row[proc[p].scan]
                                \in {"running", "completed", "failed", "deleted"}

\* No two executions of a scan share a number.
RunsDiffer ==
    \A p, q \in Procs : /\ Working(p) /\ Working(q) /\ p /= q
                        /\ proc[p].scan = proc[q].scan
                        => proc[p].run /= proc[q].run

\* The rows of run n of scan s that r reports are in the database.
Stored(s, n, r) == ~Rowless(s) => /\ r /= "empty" => n \in findings[s]
                                  /\ r = "chains" => n \in chains[s]

\* An execution past a commit has stored what that commit stores.
CommitsInv ==
    /\ \A p \in Procs :
         /\ At(p, "chains") /\ proc[p].report /= "empty"
               => Stored(proc[p].scan, proc[p].run, "findings")
         /\ At(p, "announce") \/ At(p, "siem")
               => Stored(proc[p].scan, proc[p].run, proc[p].report)
    /\ \A m \in siem : Stored(m.scan, m.run, m.report)

\* The statuses a scan may have while its only execution is at a step.
StatusAt(step) ==
    CASE step = "begin"                                -> {"pending", "deleted"}
      [] step \in {"pipeline", "mark_failed", "record"} -> {"running", "deleted"}
      [] OTHER                                         -> {"completed", "deleted"}

\* With a single delivery, the position of the one execution of a scan and
\* what is stored for it determine the status.
OnceInv ==
    MaxDeliveries = 1 =>
        /\ \A s \in Scans :
             /\ started[s] = 0 => row[s] \in {"none", "pending", "deleted"}
             /\ findings[s] /= {} => row[s] = "completed"
        /\ \A p \in Procs : Working(p) => row[proc[p].scan] \in StatusAt(proc[p].pc)

-----------------------------------------------------------------------------
\* A step keeps every variable in its type, once it is known that the copies
\* of a message are bounded.
LEMMA TypeStep == ASSUME TypeOK, RequestInv, [Next]_vars PROVE TypeOK'
<1> USE DeliveriesAssumption, ScansAssumption DEF Executions, Reports
<1> USE DEF db, broker, history
<1>1. ASSUME NEW s \in Scans, CheckTarget(s) PROVE TypeOK'
  BY <1>1 DEF TypeOK, CheckTarget, Requested
<1>2. ASSUME NEW s \in Scans, InsertScan(s) PROVE TypeOK'
  BY <1>2 DEF TypeOK, InsertScan, Requested, Status
<1>3. ASSUME NEW s \in Scans, Enqueue(s) PROVE TypeOK'
  BY <1>3 DEF TypeOK, Enqueue, Requested
<1>4. ASSUME NEW s \in Scans, RequestDies(s) PROVE TypeOK'
  BY <1>4 DEF TypeOK, RequestDies
<1>5. ASSUME NEW s \in Scans, Redeliver(s) PROVE TypeOK'
  BY <1>5 DEF TypeOK, Redeliver, Delivered
<1>6. ASSUME NEW p \in Procs, NEW s \in Scans, StartTask(p, s) PROVE TypeOK'
  <2> DEFINE job == [pc |-> "begin", scan |-> s, run |-> started[s] + 1,
                     report |-> "empty"]
  <2>1. queue' \in [Scans -> 0 .. MaxDeliveries]
    BY <1>6 DEF TypeOK, StartTask
  <2>2. started[s] + 1 \in Executions /\ started' \in [Scans -> 0 .. MaxDeliveries]
    BY <1>6 DEF TypeOK, StartTask, RequestInv
  <2>3. job \in [pc : WorkSteps, scan : Scans, run : Executions, report : Reports]
    BY <2>2 DEF WorkSteps
  <2>4. QED
    BY <1>6, <2>1, <2>2, <2>3 DEF TypeOK, StartTask
<1>7. ASSUME NEW p \in Procs, BeginRun(p) PROVE TypeOK'
  BY <1>7 DEF TypeOK, BeginRun, At, GoTo, Stop, SetStatus, Idle, WorkSteps, Status
<1>8. ASSUME NEW p \in Procs, PipelineReturns(p) PROVE TypeOK'
  <2>1. PICK report \in Reports :
              proc' = [proc EXCEPT ![p].pc = "record", ![p].report = report]
    BY <1>8 DEF PipelineReturns
  <2>2. proc[p] \in [pc : WorkSteps, scan : Scans, run : Executions, report : Reports]
    BY <1>8 DEF TypeOK, PipelineReturns, At, Idle
  <2>3. QED
    BY <1>8, <2>1, <2>2 DEF TypeOK, PipelineReturns, WorkSteps
<1>9. ASSUME NEW p \in Procs, PipelineRaises(p) PROVE TypeOK'
  BY <1>9 DEF TypeOK, PipelineRaises, At, GoTo, Idle, WorkSteps
<1>10. ASSUME NEW p \in Procs, MarkFailed(p) PROVE TypeOK'
  BY <1>10 DEF TypeOK, MarkFailed, At, Stop, SetStatus, Status
<1>11. ASSUME NEW p \in Procs, RecordStatus(p) PROVE TypeOK'
  BY <1>11 DEF TypeOK, RecordStatus, At, GoTo, Stop, SetStatus, Idle, WorkSteps, Status
<1>12. ASSUME NEW p \in Procs, StoreFindings(p) PROVE TypeOK'
  BY <1>12 DEF TypeOK, StoreFindings, At, GoTo, Idle, WorkSteps
<1>13. ASSUME NEW p \in Procs, StoreChains(p) PROVE TypeOK'
  BY <1>13 DEF TypeOK, StoreChains, At, GoTo, Idle, WorkSteps
<1>14. ASSUME NEW p \in Procs, RowsRefused(p) PROVE TypeOK'
  BY <1>14 DEF TypeOK, RowsRefused, Stop
<1>15. ASSUME NEW p \in Procs, Announce(p) PROVE TypeOK'
  BY <1>15 DEF TypeOK, Announce, At, GoTo, Message, Idle, WorkSteps
<1>16. ASSUME NEW p \in Procs, EndTask(p) PROVE TypeOK'
  BY <1>16 DEF TypeOK, EndTask, At, Stop, Message, Idle
<1>17. ASSUME NEW p \in Procs, TaskDies(p) PROVE TypeOK'
  BY <1>17 DEF TypeOK, TaskDies, At, Stop, Idle
<1>18. ASSUME NEW p \in Procs, NEW m \in siem, ShipToSiem(p, m) PROVE TypeOK'
  BY <1>18 DEF TypeOK, ShipToSiem
<1>19. ASSUME NEW p \in Procs, NEW m \in siem, DiscardSiem(p, m) PROVE TypeOK'
  BY <1>19 DEF TypeOK, DiscardSiem
<1>20. CASE DeleteTarget
  BY <1>20 DEF TypeOK, DeleteTarget
<1>21. CASE CommitDelete
  BY <1>21 DEF TypeOK, CommitDelete, Status
<1>22. CASE UNCHANGED vars
  BY <1>22 DEF TypeOK, vars
<1>23. QED
  BY <1>1, <1>2, <1>3, <1>4, <1>5, <1>6, <1>7, <1>8, <1>9, <1>10, <1>11, <1>12,
     <1>13, <1>14, <1>15, <1>16, <1>17, <1>18, <1>19, <1>20, <1>21, <1>22
     DEF Next, Request, Work

\* A step keeps the books of requests and messages.
LEMMA RequestStep == ASSUME TypeOK, RequestInv, [Next]_vars PROVE RequestInv'
<1> USE DeliveriesAssumption DEF db, broker, history, Working, At
<1>1. ASSUME NEW s \in Scans, CheckTarget(s) PROVE RequestInv'
  BY <1>1 DEF TypeOK, RequestInv, CheckTarget, Requested
<1>2. ASSUME NEW s \in Scans, InsertScan(s) PROVE RequestInv'
  BY <1>2 DEF TypeOK, RequestInv, InsertScan, Requested
<1>3. ASSUME NEW s \in Scans, Enqueue(s) PROVE RequestInv'
  BY <1>3 DEF TypeOK, RequestInv, Enqueue, Requested
<1>4. ASSUME NEW s \in Scans, RequestDies(s) PROVE RequestInv'
  BY <1>4 DEF TypeOK, RequestInv, RequestDies
<1>5. ASSUME NEW s \in Scans, Redeliver(s) PROVE RequestInv'
  BY <1>5 DEF TypeOK, RequestInv, Redeliver, Delivered
<1>6. ASSUME NEW p \in Procs, NEW s \in Scans, StartTask(p, s) PROVE RequestInv'
  BY <1>6 DEF TypeOK, RequestInv, StartTask
<1>7. ASSUME NEW p \in Procs, Work(p) \/ TaskDies(p) PROVE RequestInv'
  <2>1. UNCHANGED <<request, queue, started>> /\ Working(p)
    BY <1>7 DEF Work, BeginRun, MarkFailed, RecordStatus, PipelineReturns,
       PipelineRaises, StoreFindings, StoreChains, RowsRefused, Announce, EndTask,
       TaskDies
  <2>2. \/ UNCHANGED row
        \/ \E to \in {"running", "failed", "completed"} :
              SetStatus(proc[p].scan, to)
    BY <1>7 DEF Work, BeginRun, MarkFailed, RecordStatus, PipelineReturns,
       PipelineRaises, StoreFindings, StoreChains, RowsRefused, Announce, EndTask,
       TaskDies
  <2>3. \A q \in Procs : proc'[q].pc /= "idle" => Working(q) /\ proc'[q].scan = proc[q].scan
    BY <1>7, <2>1 DEF TypeOK, Work, BeginRun, MarkFailed, RecordStatus, PipelineReturns,
       PipelineRaises, StoreFindings, StoreChains, RowsRefused, Announce, EndTask,
       TaskDies, GoTo, Stop, Idle
  <2>4. announced' \cup siem' \subseteq announced \cup siem \cup {Message(p)}
    BY <1>7 DEF Work, BeginRun, MarkFailed, RecordStatus, PipelineReturns,
       PipelineRaises, StoreFindings, StoreChains, RowsRefused, Announce, EndTask,
       TaskDies
  <2>5. Message(p).scan = proc[p].scan
    BY DEF Message
  <2>6. proc[p].scan \in Scans /\ request[proc[p].scan] = "answered"
    BY <2>1 DEF TypeOK, RequestInv, Idle
  <2>7. \A s \in Scans : \/ row'[s] = row[s]
                         \/ request[s] = "answered" /\ row'[s] /= "none"
    BY <2>2, <2>6 DEF TypeOK, SetStatus
  <2>8. \A q \in Procs : proc'[q].pc /= "idle" => request'[proc'[q].scan] = "answered"
    BY <2>1, <2>3 DEF RequestInv
  <2>9. \A m \in announced' \cup siem' : request'[m.scan] = "answered"
    BY <2>1, <2>4, <2>5, <2>6 DEF RequestInv
  <2>10. QED
    BY <2>1, <2>7, <2>8, <2>9 DEF RequestInv
<1>8. ASSUME NEW p \in Procs, NEW m \in siem, ShipToSiem(p, m) \/ DiscardSiem(p, m)
      PROVE  RequestInv'
  BY <1>8 DEF RequestInv, ShipToSiem, DiscardSiem
<1>9. CASE DeleteTarget \/ UNCHANGED vars
  BY <1>9 DEF RequestInv, DeleteTarget, vars
<1>10. CASE CommitDelete
  BY <1>10 DEF TypeOK, RequestInv, CommitDelete
<1>11. QED
  BY <1>1, <1>2, <1>3, <1>4, <1>5, <1>6, <1>7, <1>8, <1>9, <1>10 DEF Next, Request

\* Executions keep their scan and number, and two of them never share both.
LEMMA WorkStep == ASSUME TypeOK, RequestInv, WorkInv, RunsDiffer, [Next]_vars
                  PROVE  (WorkInv /\ RunsDiffer)'
<1> USE DEF db, broker, history, Working, At
<1>1. ASSUME NEW s \in Scans, Request(s) \/ RequestDies(s) \/ Redeliver(s)
      PROVE  (WorkInv /\ RunsDiffer)'
  <2>1. UNCHANGED <<proc, started>>
    BY <1>1 DEF Request, CheckTarget, InsertScan, Enqueue, RequestDies, Redeliver
  <2>2. \A t \in Scans : row'[t] = row[t] \/ request[t] = "checked"
    BY <1>1 DEF TypeOK, Request, CheckTarget, InsertScan, Enqueue, Requested,
       RequestDies, Redeliver
  <2>3. \A q \in Procs : Working(q) => proc[q].scan \in Scans
    BY DEF TypeOK, Idle
  <2>4. QED
    BY <2>1, <2>2, <2>3 DEF RequestInv, WorkInv, RunsDiffer
<1>2. ASSUME NEW p \in Procs, NEW s \in Scans, StartTask(p, s)
      PROVE  (WorkInv /\ RunsDiffer)'
  <2>1. /\ UNCHANGED row
        /\ started[s] \in Nat
        /\ started' = [started EXCEPT ![s] = @ + 1]
        /\ proc'[p] = [pc |-> "begin", scan |-> s, run |-> started[s] + 1,
                       report |-> "empty"]
        /\ \A q \in Procs : q /= p => proc'[q] = proc[q]
    BY <1>2 DEF TypeOK, StartTask
  <2>2. \A q \in Procs : Working(q) => /\ proc[q].scan \in Scans
                                       /\ proc[q].run \in Nat
                                       /\ started[proc[q].scan] \in Nat
                                       /\ proc[q].run <= started[proc[q].scan]
    BY DEF TypeOK, WorkInv, Idle, Executions
  <2>3. WorkInv'
    <3> SUFFICES ASSUME NEW q \in Procs, Working(q)'
                 PROVE  /\ proc'[q].run <= started'[proc'[q].scan]
                        /\ ~At(q, "begin")' => row'[proc'[q].scan] \in
                              {"running", "completed", "failed", "deleted"}
      BY DEF WorkInv
    <3>1. CASE q = p
      BY <2>1, <3>1 DEF TypeOK
    <3>2. CASE q /= p
      BY <2>1, <2>2, <3>2 DEF TypeOK, WorkInv
    <3>3. QED
      BY <3>1, <3>2
  <2>4. RunsDiffer'
    BY <2>1, <2>2 DEF RunsDiffer
  <2>5. QED
    BY <2>3, <2>4
<1>3. ASSUME NEW p \in Procs, Work(p) \/ TaskDies(p) PROVE (WorkInv /\ RunsDiffer)'
  <2>1. /\ UNCHANGED started
        /\ \A q \in Procs : proc'[q].pc /= "idle" =>
              /\ Working(q)
              /\ proc'[q].scan = proc[q].scan
              /\ proc'[q].run = proc[q].run
              /\ q /= p => proc'[q] = proc[q]
    BY <1>3 DEF TypeOK, Work, BeginRun, MarkFailed, RecordStatus, PipelineReturns,
       PipelineRaises, StoreFindings, StoreChains, RowsRefused, Announce, EndTask,
       TaskDies, GoTo, Stop, Idle
  <2>2. RunsDiffer'
    BY <2>1 DEF RunsDiffer
  <2>3. \/ UNCHANGED row /\ (~At(p, "begin") \/ proc'[p].pc = "idle")
        \/ \E to \in {"running", "failed", "completed"} : SetStatus(proc[p].scan, to)
    BY <1>3 DEF TypeOK, Work, BeginRun, MarkFailed, RecordStatus, PipelineReturns,
       PipelineRaises, StoreFindings, StoreChains, RowsRefused, Announce, EndTask,
       TaskDies, Stop, Idle
  <2>4. \A q \in Procs : Working(q) => proc[q].scan \in Scans
    BY DEF TypeOK, Idle
  <2>5. \A t \in Scans : row'[t] = row[t] \/ row'[t] \in {"running", "failed", "completed"}
    BY <2>3 DEF TypeOK, SetStatus
  <2>6. ~At(p, "begin") \/ proc'[p].pc = "idle"
        \/ row'[proc[p].scan] \in {"running", "failed", "completed"}
    BY <2>3, <2>4, <1>3 DEF TypeOK, SetStatus
  <2>7. WorkInv'
    BY <2>1, <2>4, <2>5, <2>6 DEF WorkInv
  <2>8. QED
    BY <2>2, <2>7
<1>4. ASSUME NEW p \in Procs, NEW m \in siem, ShipToSiem(p, m) \/ DiscardSiem(p, m)
      PROVE  (WorkInv /\ RunsDiffer)'
  BY <1>4 DEF WorkInv, RunsDiffer, ShipToSiem, DiscardSiem
<1>5. CASE DeleteTarget \/ UNCHANGED vars
  BY <1>5 DEF WorkInv, RunsDiffer, DeleteTarget, vars
<1>6. CASE CommitDelete
  BY <1>6 DEF TypeOK, RequestInv, WorkInv, RunsDiffer, CommitDelete, Idle
<1>7. QED
  BY <1>1, <1>2, <1>3, <1>4, <1>5, <1>6 DEF Next

\* Rows of an answered request never disappear, except with their scan.
LEMMA RowsGrow ==
    ASSUME TypeOK, RequestInv, [Next]_vars,
           NEW s \in Scans, request[s] = "answered", ~Rowless(s)'
    PROVE  /\ ~Rowless(s)
           /\ findings[s] \subseteq findings'[s]
           /\ chains[s] \subseteq chains'[s]
<1> USE DEF db, broker, history, Rowless
<1>1. ASSUME NEW t \in Scans, Request(t)
      PROVE  UNCHANGED <<findings, chains>> /\ row'[s] = row[s]
  BY <1>1 DEF TypeOK, Request, CheckTarget, InsertScan, Enqueue, Requested
<1>2. ASSUME NEW p \in Procs, Work(p) \/ TaskDies(p)
      PROVE  /\ findings[s] \subseteq findings'[s]
             /\ chains[s] \subseteq chains'[s]
             /\ row'[s] \in {"none", "deleted"} \/ row[s] \notin {"none", "deleted"}
  <2>1. CASE StoreFindings(p)
    BY <2>1 DEF TypeOK, StoreFindings
  <2>2. CASE StoreChains(p)
    BY <2>2 DEF TypeOK, StoreChains
  <2>3. CASE BeginRun(p) \/ MarkFailed(p) \/ RecordStatus(p)
    BY <2>3 DEF TypeOK, BeginRun, MarkFailed, RecordStatus, SetStatus
  <2>4. QED
    BY <1>2, <2>1, <2>2, <2>3 DEF Work, PipelineReturns, PipelineRaises, RowsRefused,
       Announce, EndTask, TaskDies
<1>3. CASE CommitDelete
  BY <1>3 DEF TypeOK, CommitDelete
<1>4. QED
  BY <1>1, <1>2, <1>3 DEF Next, vars, RequestDies, Redeliver, StartTask, ShipToSiem,
     DiscardSiem, DeleteTarget

Stores == CommitsInv /\ AnnouncedIsStored /\ ChainsHaveFindings /\ ShippedIsWhole

\* Each step keeps what past commits stored, and a commit stores what the
\* next step of its execution relies on.
LEMMA StoresStep == ASSUME TypeOK, RequestInv, Stores, [Next]_vars PROVE Stores'
<1> USE DEF db, broker, history
<1>1. ASSUME NEW s \in Scans, NEW n, NEW r, request[s] = "answered", Stored(s, n, r)
      PROVE  Stored(s, n, r)'
  BY <1>1, RowsGrow DEF Stored
<1>2. AnnouncedIsStored'
  <2> SUFFICES ASSUME NEW m \in announced' PROVE Stored(m.scan, m.run, m.report)'
    BY DEF AnnouncedIsStored, Stored
  <2>1. CASE m \in announced
    <3>1. m.scan \in Scans /\ request[m.scan] = "answered"
      BY <2>1 DEF TypeOK, RequestInv
    <3>2. Stored(m.scan, m.run, m.report)
      BY <2>1 DEF Stores, AnnouncedIsStored, Stored
    <3>3. QED
      BY <1>1, <3>1, <3>2
  <2>2. CASE m \notin announced
    <3>1. PICK p \in Procs : Announce(p) /\ m = Message(p)
      BY <2>2 DEF Next, vars, Request, Work, CheckTarget, InsertScan, Enqueue, RequestDies,
         Redeliver, StartTask, BeginRun, PipelineReturns, PipelineRaises, MarkFailed,
         RecordStatus, StoreFindings, StoreChains, RowsRefused, Announce, EndTask,
         TaskDies, ShipToSiem, DiscardSiem, DeleteTarget, CommitDelete
    <3>2. Stored(m.scan, m.run, m.report)
      BY <3>1 DEF Stores, CommitsInv, Announce, Message
    <3>3. QED
      BY <3>1, <3>2 DEF Announce, Stored, Rowless
  <2>3. QED
    BY <2>1, <2>2
<1>3. \A m \in siem' : Stored(m.scan, m.run, m.report)'
  <2> SUFFICES ASSUME NEW m \in siem' PROVE Stored(m.scan, m.run, m.report)'
    OBVIOUS
  <2>1. CASE m \in siem
    <3>1. m.scan \in Scans /\ request[m.scan] = "answered"
      BY <2>1 DEF TypeOK, RequestInv
    <3>2. Stored(m.scan, m.run, m.report)
      BY <2>1 DEF Stores, CommitsInv
    <3>3. QED
      BY <1>1, <3>1, <3>2
  <2>2. CASE m \notin siem
    <3>1. PICK p \in Procs : EndTask(p) /\ m = Message(p)
      BY <2>2 DEF Next, vars, Request, Work, CheckTarget, InsertScan, Enqueue, RequestDies,
         Redeliver, StartTask, BeginRun, PipelineReturns, PipelineRaises, MarkFailed,
         RecordStatus, StoreFindings, StoreChains, RowsRefused, Announce, EndTask,
         TaskDies, ShipToSiem, DiscardSiem, DeleteTarget, CommitDelete
    <3>2. Stored(m.scan, m.run, m.report)
      BY <3>1 DEF Stores, CommitsInv, EndTask, Message
    <3>3. QED
      BY <3>1, <3>2 DEF EndTask, Stored, Rowless
  <2>3. QED
    BY <2>1, <2>2
<1>4. ASSUME NEW p \in Procs
      PROVE  /\ (At(p, "chains") /\ proc[p].report /= "empty")'
                   => Stored(proc[p].scan, proc[p].run, "findings")'
             /\ (At(p, "announce") \/ At(p, "siem"))'
                   => Stored(proc[p].scan, proc[p].run, proc[p].report)'
  <2>1. Working(p) => proc[p].scan \in Scans /\ request[proc[p].scan] = "answered"
    BY DEF TypeOK, RequestInv, Idle, Working
  <2>2. CASE proc'[p] = proc[p]
    <3>1. /\ At(p, "chains") /\ proc[p].report /= "empty"
                => Stored(proc[p].scan, proc[p].run, "findings")
          /\ At(p, "announce") \/ At(p, "siem")
                => Stored(proc[p].scan, proc[p].run, proc[p].report)
      BY DEF Stores, CommitsInv
    <3>2. \A n, r : Working(p) /\ Stored(proc[p].scan, n, r)
                       => Stored(proc[p].scan, n, r)'
      BY <1>1, <2>1, <2>2 DEF Stored
    <3>3. QED
      BY <2>2, <3>1, <3>2 DEF At, Working
  <2>3. CASE proc'[p].pc \notin {"chains", "announce", "siem"}
    BY <2>3 DEF At
  <2>4. CASE StoreFindings(p)
    <3>1. /\ proc'[p].pc = "chains"
          /\ proc'[p].scan = proc[p].scan
          /\ proc'[p].run = proc[p].run
          /\ proc'[p].report = proc[p].report
      BY <2>4 DEF TypeOK, StoreFindings, GoTo, At, Idle
    <3>2. proc[p].report /= "empty" => proc[p].run \in findings'[proc[p].scan]
      BY <2>1, <2>4 DEF TypeOK, StoreFindings, At, Working
    <3>3. QED
      BY <3>1, <3>2 DEF At, Stored
  <2>5. CASE StoreChains(p)
    <3>1. /\ proc'[p].pc = "announce"
          /\ proc'[p].scan = proc[p].scan
          /\ proc'[p].run = proc[p].run
          /\ proc'[p].report = proc[p].report
      BY <2>5 DEF TypeOK, StoreChains, GoTo, At, Idle
    <3>2. proc[p].report = "chains" => proc[p].run \in chains'[proc[p].scan]
      BY <2>1, <2>5 DEF TypeOK, StoreChains, At, Working
    <3>3. proc[p].report /= "empty" => Stored(proc[p].scan, proc[p].run, "findings")
      BY <2>5 DEF Stores, CommitsInv, StoreChains
    <3>4. UNCHANGED <<row, findings>>
      BY <2>5 DEF StoreChains
    <3>5. QED
      BY <3>1, <3>2, <3>3, <3>4 DEF At, Stored, Rowless
  <2>6. CASE Announce(p)
    <3>1. /\ proc'[p].pc = "siem"
          /\ proc'[p].scan = proc[p].scan
          /\ proc'[p].run = proc[p].run
          /\ proc'[p].report = proc[p].report
      BY <2>6 DEF TypeOK, Announce, GoTo, At, Idle
    <3>2. QED
      BY <2>6, <3>1 DEF Stores, CommitsInv, Announce, At, Stored, Rowless
  <2>7. \/ proc'[p] = proc[p]
        \/ proc'[p].pc \notin {"chains", "announce", "siem"}
        \/ StoreFindings(p) \/ StoreChains(p) \/ Announce(p)
    <3>1. ASSUME NEW q \in Procs, Work(q) \/ TaskDies(q)
          PROVE  \/ proc'[p] = proc[p]
                 \/ proc'[p].pc \notin {"chains", "announce", "siem"}
                 \/ StoreFindings(p) \/ StoreChains(p) \/ Announce(p)
      <4>1. q /= p => proc'[p] = proc[p]
        BY <3>1 DEF TypeOK, Work, BeginRun, PipelineReturns, PipelineRaises, MarkFailed,
           RecordStatus, StoreFindings, StoreChains, RowsRefused, Announce, EndTask,
           TaskDies, GoTo, Stop
      <4>2. CASE BeginRun(p) \/ PipelineReturns(p) \/ PipelineRaises(p) \/ MarkFailed(p)
        BY <4>2 DEF TypeOK, BeginRun, PipelineReturns, PipelineRaises, MarkFailed, GoTo,
           Stop, Idle
      <4>3. CASE RecordStatus(p) \/ RowsRefused(p) \/ EndTask(p) \/ TaskDies(p)
        BY <4>3 DEF TypeOK, RecordStatus, RowsRefused, EndTask, TaskDies, GoTo, Stop, Idle
      <4>4. QED
        BY <3>1, <4>1, <4>2, <4>3 DEF Work
    <3>2. ASSUME NEW q \in Procs, NEW s \in Scans, StartTask(q, s)
          PROVE  proc'[p] = proc[p] \/ proc'[p].pc = "begin"
      BY <3>2 DEF TypeOK, StartTask
    <3>3. QED
      BY <3>1, <3>2 DEF Next, vars, Request, CheckTarget, InsertScan, Enqueue,
         RequestDies, Redeliver, ShipToSiem, DiscardSiem, DeleteTarget, CommitDelete
  <2>8. QED
    BY <2>2, <2>3, <2>4, <2>5, <2>6, <2>7
<1>5. ChainsHaveFindings'
  <2>1. CASE UNCHANGED <<findings, chains>>
    BY <2>1 DEF Stores, ChainsHaveFindings
  <2>2. ASSUME NEW p \in Procs, StoreFindings(p) PROVE ChainsHaveFindings'
    BY <2>2 DEF TypeOK, StoreFindings, Stores, ChainsHaveFindings
  <2>3. ASSUME NEW p \in Procs, StoreChains(p) PROVE ChainsHaveFindings'
    <3>1. CASE UNCHANGED chains
      BY <2>3, <3>1 DEF StoreChains, Stores, ChainsHaveFindings
    <3>2. CASE proc[p].report = "chains" /\ ~Rowless(proc[p].scan)
      <4>1. proc[p].run \in findings[proc[p].scan]
        BY <2>3, <3>2 DEF StoreChains, Stores, CommitsInv, Stored
      <4>2. QED
        BY <2>3, <4>1 DEF TypeOK, StoreChains, Stores, ChainsHaveFindings
    <3>3. QED
      BY <2>3, <3>1, <3>2 DEF StoreChains
  <2>4. CASE CommitDelete
    BY <2>4 DEF CommitDelete, ChainsHaveFindings
  <2>5. QED
    BY <2>1, <2>2, <2>3, <2>4 DEF Next, vars, Request, Work, CheckTarget, InsertScan,
       Enqueue, RequestDies, Redeliver, StartTask, BeginRun, PipelineReturns,
       PipelineRaises, MarkFailed, RecordStatus, RowsRefused, Announce, EndTask,
       TaskDies, ShipToSiem, DiscardSiem, DeleteTarget
<1>6. ShippedIsWhole'
  <2>1. CASE UNCHANGED shipped
    BY <2>1 DEF Stores, ShippedIsWhole
  <2>2. ASSUME NEW p \in Procs, NEW m \in siem, ShipToSiem(p, m) PROVE ShippedIsWhole'
    BY <2>2 DEF ShipToSiem, Stores, CommitsInv, Stored, ShippedIsWhole
  <2>3. QED
    BY <2>1, <2>2 DEF Next, vars, Request, Work, CheckTarget, InsertScan,
       Enqueue, RequestDies, Redeliver, StartTask, BeginRun, PipelineReturns,
       PipelineRaises, MarkFailed, RecordStatus, StoreFindings, StoreChains, RowsRefused,
       Announce, EndTask, TaskDies, DiscardSiem, DeleteTarget, CommitDelete
<1>7. QED
  BY <1>2, <1>3, <1>4, <1>5, <1>6 DEF Stores, CommitsInv

(* Every variable stays in the set its code gives it: statuses in the      *)
(* enum of models.py, message copies within the deliveries, and a process  *)
(* either idle or at one step of _run with all that step needs.            *)
THEOREM TypeCorrect == Spec => []TypeOK
<1>1. Init => TypeOK /\ RequestInv
  BY DeliveriesAssumption DEF Init, TypeOK, RequestInv, Working, Idle, Status
<1>2. TypeOK /\ RequestInv /\ [Next]_vars => (TypeOK /\ RequestInv)'
  BY TypeStep, RequestStep
<1>3. QED
  BY <1>1, <1>2, PTL DEF Spec

\* The inductive invariant the theorems below rest on: types, the books of
\* requests, messages and executions, and what has been committed at each
\* step of _run.
Bookkeeping == TypeOK /\ RequestInv /\ WorkInv /\ RunsDiffer /\ Stores

(* At every moment the rows in the database, the copies of the messages    *)
(* and the positions of the executions agree with the order of the commits *)
(* in create_agent_scan and _run.                                          *)
THEOREM BookkeepingCorrect == Spec => []Bookkeeping
<1>1. Init => Bookkeeping
  BY DeliveriesAssumption DEF Init, Bookkeeping, TypeOK, RequestInv, WorkInv, RunsDiffer,
     Stores, CommitsInv, AnnouncedIsStored, ChainsHaveFindings, ShippedIsWhole, Working,
     At, Idle, Status
<1>2. Bookkeeping /\ [Next]_vars => Bookkeeping'
  BY TypeStep, RequestStep, WorkStep, StoresStep DEF Bookkeeping
<1>3. QED
  BY <1>1, <1>2, PTL DEF Spec

(* The terminal system event tells the truth: the findings and chains of   *)
(* the run it announces are committed (agent_worker.py publishes after its *)
(* last commit), however many executions of the task interleave.           *)
THEOREM AnnouncedStored == Spec => []AnnouncedIsStored
<1>1. Bookkeeping => AnnouncedIsStored
  BY DEF Bookkeeping, Stores
<1>2. QED
  BY <1>1, BookkeepingCorrect, PTL

(* Chains are never in the database without the findings of their run.     *)
THEOREM ChainsFollowFindings == Spec => []ChainsHaveFindings
<1>1. Bookkeeping => ChainsHaveFindings
  BY DEF Bookkeeping, Stores
<1>2. QED
  BY <1>1, BookkeepingCorrect, PTL

(* The SIEM task forwards all that the run that queued it found.           *)
THEOREM ShippedComplete == Spec => []ShippedIsWhole
<1>1. Bookkeeping => ShippedIsWhole
  BY DEF Bookkeeping, Stores
<1>2. QED
  BY <1>1, BookkeepingCorrect, PTL

-----------------------------------------------------------------------------
(* Unfinished scans are worked on                                          *)

Waiting(s)   == queue[s] > 0 \/ \E p \in Procs : At(p, "begin") /\ proc[p].scan = s
Executing(s) == \E p \in Procs : /\ proc[p].pc \in {"pipeline", "mark_failed", "record"}
                                 /\ proc[p].scan = s

\* The hand-over from request to message to execution to status drops no scan.
LEMMA UnfinishedStep ==
    ASSUME TypeOK, RequestInv, UnfinishedIsWorkedOn, [Next]_vars
    PROVE  UnfinishedIsWorkedOn'
<1> SUFFICES ASSUME NEW s \in Scans, s \notin lost'
             PROVE  /\ row'[s] = "pending" /\ request'[s] = "answered" => Waiting(s)'
                    /\ row'[s] = "running" => Executing(s)'
  BY DEF UnfinishedIsWorkedOn, Waiting, Executing
<1> USE DEF db, broker, history
<1>1. s \notin lost =>
        /\ row[s] = "pending" /\ request[s] = "answered" => Waiting(s)
        /\ row[s] = "running" => Executing(s)
  BY DEF UnfinishedIsWorkedOn, Waiting, Executing
<1>2. ASSUME NEW t \in Scans, CheckTarget(t) \/ InsertScan(t)
      PROVE  /\ row'[s] = "pending" /\ request'[s] = "answered" => Waiting(s)'
             /\ row'[s] = "running" => Executing(s)'
  BY <1>1, <1>2 DEF TypeOK, CheckTarget, InsertScan, Requested, Waiting, Executing, At
<1>3. ASSUME NEW t \in Scans, Enqueue(t) \/ Redeliver(t)
      PROVE  /\ row'[s] = "pending" /\ request'[s] = "answered" => Waiting(s)'
             /\ row'[s] = "running" => Executing(s)'
  BY <1>1, <1>3 DEF TypeOK, Enqueue, Redeliver, Requested, Waiting, Executing, At
<1>4. ASSUME NEW t \in Scans, RequestDies(t)
      PROVE  /\ row'[s] = "pending" /\ request'[s] = "answered" => Waiting(s)'
             /\ row'[s] = "running" => Executing(s)'
  BY <1>1, <1>4 DEF TypeOK, RequestDies, Waiting, Executing, At
<1>5. ASSUME NEW p \in Procs, NEW t \in Scans, StartTask(p, t)
      PROVE  /\ row'[s] = "pending" /\ request'[s] = "answered" => Waiting(s)'
             /\ row'[s] = "running" => Executing(s)'
  <2>1. /\ \A q \in Procs : ~At(q, "idle") => proc'[q] = proc[q]
        /\ At(p, "begin")' /\ proc'[p].scan = t
        /\ s /= t => queue'[s] = queue[s]
        /\ UNCHANGED <<row, request, lost>>
    BY <1>5 DEF TypeOK, StartTask, At
  <2>2. Executing(s) => Executing(s)'
    BY <2>1 DEF Executing, At
  <2>3. Waiting(s) => Waiting(s)'
    BY <2>1 DEF Waiting, At
  <2>4. QED
    BY <1>1, <2>1, <2>2, <2>3
<1>6. ASSUME NEW p \in Procs, Work(p) \/ TaskDies(p)
      PROVE  /\ row'[s] = "pending" /\ request'[s] = "answered" => Waiting(s)'
             /\ row'[s] = "running" => Executing(s)'
  <2>1. /\ proc[p].scan \in Scans /\ proc[p].pc /= "idle"
        /\ UNCHANGED <<request, queue>>
        /\ \A q \in Procs : q /= p => proc'[q] = proc[q]
    BY <1>6 DEF TypeOK, Work, BeginRun, PipelineReturns, PipelineRaises, MarkFailed,
       RecordStatus, StoreFindings, StoreChains, RowsRefused, Announce, EndTask,
       TaskDies, GoTo, Stop, Idle, At
  <2>2. CASE proc[p].scan /= s
    <3>1. row'[s] = row[s] /\ s \notin lost
      BY <1>6, <2>1, <2>2 DEF TypeOK, Work, BeginRun, PipelineReturns, PipelineRaises,
         MarkFailed, RecordStatus, StoreFindings, StoreChains, RowsRefused, Announce,
         EndTask, TaskDies, SetStatus
    <3>2. (Waiting(s) => Waiting(s)') /\ (Executing(s) => Executing(s)')
      BY <2>1, <2>2 DEF Waiting, Executing, At
    <3>3. QED
      BY <1>1, <2>1, <3>1, <3>2
  <2>3. CASE proc[p].scan = s /\ BeginRun(p)
    <3>1. CASE Rowless(s)
      BY <2>3, <3>1 DEF BeginRun, Rowless
    <3>2. CASE ~Rowless(s)
      <4>1. row'[s] = "running"
        BY <2>3, <3>2 DEF TypeOK, BeginRun, SetStatus
      <4>2. proc'[p].pc = "pipeline" /\ proc'[p].scan = s
        BY <2>1, <2>3, <3>2 DEF TypeOK, BeginRun, GoTo, Idle
      <4>3. QED
        BY <4>1, <4>2 DEF Executing
    <3>3. QED
      BY <3>1, <3>2
  <2>4. CASE proc[p].scan = s /\ (PipelineReturns(p) \/ PipelineRaises(p))
    <3>1. /\ proc'[p].pc \in {"mark_failed", "record"} /\ proc'[p].scan = s
          /\ proc[p].pc = "pipeline"
          /\ UNCHANGED <<row, lost>>
      BY <2>4 DEF TypeOK, PipelineReturns, PipelineRaises, GoTo, At, Idle
    <3>2. Waiting(s) => Waiting(s)'
      BY <2>1, <3>1 DEF Waiting, At
    <3>3. Executing(s)'
      BY <3>1 DEF Executing
    <3>4. QED
      BY <1>1, <2>1, <3>1, <3>2, <3>3
  <2>5. CASE proc[p].scan = s /\ (MarkFailed(p) \/ RecordStatus(p))
    BY <2>1, <2>5 DEF TypeOK, MarkFailed, RecordStatus, SetStatus, Rowless
  <2>6. CASE /\ proc[p].scan = s
             /\ \/ StoreFindings(p) \/ StoreChains(p) \/ RowsRefused(p)
                \/ Announce(p) \/ EndTask(p)
    <3>1. proc[p].pc \notin {"begin", "pipeline", "mark_failed", "record"}
      BY <2>6 DEF StoreFindings, StoreChains, RowsRefused, Announce, EndTask, At
    <3>2. UNCHANGED <<row, lost>>
      BY <2>6 DEF StoreFindings, StoreChains, RowsRefused, Announce, EndTask
    <3>3. (Waiting(s) => Waiting(s)') /\ (Executing(s) => Executing(s)')
      BY <2>1, <3>1 DEF Waiting, Executing, At
    <3>4. QED
      BY <1>1, <2>1, <3>2, <3>3
  <2>7. CASE proc[p].scan = s /\ TaskDies(p)
    BY <2>7 DEF TaskDies
  <2>8. QED
    BY <1>6, <2>2, <2>3, <2>4, <2>5, <2>6, <2>7 DEF Work
<1>7. CASE CommitDelete
  BY <1>7 DEF TypeOK, CommitDelete
<1>8. CASE \/ UNCHANGED vars \/ DeleteTarget
           \/ \E p \in Procs, m \in siem : ShipToSiem(p, m) \/ DiscardSiem(p, m)
  BY <1>1, <1>8 DEF vars, DeleteTarget, ShipToSiem, DiscardSiem, Waiting, Executing, At
<1>9. QED
  BY <1>2, <1>3, <1>4, <1>5, <1>6, <1>7, <1>8 DEF Next, Request

(* No accepted scan is forgotten: pending means a message is on its way,   *)
(* running means a process will still write the final status, unless a     *)
(* request or an execution of the scan died.                               *)
THEOREM UnfinishedWorkedOn == Spec => []UnfinishedIsWorkedOn
<1>1. Init => UnfinishedIsWorkedOn
  BY DEF Init, UnfinishedIsWorkedOn
<1>2. Bookkeeping /\ UnfinishedIsWorkedOn /\ [Next]_vars => UnfinishedIsWorkedOn'
  BY UnfinishedStep DEF Bookkeeping
<1>3. QED
  BY <1>1, <1>2, BookkeepingCorrect, PTL DEF Spec

-----------------------------------------------------------------------------
(* One delivery per message, and the promise of ScanStatus                 *)

\* When each message is delivered once, an execution is the only one of its
\* scan, and its position determines the status.
LEMMA OnceStep ==
    ASSUME Bookkeeping, OnceInv, [Next]_vars
    PROVE  OnceInv'
<1> SUFFICES ASSUME MaxDeliveries = 1 PROVE OnceInv'
  BY DEF OnceInv
<1> USE DEF db, broker, history, Bookkeeping
<1>1. \A p \in Procs : Working(p) =>
        /\ proc[p].scan \in Scans
        /\ started[proc[p].scan] = 1
        /\ queue[proc[p].scan] = 0
        /\ \A q \in Procs : Working(q) /\ proc[q].scan = proc[p].scan => q = p
  BY DEF TypeOK, RequestInv, WorkInv, RunsDiffer, Working, Idle, Executions
<1>2. ASSUME NEW p \in Procs, Work(p) \/ TaskDies(p) PROVE OnceInv'
  <2> DEFINE s == proc[p].scan
  <2>1. /\ Working(p)
        /\ UNCHANGED <<started>>
        /\ \A q \in Procs : q /= p => proc'[q] = proc[q]
        /\ \A t \in Scans : t /= s => row'[t] = row[t] /\ findings'[t] = findings[t]
    BY <1>2 DEF TypeOK, Work, BeginRun, PipelineReturns, PipelineRaises, MarkFailed,
       RecordStatus, StoreFindings, StoreChains, RowsRefused, Announce, EndTask,
       TaskDies, GoTo, Stop, SetStatus, At, Working
  <2>2. s \in Scans /\ started[s] = 1
    BY <1>1, <2>1
  <2>3. row[s] \in StatusAt(proc[p].pc) /\ (findings[s] /= {} => row[s] = "completed")
    BY <2>1, <2>2 DEF OnceInv
  <2>4. /\ findings'[s] /= {} => row'[s] = "completed"
        /\ proc'[p].pc /= "idle" => /\ proc'[p].scan = s
                                    /\ row'[s] \in StatusAt(proc'[p].pc)
    <3>1. CASE BeginRun(p)
      BY <2>2, <2>3, <3>1 DEF TypeOK, BeginRun, GoTo, Stop, SetStatus, At, Idle, Rowless,
         StatusAt
    <3>2. CASE PipelineReturns(p)
      BY <2>2, <2>3, <3>2 DEF TypeOK, PipelineReturns, At, Idle, StatusAt
    <3>3. CASE PipelineRaises(p)
      BY <2>2, <2>3, <3>3 DEF TypeOK, PipelineRaises, GoTo, At, Idle, StatusAt
    <3>4. CASE MarkFailed(p)
      BY <2>2, <2>3, <3>4 DEF TypeOK, MarkFailed, Stop, SetStatus, At, Idle, Rowless,
         StatusAt
    <3>5. CASE RecordStatus(p)
      BY <2>2, <2>3, <3>5 DEF TypeOK, RecordStatus, GoTo, Stop, SetStatus, At, Idle,
         Rowless, StatusAt
    <3>6. CASE StoreFindings(p)
      <4>1. /\ proc'[p].pc = "chains" /\ proc'[p].scan = s /\ proc[p].pc = "findings"
            /\ UNCHANGED row
            /\ findings'[s] = findings[s] \/ ~Rowless(s)
        BY <2>2, <3>6 DEF TypeOK, StoreFindings, GoTo, At, Idle
      <4>2. QED
        BY <2>3, <4>1 DEF StatusAt, Rowless
    <3>7. CASE StoreChains(p) \/ Announce(p)
      <4>1. /\ proc'[p].pc \in {"announce", "siem"} /\ proc'[p].scan = s
            /\ proc[p].pc \in {"chains", "announce"}
            /\ UNCHANGED <<row, findings>>
        BY <2>2, <3>7 DEF TypeOK, StoreChains, Announce, GoTo, At, Idle
      <4>2. QED
        BY <2>3, <4>1 DEF StatusAt
    <3>8. CASE RowsRefused(p) \/ EndTask(p) \/ TaskDies(p)
      BY <2>3, <3>8 DEF TypeOK, RowsRefused, EndTask, TaskDies, Stop, Idle
    <3>9. QED
      BY <1>2, <3>1, <3>2, <3>3, <3>4, <3>5, <3>6, <3>7, <3>8 DEF Work
  <2>5. \A t \in Scans : /\ started'[t] = 0 => row'[t] \in {"none", "pending", "deleted"}
                         /\ findings'[t] /= {} => row'[t] = "completed"
    BY <2>1, <2>2, <2>4 DEF OnceInv
  <2>6. \A q \in Procs : proc'[q].pc /= "idle" => row'[proc'[q].scan] \in StatusAt(proc'[q].pc)
    <3> SUFFICES ASSUME NEW q \in Procs, proc'[q].pc /= "idle"
                 PROVE  row'[proc'[q].scan] \in StatusAt(proc'[q].pc)
      OBVIOUS
    <3>1. CASE q = p
      BY <2>4, <3>1
    <3>2. CASE q /= p
      <4>1. proc'[q] = proc[q] /\ Working(q)
        BY <2>1, <3>2 DEF Working
      <4>2. proc[q].scan \in Scans /\ proc[q].scan /= s
        BY <1>1, <2>1, <3>2, <4>1
      <4>3. QED
        BY <2>1, <4>1, <4>2 DEF OnceInv
    <3>3. QED
      BY <3>1, <3>2
  <2>7. QED
    BY <2>5, <2>6 DEF OnceInv, Working, StatusAt
<1>3. ASSUME NEW p \in Procs, NEW s \in Scans, StartTask(p, s) PROVE OnceInv'
  <2>1. /\ UNCHANGED <<row, findings>>
        /\ proc'[p].pc = "begin" /\ proc'[p].scan = s
        /\ started[s] = 0 /\ request[s] = "answered"
        /\ \A t \in Scans : t /= s => started'[t] = started[t]
        /\ started'[s] = 1
        /\ \A q \in Procs : q /= p => proc'[q] = proc[q]
    BY <1>3 DEF TypeOK, RequestInv, StartTask
  <2>2. row[s] \in {"pending", "deleted"}
    BY <2>1 DEF OnceInv, RequestInv
  <2>3. \A t \in Scans : /\ started'[t] = 0 => row'[t] \in {"none", "pending", "deleted"}
                         /\ findings'[t] /= {} => row'[t] = "completed"
    BY <2>1 DEF OnceInv
  <2>4. \A q \in Procs : proc'[q].pc /= "idle" => row'[proc'[q].scan] \in StatusAt(proc'[q].pc)
    BY <2>1, <2>2 DEF OnceInv, Working, StatusAt
  <2>5. QED
    BY <2>3, <2>4 DEF OnceInv, Working, StatusAt
<1>4. ASSUME NEW s \in Scans, Request(s) \/ RequestDies(s) \/ Redeliver(s) PROVE OnceInv'
  <2>1. /\ UNCHANGED <<findings, proc, started>>
        /\ \A t \in Scans : \/ row'[t] = row[t]
                            \/ request[t] = "checked" /\ row'[t] = "pending"
    BY <1>4 DEF TypeOK, Request, CheckTarget, InsertScan, Enqueue, RequestDies, Redeliver,
       Requested
  <2>2. \A t \in Scans : request[t] = "checked" => row[t] = "none"
    BY DEF RequestInv
  <2>3. \A q \in Procs : Working(q) => row'[proc[q].scan] = row[proc[q].scan]
    BY <1>1, <2>1 DEF RequestInv
  <2>4. \A t \in Scans : /\ started'[t] = 0 => row'[t] \in {"none", "pending", "deleted"}
                         /\ findings'[t] /= {} => row'[t] = "completed"
    BY <2>1, <2>2 DEF OnceInv
  <2>5. QED
    BY <2>1, <2>3, <2>4 DEF OnceInv, Working, StatusAt
<1>5. CASE CommitDelete
  <2>1. /\ UNCHANGED <<proc, started>>
        /\ \A t \in Scans : findings'[t] = {} /\ row'[t] \in {"none", "deleted"}
        /\ \A t \in Scans : row[t] /= "none" => row'[t] = "deleted"
    BY <1>5 DEF CommitDelete
  <2>2. \A q \in Procs : Working(q) => row'[proc[q].scan] = "deleted"
    BY <1>1, <2>1 DEF RequestInv
  <2>3. QED
    BY <2>1, <2>2 DEF OnceInv, Working, StatusAt
<1>6. CASE \/ UNCHANGED vars \/ DeleteTarget
           \/ \E p \in Procs, m \in siem : ShipToSiem(p, m) \/ DiscardSiem(p, m)
  BY <1>6 DEF vars, DeleteTarget, ShipToSiem, DiscardSiem, OnceInv, Working, StatusAt
<1>7. QED
  BY <1>2, <1>3, <1>4, <1>5, <1>6 DEF Next

\* Each step of the workers, the API and the database is a step of
\* ScanStatus or leaves its variables alone.
LEMMA PromiseStep ==
    ASSUME Bookkeeping, OnceInv, [Next]_vars
    PROVE  [Promise!Next]_(Promise!vars)
<1> DEFINE Told == {m.scan : m \in announced}
<1> USE DEF db, broker, history, Bookkeeping
<1>1. ASSUME UNCHANGED row, UNCHANGED announced PROVE UNCHANGED Promise!vars
  BY <1>1 DEF Promise!vars
<1>2. ASSUME NEW s \in Scans, InsertScan(s) PROVE [Promise!Next]_(Promise!vars)
  <2>1. CASE target = "deleted"
    <3>1. row' = row
      BY <1>2, <2>1 DEF TypeOK, InsertScan
    <3>2. QED
      BY <1>1, <1>2, <3>1 DEF InsertScan
  <2>2. CASE target /= "deleted"
    <3>1. Promise!Submit(s)
      BY <1>2, <2>2 DEF TypeOK, RequestInv, InsertScan, Requested, Promise!Submit,
         Promise!Move
    <3>2. QED
      BY <3>1 DEF Promise!Next
  <2>3. QED
    BY <2>1, <2>2
<1>3. ASSUME NEW p \in Procs, Working(p)
      PROVE  /\ proc[p].scan \in Scans
             /\ row[proc[p].scan] /= "none"
             /\ ~At(p, "begin") => row[proc[p].scan]
                                     \in {"running", "completed", "failed", "deleted"}
             /\ ~(MaxDeliveries > 1) => row[proc[p].scan] \in StatusAt(proc[p].pc)
  BY <1>3, DeliveriesAssumption DEF TypeOK, RequestInv, WorkInv, OnceInv, Working, Idle
<1>4. ASSUME NEW p \in Procs, BeginRun(p) PROVE [Promise!Next]_(Promise!vars)
  <2>1. CASE Rowless(proc[p].scan)
    BY <1>1, <1>4, <2>1 DEF BeginRun
  <2>2. CASE ~Rowless(proc[p].scan)
    <3>1. Promise!Begin(proc[p].scan)
      BY <1>3, <1>4, <2>2 DEF TypeOK, BeginRun, SetStatus, Rowless, StatusAt, At, Working,
         Status, Promise!Begin, Promise!Move, Promise!Begun
    <3>2. QED
      BY <1>3, <1>4, <3>1 DEF Promise!Next, BeginRun, At, Working
  <2>3. QED
    BY <2>1, <2>2
<1>5. ASSUME NEW p \in Procs, MarkFailed(p) \/ RecordStatus(p)
      PROVE  [Promise!Next]_(Promise!vars)
  <2>1. CASE Rowless(proc[p].scan)
    BY <1>1, <1>5, <2>1 DEF MarkFailed, RecordStatus
  <2>2. CASE ~Rowless(proc[p].scan)
    <3>1. Promise!Finish(proc[p].scan)
      BY <1>3, <1>5, <2>2 DEF MarkFailed, RecordStatus, SetStatus, Rowless, StatusAt, At,
         Working, Promise!Finish, Promise!Move, Promise!Begun
    <3>2. QED
      BY <1>3, <1>5, <3>1 DEF Promise!Next, MarkFailed, RecordStatus, At, Working
  <2>3. QED
    BY <2>1, <2>2
<1>6. ASSUME NEW p \in Procs, Announce(p), NEW s \in Scans, proc[p].scan = s
      PROVE  [Promise!Next]_(Promise!vars)
  <2>1. CASE UNCHANGED announced
    BY <1>1, <1>6, <2>1 DEF Announce
  <2>2. CASE announced' = announced \cup {Message(p)}
    <3>1. Told' = Told \cup {s}
      <4>1. Message(p).scan = s
        BY <1>6 DEF Message
      <4>2. {m.scan : m \in announced \cup {Message(p)}}
               = {m.scan : m \in announced} \cup {Message(p).scan}
        OBVIOUS
      <4>3. QED
        BY <2>2, <4>1, <4>2
    <3>2. proc[p].pc = "announce" /\ UNCHANGED row
      BY <1>6 DEF Announce, At
    <3>3. row[s] \in IF MaxDeliveries > 1
                     THEN {"running", "completed", "failed", "deleted"}
                     ELSE {"completed", "deleted"}
      BY <1>3, <1>6, <3>2 DEF StatusAt, At, Working
    <3>4. Promise!Announce(s)
      BY <3>1, <3>2, <3>3 DEF Promise!Announce, Promise!Begun
    <3>5. QED
      BY <3>4 DEF Promise!Next
  <2>3. QED
    BY <1>6, <2>1, <2>2 DEF Announce
<1>7. \A p \in Procs : Announce(p) => proc[p].scan \in Scans
  BY <1>3 DEF Announce, At, Working
<1>8. CASE CommitDelete
  <2>1. Promise!Vanish
    BY <1>8 DEF CommitDelete, Promise!Vanish
  <2>2. QED
    BY <2>1 DEF Promise!Next
<1>9. QED
  BY <1>1, <1>2, <1>4, <1>5, <1>6, <1>7, <1>8 DEF Next, vars, Request, Work, CheckTarget, Enqueue,
     RequestDies, Redeliver, StartTask, PipelineReturns, PipelineRaises, StoreFindings,
     StoreChains, RowsRefused, EndTask, TaskDies, ShipToSiem, DiscardSiem, DeleteTarget

(* Findings are stored only under a completed scan, when each task message *)
(* is delivered once: status is committed before the rows, and nothing     *)
(* resets it afterwards.                                                   *)
THEOREM StoredCompleted == ASSUME MaxDeliveries = 1 PROVE Spec => []StoredMeansCompleted
<1>1. Init => OnceInv
  BY DEF Init, OnceInv, Working, Idle
<1>2. OnceInv => StoredMeansCompleted
  BY DEF OnceInv, StoredMeansCompleted
<1>3. Bookkeeping /\ OnceInv /\ [Next]_vars => OnceInv'
  BY OnceStep
<1>4. QED
  BY <1>1, <1>2, <1>3, BookkeepingCorrect, PTL DEF Spec

(* The implementation keeps the promise of ScanStatus: statuses walk       *)
(* pending, running, completed or failed, once if messages are delivered   *)
(* once; only a completed scan is announced; a deleted scan stays away.    *)
THEOREM Implements == Spec => KeepsPromise
<1>1. Init => OnceInv
  BY DEF Init, OnceInv, Working, Idle
<1>2. Bookkeeping /\ OnceInv /\ [Next]_vars => OnceInv'
  BY OnceStep
<1>3. Init => Promise!Init
  BY DEF Init, Promise!Init
<1>4. Bookkeeping /\ OnceInv /\ [Next]_vars => [Promise!Next]_(Promise!vars)
  BY PromiseStep
<1>5. QED
  BY <1>1, <1>2, <1>3, <1>4, BookkeepingCorrect, PTL DEF Spec, KeepsPromise, Promise!Spec

-----------------------------------------------------------------------------
(* Documents made while a scan is running                                  *)

\* The steps of a reader are stutters of the life cycle.
LEMMA ReadersOnlyRead == ReportsSpec => Spec
<1>1. [ReportsNext]_<<vars, doc>> => [Next]_vars
  BY DEF ReportsNext
<1>2. QED
  BY <1>1, PTL DEF ReportsSpec, Spec

LEMMA OnceInvariant == Spec => []OnceInv
<1>1. Init => OnceInv
  BY DEF Init, OnceInv, Working, Idle
<1>2. Bookkeeping /\ OnceInv /\ [Next]_vars => OnceInv'
  BY OnceStep
<1>3. QED
  BY <1>1, <1>2, BookkeepingCorrect, PTL DEF Spec

\* What holds of an announced scan besides its rows, and of a deleted target.
Settled ==
    /\ MaxDeliveries = 1 => \A m \in announced : row[m.scan] \in {"completed", "deleted"}
    /\ target = "deleted" => \A s \in Scans : Rowless(s)

LEMMA SettledStep == Bookkeeping /\ OnceInv /\ Settled /\ [Next]_vars => Settled'
<1> SUFFICES ASSUME Bookkeeping, OnceInv, Settled, [Next]_vars PROVE Settled'
  OBVIOUS
<1> USE DEF Bookkeeping
<1>1. ASSUME MaxDeliveries = 1, NEW m \in announced' PROVE row'[m.scan] \in {"completed", "deleted"}
  <2>1. [Promise!Next]_(Promise!vars)
    BY PromiseStep
  <2>2. m.scan \in {x.scan : x \in announced'}
    OBVIOUS
  <2>3. \A x \in announced : x.scan \in Scans
    BY DEF TypeOK
  <2>4. \A t \in {x.scan : x \in announced} : t \in Scans /\ row[t] \in {"completed", "deleted"}
    BY <1>1, <2>3 DEF Settled
  <2> DEFINE Told == {x.scan : x \in announced}
             ToldNext == {x.scan : x \in announced'}
  <2>5. CASE row' = row /\ ToldNext = Told
    BY <2>2, <2>4, <2>5
  <2>6. CASE /\ ToldNext = Told
             /\ \E t \in Scans, to \in {"pending", "running", "completed", "failed"} :
                  /\ row[t] \in {"none", "pending", "running"}
                  /\ row' = [row EXCEPT ![t] = to]
    BY <2>2, <2>4, <2>6 DEF TypeOK
  <2>7. CASE \E t \in Scans : /\ row[t] \in {"completed", "deleted"}
                              /\ ToldNext = Told \cup {t}
                              /\ row' = row
    BY <2>2, <2>4, <2>7
  <2>8. CASE /\ ToldNext = Told
             /\ row' = [t \in Scans |-> IF row[t] = "none" THEN "none" ELSE "deleted"]
    BY <2>2, <2>4, <2>8
  <2>9. ~(MaxDeliveries > 1)
    BY <1>1
  <2> HIDE DEF Told, ToldNext
  <2>10. CASE UNCHANGED Promise!vars
    BY <2>5, <2>10 DEF Promise!vars, Told, ToldNext
  <2>11. CASE Promise!Vanish
    BY <2>8, <2>11 DEF Promise!Vanish, Told, ToldNext
  <2>12. ASSUME NEW t \in Scans, Promise!Submit(t) \/ Promise!Begin(t) \/ Promise!Finish(t)
         PROVE  row'[m.scan] \in {"completed", "deleted"}
    BY <2>6, <2>9, <2>12
    DEF Promise!Submit, Promise!Begin, Promise!Finish, Promise!Move, Told, ToldNext
  <2>13. ASSUME NEW t \in Scans, Promise!Announce(t) PROVE row'[m.scan] \in {"completed", "deleted"}
    BY <2>7, <2>9, <2>13 DEF Promise!Announce, Told, ToldNext
  <2>14. QED
    BY <2>1, <2>10, <2>11, <2>12, <2>13 DEF Promise!Next
<1>2. target' = "deleted" => \A s \in Scans : Rowless(s)'
  <2> SUFFICES ASSUME NEW s \in Scans, target' = "deleted", ~Rowless(s)' PROVE FALSE
    OBVIOUS
  <2> USE DEF db, broker, history, Rowless
  <2>1. target = "deleted" \/ CommitDelete
    BY DEF Next, vars, Request, CheckTarget, InsertScan, Enqueue, RequestDies, Redeliver, Work,
           BeginRun, PipelineReturns, PipelineRaises, MarkFailed, RecordStatus, StoreFindings,
           StoreChains, RowsRefused, Announce, EndTask, TaskDies, StartTask, ShipToSiem,
           DiscardSiem, DeleteTarget
  <2>2. ~CommitDelete
    BY DEF CommitDelete
  <2>3. Rowless(s)
    BY <2>1, <2>2 DEF Settled
  <2>4. ASSUME NEW t \in Scans, Request(t) PROVE row'[s] = row[s]
    BY <2>1, <2>2, <2>4 DEF TypeOK, Request, CheckTarget, InsertScan, Enqueue
  <2>5. ASSUME NEW p \in Procs, Work(p) \/ TaskDies(p)
        PROVE  row'[s] = row[s] \/ row'[s] \in {"none", "deleted"} \/ row[s] \notin {"none", "deleted"}
    <3>1. CASE BeginRun(p) \/ MarkFailed(p) \/ RecordStatus(p)
      BY <3>1 DEF TypeOK, BeginRun, MarkFailed, RecordStatus, SetStatus
    <3>2. QED
      BY <2>5, <3>1 DEF Work, PipelineReturns, PipelineRaises, StoreFindings, StoreChains,
         RowsRefused, Announce, EndTask, TaskDies
  <2>6. QED
    BY <2>2, <2>3, <2>4, <2>5 DEF Next, vars, RequestDies, Redeliver, StartTask, ShipToSiem,
       DiscardSiem, DeleteTarget
<1>3. QED
  BY <1>1, <1>2 DEF Settled

LEMMA SettledInvariant == Spec => []Settled
<1>1. Init => Settled
  BY DEF Init, Settled
<1>2. QED
  BY <1>1, SettledStep, BookkeepingCorrect, OnceInvariant, PTL DEF Spec

\* All documents read in the same order; only some have chains.
LEMMA QueryOrder ==
  ASSUME NEW q \in Documents
  PROVE  /\ Len(q) \in {3, 4}
         /\ q[1] = "scan" /\ q[2] = "target" /\ q[3] = "findings"
         /\ Len(q) = 4 => q[4] = "chains"
         /\ "chains" \in Range(q) => Len(q) = 4
<1>1. \/ q = <<"scan", "target", "findings", "chains">>
      \/ q = <<"scan", "target", "findings">>
  BY DEF Documents, ReportQueries, ComplianceQueries, SarifQueries, MessageQueries
<1>2. CASE q = <<"scan", "target", "findings", "chains">>
  BY <1>2
<1>3. CASE q = <<"scan", "target", "findings">>
  <2>1. "chains" \notin Range(q)
    BY <1>3 DEF Range
  <2>2. QED
    BY <1>3, <2>1
<1>4. QED
  BY <1>1, <1>2, <1>3

DocumentType ==
    [next : 1 .. 5, scan : Scans, queries : Documents,
     told : SUBSET [scan : Scans, run : Executions, report : Reports],
     status : Status, url : BOOLEAN, runs : SUBSET Executions, chains : SUBSET Executions]

\* What each query of a document has found, as long as the scan is there.
Found(d) ==
    \A m \in d.told :
        /\ m \in announced /\ m.scan = d.scan
        /\ ~Rowless(d.scan) =>
              /\ d.next > 1 /\ MaxDeliveries = 1 => d.status = "completed"
              /\ d.next > 2 => d.url
              /\ d.next > 3 /\ m.report /= "empty" => m.run \in d.runs
              /\ d.next > 4 /\ m.report = "chains" => m.run \in d.chains

DocumentsInv ==
    /\ doc \in [Readers -> DocumentType \cup {NoDocument}]
    /\ \A r \in Readers : doc[r] /= NoDocument => Found(doc[r])

\* The worker, and a delete, between two queries.
LEMMA FoundStays ==
  ASSUME Bookkeeping, DocumentsInv, [Next]_vars, UNCHANGED doc PROVE DocumentsInv'
<1> USE DEF Bookkeeping
<1>1. announced \subseteq announced'
  BY DEF db, broker, history, Next, vars, Request, CheckTarget, InsertScan, Enqueue, RequestDies,
         Redeliver, Work, BeginRun, PipelineReturns, PipelineRaises, MarkFailed, RecordStatus,
         StoreFindings, StoreChains, RowsRefused, Announce, EndTask, TaskDies, StartTask,
         ShipToSiem, DiscardSiem, DeleteTarget, CommitDelete
<1>2. ASSUME NEW m \in announced, ~Rowless(m.scan)' PROVE ~Rowless(m.scan)
  <2>1. m.scan \in Scans /\ request[m.scan] = "answered"
    BY DEF TypeOK, RequestInv
  <2>2. QED
    BY <1>2, <2>1, RowsGrow
<1>3. ASSUME NEW r \in Readers, doc[r] /= NoDocument, NEW m \in doc[r].told
      PROVE  m \in announced /\ m.scan = doc[r].scan
  BY <1>3 DEF DocumentsInv, Found
<1>4. ASSUME NEW r \in Readers, doc[r] /= NoDocument PROVE Found(doc[r])'
  BY <1>1, <1>2, <1>3, <1>4 DEF DocumentsInv, Found, Rowless
<1>5. QED
  BY <1>4 DEF DocumentsInv

\* A query, or a request that comes or goes.
LEMMA ReadStep ==
  ASSUME Bookkeeping, Settled, DocumentsInv, NEW r \in Readers, Read(r), UNCHANGED vars
  PROVE  DocumentsInv'
<1> USE DEF Bookkeeping, db, history, vars
<1> SUFFICES /\ doc' \in [Readers -> DocumentType \cup {NoDocument}]
             /\ doc'[r] /= NoDocument => Found(doc'[r])
             /\ \A q \in Readers \ {r} : doc'[q] = doc[q]
  BY DEF DocumentsInv, Found, Rowless
<1>1. CASE Leave(r)
  BY <1>1 DEF Leave, DocumentsInv
<1>2. ASSUME NEW s \in Scans, NEW queries \in Documents, Ask(r, s, queries)
      PROVE  /\ doc' \in [Readers -> DocumentType \cup {NoDocument}]
             /\ doc'[r] /= NoDocument => Found(doc'[r])
             /\ \A q \in Readers \ {r} : doc'[q] = doc[q]
  <2> DEFINE d == NewDocument(s, queries)
  <2>1. d \in DocumentType
    BY DEF NewDocument, DocumentType, TypeOK, Status
  <2>2. Found(d)
    BY DEF NewDocument, Found
  <2>3. doc' = [doc EXCEPT ![r] = d]
    BY <1>2 DEF Ask
  <2>4. QED
    BY <2>1, <2>2, <2>3 DEF DocumentsInv
<1>3. ASSUME doc[r] /= NoDocument
      PROVE  /\ doc[r] \in DocumentType
             /\ Found(doc[r])
             /\ \A query : Asking(r, query) => /\ doc[r].next \in 1 .. 4
                                               /\ query = "scan" <=> doc[r].next = 1
                                               /\ query = "target" <=> doc[r].next = 2
                                               /\ query = "findings" <=> doc[r].next = 3
                                               /\ query = "chains" <=> doc[r].next = 4
  <2>1. doc[r] \in DocumentType /\ Found(doc[r])
    BY <1>3 DEF DocumentsInv
  <2>2. doc[r].queries \in Documents /\ doc[r].next \in 1 .. 5
    BY <2>1 DEF DocumentType
  <2>3. QED
    BY <2>1, <2>2, QueryOrder DEF Asking
<1>4. ASSUME NEW d \in DocumentType, doc' = [doc EXCEPT ![r] = d], Found(d)
      PROVE  /\ doc' \in [Readers -> DocumentType \cup {NoDocument}]
             /\ doc'[r] /= NoDocument => Found(doc'[r])
             /\ \A q \in Readers \ {r} : doc'[q] = doc[q]
  BY <1>4 DEF DocumentsInv
<1>5. CASE ReadScan(r)
  <2>1. /\ doc[r] /= NoDocument /\ doc[r] \in DocumentType /\ Found(doc[r])
        /\ doc[r].next \in 1 .. 4 /\ doc[r].next = 1
    BY <1>3, <1>5 DEF ReadScan, Asking
  <2>2. CASE Rowless(doc[r].scan)
    BY <1>5, <2>2 DEF ReadScan, DocumentsInv
  <2>3. CASE ~Rowless(doc[r].scan)
    <3>1. PICK d : /\ doc' = [doc EXCEPT ![r] = d]
                   /\ d = [doc[r] EXCEPT !.next = @ + 1, !.status = row[doc[r].scan]]
      BY <1>5, <2>3 DEF ReadScan
    <3>2. row[doc[r].scan] \in Status
      BY <2>1 DEF DocumentType, TypeOK
    <3>3. /\ d \in DocumentType /\ d.next = doc[r].next + 1 /\ d.scan = doc[r].scan
          /\ d.told = doc[r].told /\ d.status = row[doc[r].scan]
      <4>1. doc[r].next + 1 \in 1 .. 5
        BY <2>1
      <4>2. QED
        BY <2>1, <3>1, <3>2, <4>1 DEF DocumentType
    <3>4. Found(d)
      BY <2>1, <2>3, <3>3 DEF Found, Settled, Rowless
    <3>5. QED
      BY <1>4, <3>1, <3>3, <3>4
  <2>4. QED
    BY <2>2, <2>3
<1>6. CASE ReadTarget(r)
  <2>1. /\ doc[r] /= NoDocument /\ doc[r] \in DocumentType /\ Found(doc[r])
        /\ doc[r].next \in 1 .. 4 /\ doc[r].next = 2
    BY <1>3, <1>6 DEF ReadTarget, Asking
  <2>2. PICK d : /\ doc' = [doc EXCEPT ![r] = d]
                 /\ d = [doc[r] EXCEPT !.next = @ + 1, !.url = (target /= "deleted")]
    BY <1>6 DEF ReadTarget
  <2>3. (target /= "deleted") \in BOOLEAN /\ doc[r].scan \in Scans
    BY <2>1 DEF DocumentType, TypeOK
  <2>4. /\ d \in DocumentType /\ d.next = doc[r].next + 1 /\ d.scan = doc[r].scan
        /\ d.told = doc[r].told /\ d.status = doc[r].status
        /\ d.url = (target /= "deleted")
    <3>1. doc[r].next + 1 \in 1 .. 5
      BY <2>1
    <3>2. QED
      BY <2>1, <2>2, <2>3, <3>1 DEF DocumentType
  <2>5. \A m \in d.told : ~Rowless(d.scan) => d.url
    BY <2>3, <2>4 DEF Settled
  <2>6. Found(d)
    BY <2>1, <2>4, <2>5 DEF Found
  <2>7. QED
    BY <1>4, <2>2, <2>4, <2>6
<1>7. CASE ReadFindings(r)
  <2>1. /\ doc[r] /= NoDocument /\ doc[r] \in DocumentType /\ Found(doc[r])
        /\ doc[r].next \in 1 .. 4 /\ doc[r].next = 3
    BY <1>3, <1>7 DEF ReadFindings, Asking
  <2>2. PICK d : /\ doc' = [doc EXCEPT ![r] = d]
                 /\ d = [doc[r] EXCEPT !.next = @ + 1, !.runs = findings[doc[r].scan]]
    BY <1>7 DEF ReadFindings
  <2>3. findings[doc[r].scan] \in SUBSET Executions /\ doc[r].scan \in Scans
    BY <2>1 DEF DocumentType, TypeOK
  <2>4. /\ d \in DocumentType /\ d.next = doc[r].next + 1 /\ d.scan = doc[r].scan
        /\ d.told = doc[r].told /\ d.status = doc[r].status /\ d.url = doc[r].url
        /\ d.runs = findings[doc[r].scan]
    <3>1. doc[r].next + 1 \in 1 .. 5
      BY <2>1
    <3>2. QED
      BY <2>1, <2>2, <2>3, <3>1 DEF DocumentType
  <2>5. Found(d)
    BY <2>1, <2>3, <2>4 DEF Found, Stores, AnnouncedIsStored
  <2>6. QED
    BY <1>4, <2>2, <2>4, <2>5
<1>8. CASE ReadChains(r)
  <2>1. /\ doc[r] /= NoDocument /\ doc[r] \in DocumentType /\ Found(doc[r])
        /\ doc[r].next \in 1 .. 4 /\ doc[r].next = 4
    BY <1>3, <1>8 DEF ReadChains, Asking
  <2>2. PICK d : /\ doc' = [doc EXCEPT ![r] = d]
                 /\ d = [doc[r] EXCEPT !.next = @ + 1, !.chains = chains[doc[r].scan]]
    BY <1>8 DEF ReadChains
  <2>3. chains[doc[r].scan] \in SUBSET Executions /\ doc[r].scan \in Scans
    BY <2>1 DEF DocumentType, TypeOK
  <2>4. /\ d \in DocumentType /\ d.next = doc[r].next + 1 /\ d.scan = doc[r].scan
        /\ d.told = doc[r].told /\ d.status = doc[r].status /\ d.url = doc[r].url
        /\ d.runs = doc[r].runs
        /\ d.chains = chains[doc[r].scan]
    <3>1. doc[r].next + 1 \in 1 .. 5
      BY <2>1
    <3>2. QED
      BY <2>1, <2>2, <2>3, <3>1 DEF DocumentType
  <2>5. Found(d)
    BY <2>1, <2>3, <2>4 DEF Found, Stores, AnnouncedIsStored
  <2>6. QED
    BY <1>4, <2>2, <2>4, <2>5
<1>9. QED
  BY <1>1, <1>2, <1>5, <1>6, <1>7, <1>8 DEF Read

LEMMA DocumentsInvariant == ReportsSpec => []DocumentsInv
<1>1. DocumentsInit => DocumentsInv
  BY DEF DocumentsInit, DocumentsInv
<1>2. Bookkeeping /\ Settled /\ DocumentsInv /\ [ReportsNext]_<<vars, doc>> => DocumentsInv'
  <2> SUFFICES ASSUME Bookkeeping, Settled, DocumentsInv, [ReportsNext]_<<vars, doc>>
               PROVE  DocumentsInv'
    OBVIOUS
  <2>1. ASSUME [Next]_vars, UNCHANGED doc PROVE DocumentsInv'
    BY <2>1, FoundStays
  <2>2. ASSUME NEW r \in Readers, Read(r), UNCHANGED vars PROVE DocumentsInv'
    BY <2>2, ReadStep
  <2>3. QED
    BY <2>1, <2>2 DEF ReportsNext
<1>3. QED
  BY <1>1, <1>2, ReadersOnlyRead, BookkeepingCorrect, SettledInvariant, PTL DEF ReportsSpec

LEMMA CompleteIsFound ==
  ASSUME DocumentsInv, NEW r \in Readers, Complete(r), ~Rowless(doc[r].scan),
         NEW m \in doc[r].told
  PROVE  /\ MaxDeliveries = 1 => doc[r].status = "completed"
         /\ doc[r].url
         /\ m.report /= "empty" => m.run \in doc[r].runs
         /\ m.report = "chains" /\ "chains" \in Range(doc[r].queries) => m.run \in doc[r].chains
<1>1. doc[r] \in DocumentType /\ Found(doc[r])
  BY DEF Complete, DocumentsInv
<1>2. doc[r].queries \in Documents /\ doc[r].next \in 1 .. 5 /\ doc[r].next > Len(doc[r].queries)
  BY <1>1 DEF DocumentType, Complete
<1>3. doc[r].next > 3 /\ ("chains" \in Range(doc[r].queries) => doc[r].next > 4)
  BY <1>2, QueryOrder
<1>4. QED
  BY <1>1, <1>2, <1>3 DEF Found

(* A document asked for after the end of a run was announced has its       *)
(* findings and chains, whatever is committed between its queries.         *)
THEOREM ReportsWhole == ReportsSpec => []ReportsAreWhole
<1>1. DocumentsInv => ReportsAreWhole
  BY CompleteIsFound DEF ReportsAreWhole
<1>2. QED
  BY <1>1, DocumentsInvariant, PTL

\* The worst control decides.
LEMMA CompliantControls ==
  ASSUME NEW status, Overall(Controls, status) = "COMPLIANT",
         NEW control \in Controls, NEW f \in control, f \in DOMAIN status
  PROVE  status[f] = "false_positive"
<1>1. ControlStatus(control, status) \in {"COMPLIANT", "NON-COMPLIANT", "REVIEW"}
  BY DEF ControlStatus
<1>2. ControlStatus(control, status) = "COMPLIANT"
  BY <1>1 DEF Overall
<1>3. control \cap Actionable(status) = {}
  BY <1>2 DEF ControlStatus
<1>4. QED
  BY <1>3 DEF Actionable

(* A compliance report says COMPLIANT of a scan known to have findings     *)
(* only when those that match a control were dismissed.                    *)
THEOREM CompliantEarned == ReportsSpec => []CompliantIsEarned
<1>1. ASSUME DocumentsInv PROVE CompliantIsEarned
  <2> SUFFICES ASSUME NEW r \in Readers, Complete(r), ~Rowless(doc[r].scan),
                      NEW review \in Reviews(doc[r]), NEW m \in doc[r].told,
                      Overall(Controls, review) = "COMPLIANT", m.report /= "empty",
                      NEW f \in UNION Controls
               PROVE  review[f] = "false_positive"
    BY DEF CompliantIsEarned
  <2>1. doc[r].runs /= {}
    BY <1>1, CompleteIsFound
  <2>2. DOMAIN review = Items
    BY <2>1 DEF Reviews
  <2>3. QED
    BY <2>2, CompliantControls, ControlsAssumption
<1>2. QED
  BY <1>1, DocumentsInvariant, PTL
=============================================================================
