------------------------- MODULE ScannerJobsProofs --------------------------
(***************************************************************************)
(* Theorems about Scanners and ScannerJobs, for any number of jobs,        *)
(* processes and deliveries, any URLs, scan types and exit statuses.       *)
(***************************************************************************)
EXTENDS ScannerJobs, TLAPS

\* A verified target, or one about to be, has a URL with a reason.
TargetGrounded == target.verified \/ verifying => target.url \in proved \cup edited

\* What the request, the messages and the row of a job say of each other.
JobGrounded(j) ==
    /\ request[j].pc \in {"idle", "rejected", "checked"} => row[j] = "none"
    /\ row[j] \in {"running", "completed", "failed"} => request[j].pc = "answered"
    /\ queue[j] > 0 \/ started[j] > 0 => request[j].pc = "answered"
    /\ request[j].pc \in {"inserted", "answered"} => row[j] /= "none"
    /\ request[j].pc \notin {"idle", "rejected"} => request[j].url \in proved \cup edited
    /\ queue[j] + started[j] <= MaxDeliveries
    /\ row[j] = "completed"
          => /\ basis[j] \in OutcomesOf(request[j].type)
             /\ ResultOf(request[j].type, basis[j]) \in {"none", "findings"}

\* What an execution holds is about a job that was answered and has begun.
WorkGrounded(p) ==
    LET j == proc[p].job IN
    ~At(p, "idle") =>
        /\ p \in ScanProcs
        /\ request[j].pc = "answered"
        /\ ~At(p, "begin") => row[j] \in {"running", "completed", "failed", "deleted"}
        /\ proc[p].pc \in {"record", "store"}
              => /\ proc[p].outcome \in OutcomesOf(request[j].type)
                 /\ ResultOf(request[j].type, proc[p].outcome) /= "raises"
        /\ At(p, "store") => ResultOf(request[j].type, proc[p].outcome) /= "error"

Inv ==
    /\ TypeOK
    /\ TargetGrounded
    /\ \A j \in Jobs : JobGrounded(j)
    /\ \A p \in Procs : WorkGrounded(p)

-----------------------------------------------------------------------------
(* The wrappers                                                            *)

\* What all wrappers have in common.
LEMMA ParsedOutcome ==
  ASSUME NEW o \in Outcomes, NEW accepted, NEW refused, NEW quiet
  PROVE  LET result == Parsed(o, accepted, refused, quiet) IN
         /\ result \in Results
         /\ result /= "error" => /\ o \in [end : {"exit"}, status : ExitStatuses, report : Reports]
                                /\ o.status \in accepted
                                /\ o.report \notin refused
         /\ result = "findings" => o.report \notin refused \cup quiet \cup {"odd"}
<1>1. CASE o \in [end : {"missing", "timeout"}]
  BY <1>1 DEF Parsed, Results
<1>2. CASE o \in [end : {"exit"}, status : ExitStatuses, report : Reports]
  BY <1>2 DEF Parsed, Read, Results
<1>3. QED
  BY <1>1, <1>2 DEF Outcomes

\* A result, if it is not an error, comes from a program that ended by itself
\* with one of the statuses, and findings from a report that has some.
FailsAloud(w, o, statuses) ==
    /\ Result(w, o) \in Results
    /\ Result(w, o) /= "error"
          => /\ o \in [end : {"exit"}, status : ExitStatuses, report : Reports]
             /\ o.status \in statuses
    /\ Result(w, o) = "findings" => o.report \in {"issues", "partial"}

\* The wrappers behind the single-scanner jobs.
LEMMA WrapperResult ==
  ASSUME NEW o \in Outcomes
  PROVE  /\ \A w \in {"zap", "semgrep", "gitleaks"} : FailsAloud(w, o, ExitStatuses)
         /\ \A w \in {"nuclei", "nmap"} : FailsAloud(w, o, {0})
<1>1. FailsAloud("zap", o, ExitStatuses)
  <2>1. Result("zap", o) = Parsed(o, ExitStatuses, {"absent"} \cup Unreadable, {"clean"})
    BY DEF Result, Zap
  <2>2. QED
    BY <2>1, ParsedOutcome DEF FailsAloud, Reports, Unreadable
<1>2. FailsAloud("semgrep", o, ExitStatuses)
  <2>1. Result("semgrep", o) = Parsed(o, ExitStatuses, {"absent"} \cup Unreadable, {"clean"})
    BY DEF Result, Semgrep
  <2>2. QED
    BY <2>1, ParsedOutcome DEF FailsAloud, Reports, Unreadable
<1>3. FailsAloud("gitleaks", o, ExitStatuses)
  <2>1. Result("gitleaks", o) = Parsed(o, ExitStatuses, Unreadable, {"absent", "clean"})
    BY DEF Result, Gitleaks
  <2>2. QED
    BY <2>1, ParsedOutcome DEF FailsAloud, Reports, Unreadable
<1>4. FailsAloud("nuclei", o, {0})
  <2>1. Result("nuclei", o) = Parsed(o, {0}, {}, {"absent", "broken", "clean"})
    BY DEF Result, Nuclei
  <2>2. QED
    BY <2>1, ParsedOutcome DEF FailsAloud, Reports, Unreadable
<1>5. FailsAloud("nmap", o, {0})
  <2>1. Result("nmap", o) = Parsed(o, {0}, {}, {"absent", "odd", "clean"} \cup Unreadable)
    BY DEF Result, Nmap
  <2>2. QED
    BY <2>1, ParsedOutcome DEF FailsAloud, Reports, Unreadable
<1>6. QED
  BY <1>1, <1>2, <1>3, <1>4, <1>5

\* What the status of a completed job rests on.
LEMMA CleanResult ==
  ASSUME NEW type, NEW o \in OutcomesOf(type),
         ResultOf(type, o) \in {"none", "findings"}
  PROVE  /\ o.end = "exit"
         /\ type \in {"api", "network"} => o.status = 0
         /\ type \in {"web", "sast"} => o.report \in {"clean", "issues"}
<1>1. /\ Dispatch(type) \in {"zap", "nuclei", "nmap", "semgrep", "gitleaks"}
      /\ o \in Outcomes
  BY DEF ResultOf, OutcomesOf, Dispatch
<1>2. o \in [end : {"exit"}, status : ExitStatuses, report : Reports]
  BY <1>1, WrapperResult DEF ResultOf, FailsAloud
<1>3. type \in {"api", "network"} => o.status = 0
  BY <1>1, WrapperResult DEF ResultOf, Dispatch, FailsAloud
<1>4. ASSUME type \in {"web", "sast"} PROVE o.report \in {"clean", "issues"}
  <2>1. ResultOf(type, o) = Parsed(o, ExitStatuses, {"absent"} \cup Unreadable, {"clean"})
    BY <1>4 DEF ResultOf, Dispatch, Result, Zap, Semgrep
  <2>2. QED
    BY <1>2, <2>1 DEF Parsed, Read, Reports, Unreadable
<1>5. QED
  BY <1>2, <1>3, <1>4

-----------------------------------------------------------------------------
(* The invariant                                                           *)

LEMMA InitInv == Init => Inv
<1> SUFFICES ASSUME Init PROVE Inv
  OBVIOUS
<1>1. TypeOK
  <2>1. target \in [state : {"none", "present", "deleting", "deleted"},
                   url : Urls, verified : BOOLEAN]
    BY DEF Init
  <2>2. /\ request \in [Jobs -> [pc : {"idle", "rejected"}]]
        /\ row \in [Jobs -> {"none"}]
        /\ findings \in [Jobs -> {{}}]
        /\ proc \in [Procs -> {Idle}]
    BY DEF Init
  <2>3. /\ queue \in [Jobs -> 0 .. MaxDeliveries]
        /\ started \in [Jobs -> 0 .. MaxDeliveries]
    BY DeliveriesAssumption DEF Init
  <2>4. /\ verifying \in BOOLEAN /\ used = {} /\ proved = {} /\ edited = {} /\ lost = {}
        /\ basis \in [Jobs -> {Unknown}]
    BY DEF Init
  <2>5. QED
    BY <2>1, <2>2, <2>3, <2>4 DEF TypeOK
<1>2. TargetGrounded
  BY DEF Init, TargetGrounded
<1>3. \A j \in Jobs : JobGrounded(j)
  <2> SUFFICES ASSUME NEW j \in Jobs PROVE JobGrounded(j)
    OBVIOUS
  <2>1. /\ request[j].pc = "idle" /\ row[j] = "none"
        /\ queue[j] = 0 /\ started[j] = 0
    BY DEF Init
  <2>2. QED
    BY <2>1, DeliveriesAssumption DEF JobGrounded
<1>4. \A p \in Procs : WorkGrounded(p)
  BY DEF Init, WorkGrounded, At, Idle
<1>5. QED
  BY <1>1, <1>2, <1>3, <1>4 DEF Inv

\* The registry changes rows and findings only by deleting all of them.
LEMMA RegistryStep == Inv /\ Registry => Inv'
<1> SUFFICES ASSUME Inv, Registry PROVE Inv'
  OBVIOUS
<1>1. /\ UNCHANGED <<request, queue, started, proc, basis, used, lost>>
      /\ \/ UNCHANGED <<row, findings>>
         \/ CommitDelete
  BY DEF Registry, CreateTarget, EditTarget, LookUp, EndVerify, DeleteTarget, CommitDelete,
         store, broker
<1>2. proved \subseteq proved' /\ edited \subseteq edited'
  BY DEF Registry, CreateTarget, EditTarget, LookUp, EndVerify, DeleteTarget, CommitDelete
<1>3. /\ target' \in [state : {"none", "present", "deleting", "deleted"},
                      url : Urls, verified : BOOLEAN]
      /\ verifying' \in BOOLEAN
      /\ proved' \subseteq Urls
      /\ edited' \subseteq Urls
  BY DEF Inv, TypeOK, Registry, CreateTarget, EditTarget, LookUp, EndVerify, DeleteTarget,
         CommitDelete
<1>4. TargetGrounded'
  BY DEF Inv, TypeOK, TargetGrounded, Registry, CreateTarget, EditTarget, LookUp, EndVerify,
         DeleteTarget, CommitDelete
<1>5. \A j \in Jobs : \/ row'[j] = row[j]
                      \/ row[j] /= "none" /\ row'[j] = "deleted"
  BY <1>1 DEF CommitDelete
<1>6. TypeOK'
  <2>1. /\ row' \in [Jobs -> {"none", "pending", "running", "completed", "failed", "deleted"}]
        /\ findings' \in [Jobs -> SUBSET Executions]
    BY <1>1 DEF Inv, TypeOK, CommitDelete
  <2>2. QED
    BY <1>1, <1>3, <2>1 DEF Inv, TypeOK
<1>7. \A j \in Jobs : JobGrounded(j)'
  BY <1>1, <1>2, <1>5 DEF Inv, JobGrounded
<1>8. \A p \in Procs : WorkGrounded(p)'
  <2> SUFFICES ASSUME NEW p \in Procs, ~At(p, "idle") PROVE WorkGrounded(p)'
    BY <1>1 DEF WorkGrounded, At
  <2>1. proc[p].job \in Jobs
    BY DEF Inv, TypeOK, At, Idle
  <2>2. QED
    BY <1>1, <1>5, <2>1 DEF Inv, WorkGrounded, At
<1>9. QED
  BY <1>4, <1>6, <1>7, <1>8 DEF Inv

\* A request with a URL stays typed when it moves on.
LEMMA RequestMoves ==
  ASSUME Inv, NEW j \in Jobs, NEW from \in {"checked", "inserted"},
         NEW to \in {"inserted", "answered", "died"}, Requested(j, from, to)
  PROVE  /\ request' \in [Jobs -> [pc : {"idle", "rejected"}] \cup
                                 [pc : {"checked", "inserted", "answered", "died"},
                                  url : Urls, type : Types]]
         /\ request[j].pc = from /\ request'[j].pc = to
         /\ request'[j].url = request[j].url
         /\ \A k \in Jobs \ {j} : request'[k] = request[k]
<1>1. request[j] \in [pc : {"checked", "inserted", "answered", "died"}, url : Urls, type : Types]
  BY DEF Inv, TypeOK, Requested
<1>2. request' = [request EXCEPT ![j] = [request[j] EXCEPT !.pc = to]]
  BY DEF Requested
<1>3. QED
  BY <1>1, <1>2 DEF Inv, TypeOK, Requested

\* A create_scan request or a redelivery concerns one job, and no execution.
LEMMA CreateStep == ASSUME Inv, NEW j \in Jobs, Create(j) PROVE Inv'
<1> USE DEF Inv
<1>1. /\ UNCHANGED <<registry, findings, basis, started, proc, used>>
      /\ lost' \subseteq Jobs
      /\ \A k \in Jobs \ {j} : /\ request'[k] = request[k]
                                /\ row'[k] = row[k] /\ queue'[k] = queue[k]
      /\ request[j].pc = "answered" => request'[j] = request[j] /\ row'[j] = row[j]
  BY DEF TypeOK, Create, InsertScan, Enqueue, RequestDies, Redeliver, CheckTarget, Requested,
         registry, store, broker
<1>2. /\ request' \in [Jobs -> [pc : {"idle", "rejected"}] \cup
                              [pc : {"checked", "inserted", "answered", "died"},
                               url : Urls, type : Types]]
      /\ row' \in [Jobs -> {"none", "pending", "running", "completed", "failed", "deleted"}]
      /\ queue' \in [Jobs -> 0 .. MaxDeliveries]
      /\ JobGrounded(j)'
  <2>1. CASE InsertScan(j)
    <3>1. PICK to \in {"inserted", "died"} : Requested(j, "checked", to)
      BY <2>1 DEF InsertScan
    <3>2. /\ request[j].pc = "checked" /\ request'[j].pc = to
          /\ request'[j].url = request[j].url
      BY <3>1, RequestMoves
    <3>3. UNCHANGED <<queue, started, basis, proved, edited>>
      BY <2>1 DEF InsertScan, registry, broker
    <3>4. \/ to = "inserted" /\ row' = [row EXCEPT ![j] = "pending"]
          \/ to = "died" /\ row' = row
      BY <2>1, <3>2, RequestMoves DEF InsertScan
    <3>5. /\ row' \in [Jobs -> {"none", "pending", "running", "completed", "failed", "deleted"}]
          /\ row'[j] \in {"none", "pending"}
          /\ to = "inserted" => row'[j] = "pending"
      BY <3>2, <3>4 DEF TypeOK, JobGrounded
    <3>6. ~(queue[j] > 0) /\ ~(started[j] > 0)
      BY <3>2 DEF JobGrounded
    <3>7. JobGrounded(j)'
      BY <3>2, <3>3, <3>5, <3>6 DEF JobGrounded
    <3>8. QED
      BY <3>1, <3>3, <3>5, <3>7, RequestMoves DEF TypeOK
  <2>2. CASE Enqueue(j)
    <3>1. Requested(j, "inserted", "answered")
      BY <2>2 DEF Enqueue
    <3>2. queue[j] = 0 /\ started[j] = 0
      BY <3>1, RequestMoves DEF TypeOK, JobGrounded
    <3>3. queue'[j] = 1 /\ queue' \in [Jobs -> 0 .. MaxDeliveries]
      BY <2>2, DeliveriesAssumption DEF Enqueue, TypeOK
    <3>4. row' = row /\ UNCHANGED <<findings, basis, started, proved, edited>>
      BY <2>2 DEF Enqueue, store, registry
    <3>5. request'[j].pc = "answered" /\ request'[j].url = request[j].url
      BY <3>1, RequestMoves
    <3>6. row[j] /= "none" /\ row[j] /= "completed" /\ request[j].url \in proved \cup edited
      BY <3>1, RequestMoves DEF JobGrounded
    <3>7. JobGrounded(j)'
      BY <3>2, <3>3, <3>4, <3>5, <3>6, DeliveriesAssumption DEF JobGrounded
    <3>8. QED
      BY <3>1, <3>3, <3>4, <3>7, RequestMoves DEF TypeOK
  <2>3. CASE RequestDies(j)
    <3>1. PICK from \in {"checked", "inserted"} : Requested(j, from, "died")
      BY <2>3 DEF RequestDies
    <3>2. QED
      BY <2>3, <3>1, RequestMoves, <1>1 DEF RequestDies, TypeOK, JobGrounded, broker, store, registry
  <2>4. CASE Redeliver(j)
    <3>1. queue[j] \in 0 .. MaxDeliveries /\ started[j] \in 0 .. MaxDeliveries
      BY DEF TypeOK
    <3>2. /\ UNCHANGED <<request, row, basis, started, proved, edited>>
          /\ queue[j] > 0 /\ queue'[j] = queue[j] + 1
          /\ queue[j] + 1 + started[j] <= MaxDeliveries
      BY <2>4, <3>1, DeliveriesAssumption DEF Redeliver, TypeOK, store, registry
    <3>3. queue' \in [Jobs -> 0 .. MaxDeliveries]
      BY <2>4, <3>1, <3>2, DeliveriesAssumption DEF Redeliver, TypeOK
    <3>4. JobGrounded(j)'
      BY <3>1, <3>2, DeliveriesAssumption DEF JobGrounded
    <3>5. QED
      BY <3>2, <3>3, <3>4 DEF TypeOK
  <2>5. CASE \E type \in Types : CheckTarget(j, type)
    BY <2>5, <1>1 DEF CheckTarget, TypeOK, TargetGrounded, JobGrounded, store, registry, broker
  <2>6. QED
    BY <2>1, <2>2, <2>3, <2>4, <2>5 DEF Create
<1>3. TypeOK' /\ TargetGrounded'
  BY <1>1, <1>2 DEF TypeOK, TargetGrounded, registry
<1>4. \A k \in Jobs : JobGrounded(k)'
  BY <1>1, <1>2 DEF JobGrounded, registry
<1>5. \A p \in Procs : WorkGrounded(p)'
  <2> SUFFICES ASSUME NEW p \in Procs, ~At(p, "idle") PROVE WorkGrounded(p)'
    BY <1>1 DEF WorkGrounded, At
  <2>1. proc[p].job \in Jobs
    BY DEF TypeOK, At, Idle
  <2>2. QED
    BY <1>1, <2>1 DEF WorkGrounded, At
<1>6. QED
  BY <1>3, <1>4, <1>5

\* A message leaves the queue of its job and, on a worker that knows the task,
\* becomes an execution.
LEMMA TakeStep ==
  ASSUME Inv, NEW p \in Procs, NEW j \in Jobs, StartJob(p, j) \/ DiscardJob(p, j)
  PROVE  Inv'
<1> USE DEF Inv
<1>1. /\ proc[p] = Idle /\ queue[j] > 0
      /\ queue' = [queue EXCEPT ![j] = @ - 1]
      /\ started' = [started EXCEPT ![j] = @ + 1]
      /\ UNCHANGED <<target, verifying, proved, edited, row, findings, basis, request, used>>
      /\ lost' \subseteq Jobs
  BY DEF TypeOK, StartJob, DiscardJob, Take, registry, store
<1>2. /\ queue[j] \in 0 .. MaxDeliveries /\ started[j] \in 0 .. MaxDeliveries
      /\ queue[j] + started[j] <= MaxDeliveries
  BY DEF TypeOK, JobGrounded
<1>3. /\ queue' \in [Jobs -> 0 .. MaxDeliveries]
      /\ started' \in [Jobs -> 0 .. MaxDeliveries]
      /\ started[j] + 1 \in Executions
      /\ queue'[j] + started'[j] = queue[j] + started[j]
  <2>1. queue'[j] = queue[j] - 1 /\ started'[j] = started[j] + 1
    BY <1>1 DEF TypeOK
  <2>2. queue[j] - 1 \in 0 .. MaxDeliveries /\ started[j] + 1 \in 1 .. MaxDeliveries
    BY <1>1, <1>2, DeliveriesAssumption
  <2>3. /\ queue' \in [Jobs -> 0 .. MaxDeliveries]
        /\ started' \in [Jobs -> 0 .. MaxDeliveries]
    <3>1. started[j] + 1 \in 0 .. MaxDeliveries
      BY <1>2, <2>2, DeliveriesAssumption
    <3>2. QED
      BY <1>1, <2>2, <3>1 DEF TypeOK
  <2>4. QED
    BY <1>2, <2>1, <2>2, <2>3 DEF Executions
<1>4. \/ /\ p \in ScanProcs
         /\ proc' = [proc EXCEPT ![p] = [pc |-> "begin", job |-> j, run |-> started[j] + 1]]
      \/ proc' = proc
  BY DEF StartJob, DiscardJob
<1>5. TypeOK'
  <2>1. proc' \in [Procs -> {Idle} \cup
                            [pc : {"begin", "scan"}, job : Jobs, run : Executions] \cup
                            [pc : {"record", "store"}, job : Jobs, run : Executions,
                             outcome : Outcomes \cup {Unknown}]]
    BY <1>3, <1>4 DEF TypeOK
  <2>2. QED
    BY <1>1, <1>3, <2>1 DEF TypeOK
<1>6. TargetGrounded'
  BY <1>1 DEF TargetGrounded
<1>7. request[j].pc = "answered"
  BY <1>1 DEF JobGrounded
<1>8. \A k \in Jobs : JobGrounded(k)'
  <2> SUFFICES ASSUME NEW k \in Jobs PROVE JobGrounded(k)'
    OBVIOUS
  <2>1. CASE k = j
    BY <1>1, <1>2, <1>3, <1>7, <2>1 DEF JobGrounded
  <2>2. CASE k /= j
    <3>1. queue'[k] = queue[k] /\ started'[k] = started[k]
      BY <1>1, <2>2 DEF TypeOK
    <3>2. QED
      BY <1>1, <3>1 DEF JobGrounded
  <2>3. QED
    BY <2>1, <2>2
<1>9. \A q \in Procs : WorkGrounded(q)'
  <2> SUFFICES ASSUME NEW q \in Procs PROVE WorkGrounded(q)'
    OBVIOUS
  <2>1. CASE proc'[q] = proc[q]
    BY <1>1, <2>1 DEF WorkGrounded, At
  <2>2. CASE proc'[q] /= proc[q]
    <3>1. /\ q \in ScanProcs
          /\ proc'[q] = [pc |-> "begin", job |-> j, run |-> started[j] + 1]
      BY <1>4, <2>2 DEF TypeOK
    <3>2. QED
      BY <1>1, <1>7, <3>1 DEF WorkGrounded, At
  <2>3. QED
    BY <2>1, <2>2
<1>10. QED
  BY <1>5, <1>6, <1>8, <1>9

\* What a process at work holds.
LEMMA AtWork ==
  ASSUME Inv, NEW p \in Procs, ~At(p, "idle")
  PROVE  /\ proc[p].job \in Jobs
         /\ proc[p].run \in Executions
         /\ proc[p].pc \in {"begin", "scan", "record", "store"}
         /\ proc[p].pc \in {"begin", "scan"}
               => proc[p] \in [pc : {"begin", "scan"}, job : Jobs, run : Executions]
         /\ proc[p].pc \in {"record", "store"}
               => proc[p] \in [pc : {"record", "store"}, job : Jobs, run : Executions,
                               outcome : Outcomes \cup {Unknown}]
BY DEF Inv, TypeOK, At, Idle

\* The scanner's verdict is one of four.
LEMMA ResultsOfTypes ==
  ASSUME NEW type, NEW o \in OutcomesOf(type)
  PROVE  o \in Outcomes \cup {Unknown} /\ ResultOf(type, o) \in Results
<1>1. CASE Dispatch(type) = "unknown"
  BY <1>1 DEF ResultOf, OutcomesOf, Results
<1>2. CASE Dispatch(type) /= "unknown"
  <2>1. Dispatch(type) \in {"zap", "nuclei", "nmap", "semgrep", "gitleaks"} /\ o \in Outcomes
    BY <1>2 DEF Dispatch, OutcomesOf
  <2>2. QED
    BY <1>2, <2>1, WrapperResult DEF ResultOf, FailsAloud
<1>3. QED
  BY <1>1, <1>2

\* What a step of an execution leaves alone.
LEMMA WorkFrame ==
  ASSUME Inv, NEW p \in Procs, Work(p) \/ TaskDies(p)
  PROVE  /\ ~At(p, "idle")
         /\ UNCHANGED <<registry, request, broker>>
         /\ lost \subseteq lost' /\ lost' \subseteq Jobs
         /\ \A q \in Procs \ {p} : proc'[q] = proc[q]
         /\ \A j \in Jobs : \/ row'[j] = row[j]
                            \/ row'[j] \in {"running", "completed", "failed"} /\ ~Rowless(j)
         /\ \A j \in Jobs \ {proc[p].job} : row'[j] = row[j] /\ basis'[j] = basis[j]
<1>1. ~At(p, "idle")
  BY DEF Work, BeginJob, ScannerReturns, RecordStatus, StoreFindings, TaskRaises, TaskDies, At
<1>2. proc[p].job \in Jobs
  BY <1>1, AtWork
<1>3. /\ UNCHANGED <<registry, request, broker>>
      /\ lost \subseteq lost' /\ lost' \subseteq Jobs
  BY <1>2 DEF Inv, TypeOK, Work, BeginJob, ScannerReturns, RecordStatus, StoreFindings,
              TaskRaises, TaskDies
<1>4. \A q \in Procs \ {p} : proc'[q] = proc[q]
  BY DEF Inv, TypeOK, Work, BeginJob, ScannerReturns, RecordStatus, StoreFindings,
         TaskRaises, TaskDies, Stop
<1>5. /\ \/ row' = row
         \/ /\ ~Rowless(proc[p].job)
            /\ \E s \in {"running", "completed", "failed"} :
                  row' = [row EXCEPT ![proc[p].job] = s]
      /\ \/ basis' = basis
         \/ \E o : basis' = [basis EXCEPT ![proc[p].job] = o]
  BY DEF Work, BeginJob, ScannerReturns, RecordStatus, StoreFindings, TaskRaises, TaskDies, store
<1>6. QED
  BY <1>1, <1>2, <1>3, <1>4, <1>5 DEF Inv, TypeOK

\* The process and the job of the step.
LEMMA WorkOwn ==
  ASSUME Inv, NEW p \in Procs, NEW j \in Jobs, j = proc[p].job, Work(p) \/ TaskDies(p)
  PROVE  TypeOK' /\ JobGrounded(j)' /\ WorkGrounded(p)'
<1> USE DEF Inv
<1>1. /\ ~At(p, "idle")
      /\ UNCHANGED <<target, verifying, proved, edited, request, queue, started>>
      /\ lost' \subseteq Jobs
  BY WorkFrame DEF registry, broker
<1>2. /\ p \in ScanProcs /\ request[j].pc = "answered" /\ row[j] /= "none"
      /\ request[j].url \in proved \cup edited
  BY <1>1 DEF WorkGrounded, JobGrounded
<1>3. CASE Stop(p) /\ UNCHANGED <<row, basis>> /\ findings' \in [Jobs -> SUBSET Executions]
  <2>1. proc'[p] = Idle /\ used' \subseteq ScanProcs
    BY <1>2, <1>3 DEF TypeOK, Stop
  <2>2. TypeOK'
    BY <1>1, <1>3, <2>1 DEF TypeOK, Stop
  <2>3. JobGrounded(j)' /\ WorkGrounded(p)'
    BY <1>1, <1>3, <2>1 DEF JobGrounded, WorkGrounded, At, Idle
  <2>4. QED
    BY <2>2, <2>3
<1>4. CASE BeginJob(p) /\ ~Rowless(j)
  <2>1. /\ proc[p] \in [pc : {"begin", "scan"}, job : Jobs, run : Executions]
        /\ proc' = [proc EXCEPT ![p] = [proc[p] EXCEPT !.pc = "scan"]]
        /\ row' = [row EXCEPT ![j] = "running"]
        /\ UNCHANGED <<findings, basis, used>>
    BY <1>1, <1>4, AtWork DEF BeginJob, At
  <2>2. TypeOK'
    BY <1>1, <2>1 DEF TypeOK
  <2>3. row'[j] = "running" /\ proc'[p].pc = "scan" /\ proc'[p].job = j
    BY <2>1 DEF TypeOK
  <2>4. QED
    BY <1>1, <1>2, <2>1, <2>2, <2>3 DEF JobGrounded, WorkGrounded, At
<1>5. CASE ScannerReturns(p)
  <2>1. PICK o \in OutcomesOf(request[j].type) :
          /\ ResultOf(request[j].type, o) /= "raises"
          /\ proc' = [proc EXCEPT ![p] = [pc |-> "record", job |-> j, run |-> proc[p].run,
                                          outcome |-> o]]
    BY <1>5 DEF ScannerReturns
  <2>2. /\ UNCHANGED <<row, findings, basis, used>>
        /\ row[j] \in {"running", "completed", "failed", "deleted"}
        /\ proc[p].run \in Executions
        /\ o \in Outcomes \cup {Unknown}
    BY <1>1, <1>5, <2>1, AtWork, ResultsOfTypes DEF ScannerReturns, store, WorkGrounded, At
  <2>3. TypeOK'
    BY <1>1, <2>1, <2>2 DEF TypeOK
  <2>4. proc'[p] = [pc |-> "record", job |-> j, run |-> proc[p].run, outcome |-> o]
    BY <2>1 DEF TypeOK
  <2>5. QED
    BY <1>1, <1>2, <2>1, <2>2, <2>3, <2>4 DEF JobGrounded, WorkGrounded, At
<1>6. CASE RecordStatus(p)
  <2>1. /\ At(p, "record") /\ ~Rowless(j)
        /\ basis' = [basis EXCEPT ![j] = proc[p].outcome]
        /\ findings' = findings
        /\ proc[p] \in [pc : {"record", "store"}, job : Jobs, run : Executions,
                        outcome : Outcomes \cup {Unknown}]
        /\ proc[p].outcome \in OutcomesOf(request[j].type)
        /\ ResultOf(request[j].type, proc[p].outcome) \in {"error", "none", "findings"}
    BY <1>1, <1>6, AtWork, ResultsOfTypes DEF RecordStatus, WorkGrounded, At, Results
  <2>2. basis' \in [Jobs -> Outcomes \cup {Unknown}] /\ basis'[j] = proc[p].outcome
    BY <2>1 DEF TypeOK
  <2>3. CASE ResultOf(request[j].type, proc[p].outcome) = "error"
    <3>1. row' = [row EXCEPT ![j] = "failed"] /\ Stop(p)
      BY <1>6, <2>3 DEF RecordStatus
    <3>2. proc'[p] = Idle /\ row'[j] = "failed" /\ used' \subseteq ScanProcs
      BY <1>2, <3>1 DEF TypeOK, Stop
    <3>3. TypeOK'
      BY <1>1, <2>1, <2>2, <3>1, <3>2 DEF TypeOK, Stop
    <3>4. QED
      BY <1>1, <1>2, <3>2, <3>3 DEF JobGrounded, WorkGrounded, At, Idle
  <2>4. CASE ResultOf(request[j].type, proc[p].outcome) /= "error"
    <3>1. /\ row' = [row EXCEPT ![j] = "completed"]
          /\ proc' = [proc EXCEPT ![p] = [proc[p] EXCEPT !.pc = "store"]]
          /\ used' = used
      BY <1>6, <2>4 DEF RecordStatus
    <3>2. /\ row'[j] = "completed" /\ proc'[p].pc = "store" /\ proc'[p].job = j
          /\ proc'[p].outcome = proc[p].outcome
      BY <2>1, <3>1 DEF TypeOK
    <3>3. TypeOK'
      BY <1>1, <2>1, <2>2, <3>1 DEF TypeOK
    <3>4. JobGrounded(j)'
      BY <1>1, <1>2, <2>1, <2>2, <2>4, <3>2 DEF JobGrounded
    <3>5. WorkGrounded(p)'
      BY <1>1, <1>2, <2>1, <2>4, <3>2 DEF WorkGrounded, At
    <3>6. QED
      BY <3>3, <3>4, <3>5
  <2>5. QED
    BY <2>3, <2>4
<1>7. CASE TaskDies(p)
  <2>1. /\ proc' = [proc EXCEPT ![p] = Idle] /\ proc'[p] = Idle
        /\ used' \subseteq ScanProcs
        /\ UNCHANGED <<row, findings, basis>>
    BY <1>7 DEF TaskDies, TypeOK, store
  <2>2. TypeOK'
    BY <1>1, <2>1 DEF TypeOK
  <2>3. QED
    BY <1>1, <2>1, <2>2 DEF JobGrounded, WorkGrounded, At, Idle
<1>8. CASE StoreFindings(p)
  <2>1. findings' \in [Jobs -> SUBSET Executions]
    BY <1>1, <1>8, AtWork DEF StoreFindings, TypeOK
  <2>2. QED
    BY <1>3, <1>8, <2>1 DEF StoreFindings
<1>9. CASE TaskRaises(p) \/ (BeginJob(p) /\ Rowless(j))
  BY <1>3, <1>9 DEF TaskRaises, BeginJob, TypeOK, store
<1>10. QED
  BY <1>4, <1>5, <1>6, <1>7, <1>8, <1>9 DEF Work

LEMMA WorkStep == ASSUME Inv, NEW p \in Procs, Work(p) \/ TaskDies(p) PROVE Inv'
<1> USE DEF Inv
<1>1. /\ UNCHANGED <<target, verifying, proved, edited, request, queue, started>>
      /\ \A q \in Procs \ {p} : proc'[q] = proc[q]
      /\ \A j \in Jobs : \/ row'[j] = row[j]
                         \/ row'[j] \in {"running", "completed", "failed"} /\ ~Rowless(j)
      /\ \A j \in Jobs \ {proc[p].job} : row'[j] = row[j] /\ basis'[j] = basis[j]
      /\ proc[p].job \in Jobs
  BY WorkFrame, AtWork DEF registry, broker
<1>2. TypeOK' /\ WorkGrounded(p)'
  BY <1>1, WorkOwn
<1>3. TargetGrounded'
  BY <1>1 DEF TargetGrounded
<1>4. \A j \in Jobs : JobGrounded(j)'
  <2>1. \A j \in Jobs \ {proc[p].job} : JobGrounded(j)'
    BY <1>1 DEF JobGrounded
  <2>2. ASSUME NEW j \in Jobs, j = proc[p].job PROVE JobGrounded(j)'
    BY <1>1, <2>2, WorkOwn
  <2>3. QED
    BY <2>1, <2>2
<1>5. \A q \in Procs : WorkGrounded(q)'
  <2> SUFFICES ASSUME NEW q \in Procs \ {p}, ~At(q, "idle") PROVE WorkGrounded(q)'
    BY <1>1, <1>2 DEF WorkGrounded, At
  <2>1. proc[q].job \in Jobs
    BY AtWork
  <2>2. QED
    BY <1>1, <2>1 DEF WorkGrounded, At
<1>6. QED
  BY <1>2, <1>3, <1>4, <1>5

LEMMA InvStep == Inv /\ [Next]_vars => Inv'
<1> SUFFICES ASSUME Inv, [Next]_vars PROVE Inv'
  OBVIOUS
<1>1. CASE UNCHANGED vars
  <2>1. UNCHANGED <<target, verifying, proved, edited, row, findings, basis, request, queue,
                    started, proc, used, lost>>
    BY <1>1 DEF vars, registry, store, broker
  <2>2. TypeOK' /\ TargetGrounded'
    BY <2>1 DEF Inv, TypeOK, TargetGrounded
  <2>3. \A j \in Jobs : JobGrounded(j)'
    BY <2>1 DEF Inv, JobGrounded
  <2>4. \A p \in Procs : WorkGrounded(p)'
    BY <2>1 DEF Inv, WorkGrounded, At
  <2>5. QED
    BY <2>2, <2>3, <2>4 DEF Inv
<1>2. CASE Registry
  BY <1>2, RegistryStep
<1>3. ASSUME NEW j \in Jobs, Create(j) PROVE Inv'
  BY <1>3, CreateStep
<1>4. ASSUME NEW p \in Procs, Work(p) \/ TaskDies(p) PROVE Inv'
  BY <1>4, WorkStep
<1>5. ASSUME NEW p \in Procs, NEW j \in Jobs, StartJob(p, j) \/ DiscardJob(p, j) PROVE Inv'
  BY <1>5, TakeStep
<1>6. QED
  BY <1>1, <1>2, <1>3, <1>4, <1>5 DEF Next

-----------------------------------------------------------------------------
(* Theorems                                                                *)

LEMMA Invariant == Spec => []Inv
BY InitInv, InvStep, PTL DEF Spec

\* Every variable keeps its type.
THEOREM TypeCorrect == Spec => []TypeOK
<1>1. Inv => TypeOK
  BY DEF Inv
<1>2. QED
  BY <1>1, Invariant, PTL

\* A completed job's program ran to its end, and ended well where the wrapper
\* looks at it.
THEOREM CompletedRan == Spec => []CompletedWasRun
<1>1. Inv => CompletedWasRun
  BY CleanResult DEF Inv, JobGrounded, CompletedWasRun
<1>2. QED
  BY <1>1, Invariant, PTL

\* The URL of a job that was executed had its record found, or came by an edit
\* of a target that kept the flag.
THEOREM UrlsProven == Spec => []ScannedUrlWasProven
<1>1. Inv => ScannedUrlWasProven
  BY DEF Inv, JobGrounded, ScannedUrlWasProven
<1>2. QED
  BY <1>1, Invariant, PTL

-----------------------------------------------------------------------------
(* Unfinished jobs, and findings that are not there yet                    *)

AtJob(j, pcs) == \E p \in Procs : proc[p].pc \in pcs /\ proc[p].job = j

\* Who is at a job whose row is not final, and where the findings are that the
\* last recorded outcome of a completed one promises.
Accounted(j) ==
    /\ row[j] = "pending" /\ request[j].pc = "answered" => queue[j] > 0 \/ AtJob(j, {"begin"})
    /\ row[j] = "running" => AtJob(j, {"scan", "record"})
    /\ row[j] = "completed" /\ ResultOf(request[j].type, basis[j]) = "findings"
         => \/ findings[j] /= {}
            \/ \E p \in Procs : At(p, "store") /\ proc[p].job = j /\ proc[p].outcome = basis[j]

AllAccounted == \A j \in Jobs \ lost : Accounted(j)

LEMMA AccountedRegistry == Inv /\ AllAccounted /\ Registry => AllAccounted'
<1> SUFFICES ASSUME Inv, AllAccounted, Registry, NEW j \in Jobs \ lost' PROVE Accounted(j)'
  BY DEF AllAccounted
<1>1. /\ UNCHANGED <<request, queue, proc, basis, lost>>
      /\ \/ UNCHANGED <<row, findings>>
         \/ CommitDelete
  BY DEF Registry, CreateTarget, EditTarget, LookUp, EndVerify, DeleteTarget, CommitDelete,
         store, broker
<1>2. \/ row'[j] = row[j] /\ findings'[j] = findings[j]
      \/ row'[j] \in {"none", "deleted"}
  BY <1>1 DEF CommitDelete
<1>3. QED
  BY <1>1, <1>2 DEF AllAccounted, Accounted, AtJob, At

LEMMA AccountedCreate ==
  ASSUME Inv, AllAccounted, NEW j \in Jobs, Create(j) PROVE AllAccounted'
<1> USE DEF Inv
<1>1. /\ UNCHANGED <<findings, basis, proc>> /\ lost \subseteq lost'
      /\ \A k \in Jobs \ {j} : /\ request'[k] = request[k]
                                /\ row'[k] = row[k] /\ queue'[k] = queue[k]
  BY DEF TypeOK, Create, InsertScan, Enqueue, RequestDies, Redeliver, CheckTarget, Requested,
         store, broker
<1>2. \A k \in Jobs \ (lost' \cup {j}) : Accounted(k)'
  BY <1>1 DEF AllAccounted, Accounted, AtJob, At
<1>3. ASSUME j \notin lost' PROVE Accounted(j)'
  <2>1. CASE InsertScan(j)
    <3>1. PICK to \in {"inserted", "died"} : Requested(j, "checked", to)
      BY <2>1 DEF InsertScan
    <3>2. request'[j].pc /= "answered" /\ row[j] = "none"
      BY <3>1, RequestMoves DEF JobGrounded
    <3>3. row'[j] \in {"none", "pending"}
      BY <2>1, <3>2 DEF InsertScan, TypeOK
    <3>4. QED
      BY <3>2, <3>3 DEF Accounted
  <2>2. CASE Enqueue(j)
    <3>1. Requested(j, "inserted", "answered")
      BY <2>2 DEF Enqueue
    <3>2. row'[j] = row[j] /\ row[j] \notin {"running", "completed"}
      BY <2>2, <3>1, RequestMoves DEF Enqueue, store, JobGrounded
    <3>3. queue'[j] = 1
      BY <2>2 DEF Enqueue, TypeOK
    <3>4. QED
      BY <3>2, <3>3 DEF Accounted
  <2>3. CASE RequestDies(j)
    BY <1>3, <2>3 DEF RequestDies
  <2>4. CASE Redeliver(j)
    <3>1. queue'[j] = queue[j] + 1 /\ queue[j] \in Nat
      BY <2>4, DeliveriesAssumption DEF Redeliver, TypeOK
    <3>2. UNCHANGED <<row, request, lost>>
      BY <2>4 DEF Redeliver, store
    <3>3. QED
      BY <1>1, <1>3, <3>1, <3>2 DEF AllAccounted, Accounted, AtJob, At
  <2>5. CASE \E type \in Types : CheckTarget(j, type)
    BY <2>5 DEF CheckTarget, JobGrounded, Accounted, store
  <2>6. QED
    BY <2>1, <2>2, <2>3, <2>4, <2>5 DEF Create
<1>4. QED
  BY <1>1, <1>2, <1>3 DEF AllAccounted

LEMMA AccountedTake ==
  ASSUME Inv, AllAccounted, NEW p \in Procs, NEW j \in Jobs, StartJob(p, j) \/ DiscardJob(p, j)
  PROVE  AllAccounted'
<1> USE DEF Inv
<1> SUFFICES ASSUME NEW k \in Jobs \ lost' PROVE Accounted(k)'
  BY DEF AllAccounted
<1>1. /\ proc[p] = Idle
      /\ UNCHANGED <<row, request, findings, basis>>
      /\ lost \subseteq lost'
      /\ \A q \in Procs \ {p} : proc'[q] = proc[q]
  BY DEF TypeOK, StartJob, DiscardJob, Take, store
<1>2. k \notin lost /\ Accounted(k)
  BY <1>1 DEF AllAccounted
<1>3. ~At(p, "begin") /\ ~At(p, "scan") /\ ~At(p, "record") /\ ~At(p, "store")
  BY <1>1 DEF At, Idle
<1>4. CASE k /= j
  <2>1. queue'[k] = queue[k]
    BY <1>4 DEF TypeOK, StartJob, DiscardJob, Take
  <2>2. QED
    BY <1>1, <1>2, <1>3, <2>1 DEF Accounted, AtJob, At
<1>5. CASE k = j
  <2>1. proc'[p].pc = "begin" /\ proc'[p].job = j
    BY <1>5 DEF StartJob, DiscardJob, TypeOK
  <2>2. AtJob(j, {"begin"})'
    BY <2>1 DEF AtJob
  <2>3. QED
    BY <1>1, <1>2, <1>3, <1>5, <2>2 DEF Accounted, AtJob, At
<1>6. QED
  BY <1>4, <1>5

LEMMA AccountedWork ==
  ASSUME Inv, AllAccounted, NEW p \in Procs, NEW j \in Jobs, j = proc[p].job,
         Work(p) \/ TaskDies(p)
  PROVE  AllAccounted'
<1>1. /\ ~At(p, "idle")
      /\ UNCHANGED <<request, queue>>
      /\ lost \subseteq lost'
      /\ \A q \in Procs \ {p} : proc'[q] = proc[q]
      /\ \A k \in Jobs \ {j} : row'[k] = row[k] /\ basis'[k] = basis[k]
  BY WorkFrame DEF broker
<1>2. j \in Jobs
  OBVIOUS
<1>3. \A k \in Jobs \ {j} : findings'[k] = findings[k]
  BY DEF Inv, TypeOK, Work, BeginJob, ScannerReturns, RecordStatus, StoreFindings, TaskRaises,
         TaskDies, store
<1>4. \A k \in Jobs \ (lost' \cup {j}) : Accounted(k)'
  BY <1>1, <1>3 DEF AllAccounted, Accounted, AtJob, At
<1>5. ASSUME j \notin lost' PROVE Accounted(j)'
  <2>1. Accounted(j)
    BY <1>1, <1>2, <1>5 DEF AllAccounted
  <2>2. CASE BeginJob(p) /\ Rowless(j)
    BY <2>2 DEF BeginJob, Rowless, Accounted
  <2>3. CASE BeginJob(p) /\ ~Rowless(j)
    <3>1. row'[j] = "running"
      BY <1>2, <2>3 DEF BeginJob, Inv, TypeOK
    <3>2. proc'[p].pc = "scan" /\ proc'[p].job = j
      BY <1>1, <2>3, AtWork DEF BeginJob, Inv, TypeOK, At
    <3>3. QED
      BY <3>1, <3>2 DEF Accounted, AtJob
  <2>4. CASE ScannerReturns(p)
    <3>1. proc'[p].pc = "record" /\ proc'[p].job = j
      BY <2>4 DEF ScannerReturns, Inv, TypeOK
    <3>2. At(p, "scan") /\ UNCHANGED <<row, findings, basis>>
      BY <2>4 DEF ScannerReturns, store
    <3>3. QED
      BY <1>1, <2>1, <3>1, <3>2 DEF Accounted, AtJob, At
  <2>5. CASE RecordStatus(p)
    <3>1. row'[j] \in {"failed", "completed"} /\ basis'[j] = proc[p].outcome
      BY <1>2, <2>5 DEF RecordStatus, Inv, TypeOK
    <3>2. CASE row'[j] = "failed"
      BY <3>2 DEF Accounted
    <3>3. CASE row'[j] = "completed"
      <4>1. proc' = [proc EXCEPT ![p] = [proc[p] EXCEPT !.pc = "store"]]
        BY <1>2, <2>5, <3>3 DEF RecordStatus, Inv, TypeOK
      <4>2. /\ proc[p] \in [pc : {"record", "store"}, job : Jobs, run : Executions,
                            outcome : Outcomes \cup {Unknown}]
        BY <1>1, <2>5, AtWork DEF RecordStatus, At
      <4>3. /\ proc'[p].pc = "store" /\ proc'[p].job = j
            /\ proc'[p].outcome = proc[p].outcome
        BY <4>1, <4>2 DEF Inv, TypeOK
      <4>4. QED
        BY <3>1, <3>3, <4>3 DEF Accounted, At
    <3>4. QED
      BY <3>1, <3>2, <3>3
  <2>6. CASE StoreFindings(p)
    <3>1. At(p, "store") /\ UNCHANGED <<row, basis>>
      BY <2>6 DEF StoreFindings
    <3>2. /\ findings[j] \subseteq findings'[j]
          /\ ResultOf(request[j].type, proc[p].outcome) = "findings" => findings'[j] /= {}
      BY <1>2, <2>6 DEF StoreFindings, Inv, TypeOK
    <3>3. QED
      BY <1>1, <2>1, <3>1, <3>2 DEF Accounted, AtJob, At
  <2>7. CASE TaskRaises(p) \/ TaskDies(p)
    BY <1>2, <1>5, <2>7 DEF TaskRaises, TaskDies
  <2>8. QED
    BY <2>2, <2>3, <2>4, <2>5, <2>6, <2>7 DEF Work
<1>6. QED
  BY <1>4, <1>5 DEF AllAccounted

LEMMA AccountedStep == Inv /\ AllAccounted /\ [Next]_vars => AllAccounted'
<1> SUFFICES ASSUME Inv, AllAccounted, [Next]_vars PROVE AllAccounted'
  OBVIOUS
<1>1. CASE UNCHANGED vars
  BY <1>1 DEF AllAccounted, Accounted, AtJob, At, vars, store, broker
<1>2. CASE Registry
  BY <1>2, AccountedRegistry
<1>3. ASSUME NEW j \in Jobs, Create(j) PROVE AllAccounted'
  BY <1>3, AccountedCreate
<1>4. ASSUME NEW p \in Procs, Work(p) \/ TaskDies(p) PROVE AllAccounted'
  <2>1. PICK j \in Jobs : j = proc[p].job
    BY <1>4, WorkFrame, AtWork
  <2>2. QED
    BY <1>4, <2>1, AccountedWork
<1>5. ASSUME NEW p \in Procs, NEW j \in Jobs, StartJob(p, j) \/ DiscardJob(p, j)
      PROVE  AllAccounted'
  BY <1>5, AccountedTake
<1>6. QED
  BY <1>1, <1>2, <1>3, <1>4, <1>5 DEF Next

LEMMA AccountedInvariant == Spec => []AllAccounted
<1>1. Init => AllAccounted
  BY DEF Init, AllAccounted, Accounted
<1>2. QED
  BY <1>1, AccountedStep, Invariant, PTL DEF Spec

\* A job stays pending or running only while somebody is still at it, or when
\* something ended on it half-way.
THEOREM UnfinishedExplained == Spec => []UnfinishedIsExplained
<1>1. AllAccounted => UnfinishedIsExplained
  BY DEF AllAccounted, Accounted, AtJob, At, UnfinishedIsExplained
<1>2. QED
  BY <1>1, AccountedInvariant, PTL

\* The findings behind a completed job are stored, or are just being stored.
THEOREM ReportedStored == Spec => []ReportedIsStored
<1>1. AllAccounted => ReportedIsStored
  BY DEF AllAccounted, Accounted, ReportedIsStored
<1>2. QED
  BY <1>1, AccountedInvariant, PTL

-----------------------------------------------------------------------------
(* What a client relies on                                                 *)

\* With a single delivery, the position of an execution determines the status.
StatusAt(pc) == CASE pc = "begin"              -> {"pending", "deleted"}
                  [] pc \in {"scan", "record"} -> {"running", "deleted"}
                  [] pc = "store"              -> {"completed", "deleted"}

OnceInv ==
    MaxDeliveries = 1 =>
        /\ \A j \in Jobs : queue[j] > 0 => row[j] \in {"pending", "deleted"}
        /\ \A p \in Procs : ~At(p, "idle") =>
             /\ started[proc[p].job] = 1
             /\ row[proc[p].job] \in StatusAt(proc[p].pc)
        /\ \A p, q \in Procs : ~At(p, "idle") /\ ~At(q, "idle") /\ proc[p].job = proc[q].job
                                  => p = q

LEMMA OnceInit == Init => OnceInv
BY DEF Init, OnceInv, At, Idle

LEMMA OnceRegistry == Inv /\ OnceInv /\ Registry => OnceInv'
<1> SUFFICES ASSUME Inv, OnceInv, Registry, MaxDeliveries = 1 PROVE OnceInv'
  BY DEF OnceInv
<1>1. UNCHANGED <<queue, started, proc>>
  BY DEF Registry, CreateTarget, EditTarget, LookUp, EndVerify, DeleteTarget, CommitDelete, broker
<1>2. \A j \in Jobs : row'[j] = row[j] \/ (row[j] /= "none" /\ row'[j] = "deleted")
  BY DEF Registry, CreateTarget, EditTarget, LookUp, EndVerify, DeleteTarget, CommitDelete, store
<1>3. \A p \in Procs : ~At(p, "idle") => proc[p].job \in Jobs
  BY AtWork
<1>4. \A p \in Procs : ~At(p, "idle") => "deleted" \in StatusAt(proc[p].pc)
  BY AtWork DEF StatusAt
<1>5. QED
  BY <1>1, <1>2, <1>3, <1>4 DEF OnceInv, At

LEMMA OnceCreate == ASSUME Inv, OnceInv, NEW j \in Jobs, Create(j) PROVE OnceInv'
<1> SUFFICES ASSUME MaxDeliveries = 1 PROVE OnceInv'
  BY DEF OnceInv
<1> USE DEF Inv
<1>1. /\ UNCHANGED <<started, proc>>
      /\ \A k \in Jobs \ {j} : row'[k] = row[k] /\ queue'[k] = queue[k]
  BY DEF TypeOK, Create, InsertScan, Enqueue, RequestDies, Redeliver, CheckTarget, Requested,
         store, broker
<1>2. request[j].pc = "answered" => Redeliver(j) /\ row'[j] = row[j] /\ queue[j] > 0
  <2>1. ASSUME request[j].pc = "answered" PROVE Redeliver(j)
    BY <2>1 DEF Create, InsertScan, Enqueue, RequestDies, CheckTarget, Requested
  <2>2. QED
    BY <2>1 DEF Redeliver, store
<1>3. queue'[j] > 0 => row'[j] \in {"pending", "deleted"}
  <2>1. CASE Enqueue(j)
    <3>1. Requested(j, "inserted", "answered") /\ row' = row
      BY <2>1 DEF Enqueue, store
    <3>2. QED
      BY <3>1, RequestMoves DEF TypeOK, JobGrounded
  <2>2. CASE ~Enqueue(j)
    <3>1. request[j].pc = "answered" \/ queue'[j] = queue[j]
      <4>1. Redeliver(j) => request[j].pc = "answered"
        BY DEF Redeliver, JobGrounded
      <4>2. QED
        BY <2>2, <4>1 DEF Create, InsertScan, RequestDies, CheckTarget, broker
    <3>2. QED
      BY <1>2, <3>1 DEF OnceInv, JobGrounded
  <2>3. QED
    BY <2>1, <2>2
<1>4. \A p \in Procs : ~At(p, "idle") => /\ proc[p].job \in Jobs
                                         /\ request[proc[p].job].pc = "answered"
  BY AtWork DEF WorkGrounded
<1>5. QED
  BY <1>1, <1>2, <1>3, <1>4 DEF OnceInv, At

LEMMA OnceTake ==
  ASSUME Inv, OnceInv, NEW p \in Procs, NEW j \in Jobs, StartJob(p, j) \/ DiscardJob(p, j)
  PROVE  OnceInv'
<1> SUFFICES ASSUME MaxDeliveries = 1 PROVE OnceInv'
  BY DEF OnceInv
<1> USE DEF Inv
<1>1. /\ proc[p] = Idle /\ row' = row /\ queue[j] > 0
      /\ queue' = [queue EXCEPT ![j] = @ - 1]
      /\ started' = [started EXCEPT ![j] = @ + 1]
  BY DEF StartJob, DiscardJob, Take, store
<1>2. queue[j] = 1 /\ started[j] = 0
  BY <1>1 DEF TypeOK, JobGrounded
<1>3. /\ queue'[j] = 0 /\ started'[j] = 1
      /\ \A k \in Jobs \ {j} : queue'[k] = queue[k] /\ started'[k] = started[k]
  BY <1>1, <1>2 DEF TypeOK
<1>4. \A q \in Procs : ~At(q, "idle") => proc[q].job \in Jobs \ {j}
  BY <1>2, AtWork DEF OnceInv
<1>5. /\ \A q \in Procs \ {p} : proc'[q] = proc[q]
      /\ \/ proc'[p].pc = "begin" /\ proc'[p].job = j
         \/ proc'[p].pc = "idle"
  BY <1>1 DEF StartJob, DiscardJob, TypeOK, Idle
<1>6. row[j] \in {"pending", "deleted"}
  BY <1>1 DEF OnceInv
<1>7. \A k \in Jobs : queue'[k] > 0 => row'[k] \in {"pending", "deleted"}
  BY <1>1, <1>3 DEF OnceInv
<1>8. \A q \in Procs : proc'[q].pc /= "idle" =>
         started'[proc'[q].job] = 1 /\ row'[proc'[q].job] \in StatusAt(proc'[q].pc)
  <2>1. \A q \in Procs \ {p} : proc'[q].pc /= "idle" =>
           started'[proc'[q].job] = 1 /\ row'[proc'[q].job] \in StatusAt(proc'[q].pc)
    BY <1>1, <1>3, <1>4, <1>5 DEF OnceInv, At
  <2>2. proc'[p].pc /= "idle" =>
           started'[proc'[p].job] = 1 /\ row'[proc'[p].job] \in StatusAt(proc'[p].pc)
    BY <1>1, <1>3, <1>5, <1>6 DEF StatusAt
  <2>3. QED
    BY <2>1, <2>2
<1>9. \A q, r \in Procs :
         proc'[q].pc /= "idle" /\ proc'[r].pc /= "idle" /\ proc'[q].job = proc'[r].job => q = r
  BY <1>4, <1>5 DEF OnceInv, At
<1>10. QED
  BY <1>7, <1>8, <1>9 DEF OnceInv, At

LEMMA OnceWork ==
  ASSUME Inv, OnceInv, NEW p \in Procs, NEW j \in Jobs, j = proc[p].job,
         Work(p) \/ TaskDies(p)
  PROVE  OnceInv'
<1> SUFFICES ASSUME MaxDeliveries = 1 PROVE OnceInv'
  BY DEF OnceInv
<1>1. /\ ~At(p, "idle")
      /\ UNCHANGED <<queue, started>>
      /\ \A q \in Procs \ {p} : proc'[q] = proc[q]
      /\ \A k \in Jobs \ {j} : row'[k] = row[k]
  BY WorkFrame DEF broker
<1>2. started[j] = 1 /\ ~(queue[j] > 0) /\ row[j] \in StatusAt(proc[p].pc)
  BY <1>1 DEF OnceInv, Inv, TypeOK, JobGrounded
<1>3. proc'[p].pc /= "idle" => proc'[p].job = j /\ row'[j] \in StatusAt(proc'[p].pc)
  <2>1. CASE BeginJob(p)
    BY <1>1, <1>2, <2>1, AtWork DEF BeginJob, Stop, Idle, At, StatusAt, Inv, TypeOK
  <2>2. CASE ScannerReturns(p)
    <3>1. proc'[p].pc = "record" /\ proc'[p].job = j /\ row' = row /\ At(p, "scan")
      BY <2>2 DEF ScannerReturns, Inv, TypeOK, store
    <3>2. QED
      BY <1>2, <3>1 DEF StatusAt, At
  <2>3. CASE RecordStatus(p)
    BY <1>1, <1>2, <2>3, AtWork DEF RecordStatus, Stop, Idle, At, StatusAt, Inv, TypeOK
  <2>4. CASE StoreFindings(p) \/ TaskRaises(p) \/ TaskDies(p)
    BY <2>4 DEF StoreFindings, TaskRaises, TaskDies, Stop, Idle, Inv, TypeOK
  <2>5. QED
    BY <2>1, <2>2, <2>3, <2>4 DEF Work
<1>4. \A q \in Procs \ {p} : ~At(q, "idle") => proc[q].job \in Jobs \ {j}
  BY <1>1, AtWork DEF OnceInv
<1>5. \A k \in Jobs : queue'[k] > 0 => row'[k] \in {"pending", "deleted"}
  BY <1>1, <1>2 DEF OnceInv
<1>6. \A q \in Procs : proc'[q].pc /= "idle" =>
         started'[proc'[q].job] = 1 /\ row'[proc'[q].job] \in StatusAt(proc'[q].pc)
  BY <1>1, <1>2, <1>3, <1>4 DEF OnceInv, At
<1>7. \A q, r \in Procs :
         proc'[q].pc /= "idle" /\ proc'[r].pc /= "idle" /\ proc'[q].job = proc'[r].job => q = r
  BY <1>1, <1>3, <1>4 DEF OnceInv, At
<1>8. QED
  BY <1>5, <1>6, <1>7 DEF OnceInv, At

LEMMA OnceStep == Inv /\ OnceInv /\ [Next]_vars => OnceInv'
<1> SUFFICES ASSUME Inv, OnceInv, [Next]_vars PROVE OnceInv'
  OBVIOUS
<1>1. CASE UNCHANGED vars
  BY <1>1 DEF OnceInv, At, vars, store, broker
<1>2. CASE Registry
  BY <1>2, OnceRegistry
<1>3. ASSUME NEW j \in Jobs, Create(j) PROVE OnceInv'
  BY <1>3, OnceCreate
<1>4. ASSUME NEW p \in Procs, Work(p) \/ TaskDies(p) PROVE OnceInv'
  <2>1. PICK j \in Jobs : j = proc[p].job
    BY <1>4, WorkFrame, AtWork
  <2>2. QED
    BY <1>4, <2>1, OnceWork
<1>5. ASSUME NEW p \in Procs, NEW j \in Jobs, StartJob(p, j) \/ DiscardJob(p, j) PROVE OnceInv'
  BY <1>5, OnceTake
<1>6. QED
  BY <1>1, <1>2, <1>3, <1>4, <1>5 DEF Next

\* Every commit is a step of ScanStatus, and nothing else moves a status.
LEMMA PromiseStep == Inv /\ OnceInv /\ [Next]_vars => [Promise!Next]_(Promise!vars)
<1> SUFFICES ASSUME Inv, OnceInv, [Next]_vars PROVE [Promise!Next]_(Promise!vars)
  OBVIOUS
<1>1. CASE row' = row
  BY <1>1 DEF Promise!vars
<1>2. ASSUME CommitDelete PROVE Promise!Vanish
  BY <1>2 DEF CommitDelete, Promise!Vanish
<1>3. ASSUME NEW j \in Jobs, InsertScan(j), row' /= row PROVE Promise!Submit(j)
  BY <1>3 DEF InsertScan, Requested, Inv, JobGrounded, Promise!Submit, Promise!Move
<1>4. ASSUME NEW p \in Procs, BeginJob(p), row' /= row PROVE Promise!Begin(proc[p].job)
  <2>1. /\ At(p, "begin") /\ proc[p].job \in Jobs /\ ~Rowless(proc[p].job)
        /\ row' = [row EXCEPT ![proc[p].job] = "running"]
    BY <1>4, AtWork DEF BeginJob, At
  <2>2. row[proc[p].job] \in {"pending", "running", "completed", "failed"}
    BY <2>1 DEF Inv, TypeOK, Rowless
  <2>3. MaxDeliveries = 1 => row[proc[p].job] = "pending"
    BY <2>1, <2>2 DEF OnceInv, At, StatusAt
  <2>4. ~(MaxDeliveries > 1) => MaxDeliveries = 1
    BY DeliveriesAssumption
  <2>5. QED
    BY <2>1, <2>2, <2>3, <2>4 DEF Promise!Begin, Promise!Move, Promise!Begun
<1>5. ASSUME NEW p \in Procs, RecordStatus(p) PROVE Promise!Finish(proc[p].job)
  <2>1. /\ At(p, "record") /\ proc[p].job \in Jobs /\ ~Rowless(proc[p].job)
        /\ \E outcome \in {"completed", "failed"} :
              row' = [row EXCEPT ![proc[p].job] = outcome]
    BY <1>5, AtWork DEF RecordStatus, At
  <2>2. row[proc[p].job] \in {"running", "completed", "failed"}
    BY <2>1 DEF Inv, WorkGrounded, At, Rowless
  <2>3. MaxDeliveries = 1 => row[proc[p].job] = "running"
    BY <2>1, <2>2 DEF OnceInv, At, StatusAt
  <2>4. ~(MaxDeliveries > 1) => MaxDeliveries = 1
    BY DeliveriesAssumption
  <2>5. QED
    BY <2>1, <2>2, <2>3, <2>4 DEF Promise!Finish, Promise!Move, Promise!Begun
<1>6. CASE UNCHANGED vars
  BY <1>1, <1>6 DEF vars, store
<1>7. CASE Registry
  <2>1. CommitDelete \/ row' = row
    BY <1>7 DEF Registry, CreateTarget, EditTarget, LookUp, EndVerify, DeleteTarget, store
  <2>2. QED
    BY <1>1, <1>2, <2>1 DEF Promise!Next
<1>8. ASSUME NEW j \in Jobs, Create(j) PROVE [Promise!Next]_(Promise!vars)
  <2>1. InsertScan(j) \/ row' = row
    BY <1>8 DEF Create, Enqueue, RequestDies, Redeliver, CheckTarget, store
  <2>2. QED
    BY <1>1, <1>3, <2>1 DEF Promise!Next
<1>9. ASSUME NEW p \in Procs, Work(p) \/ TaskDies(p) PROVE [Promise!Next]_(Promise!vars)
  <2>1. BeginJob(p) \/ RecordStatus(p) \/ row' = row
    BY <1>9 DEF Work, ScannerReturns, StoreFindings, TaskRaises, TaskDies, store
  <2>2. proc[p].job \in Jobs
    BY <1>9, WorkFrame, AtWork
  <2>3. QED
    BY <1>1, <1>4, <1>5, <2>1, <2>2 DEF Promise!Next
<1>10. ASSUME NEW p \in Procs, NEW j \in Jobs, StartJob(p, j) \/ DiscardJob(p, j)
       PROVE  [Promise!Next]_(Promise!vars)
  BY <1>1, <1>10 DEF StartJob, DiscardJob, store
<1>11. QED
  BY <1>6, <1>7, <1>8, <1>9, <1>10 DEF Next

\* ScannerJobs implements ScanStatus.
THEOREM Implements == Spec => KeepsPromise
<1>1. Init => Promise!Init
  BY DEF Init, Promise!Init
<1>2. QED
  BY <1>1, OnceInit, OnceStep, PromiseStep, Invariant, PTL DEF Spec, KeepsPromise, Promise!Spec
=============================================================================
