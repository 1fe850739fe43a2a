---------------------------- MODULE ScheduleTick ----------------------------
(***************************************************************************)
(* Continuous monitoring: recurring scans of targets.                      *)
(*                                                                         *)
(*   backend/workers/beat_worker.py  Celery Beat sends check_due_schedules *)
(*       every 60 seconds; a worker process executes it (_check): for each *)
(*       due schedule it inserts a scan, advances next_run_at and hands    *)
(*       run_agent_task to Celery                                          *)
(*   backend/api/v1/schedules.py  create, update and delete a schedule     *)
(*                                                                         *)
(* Every schedule has a target of its own.  An API request reads and       *)
(* writes its one row without waiting for anything else, and is one step.  *)
(* A tick reads the due schedules once and works on these copies; nothing  *)
(* keeps two ticks from overlapping when messages have piled up behind     *)
(* long scans.                                                             *)
(***************************************************************************)
EXTENDS Integers, FiniteSets

CONSTANTS
    Schedules,    \* schedule ids
    Procs,        \* worker processes
    BeatWorkers,  \* those that have imported beat_worker and know its task
    Intervals,    \* interval_hours, in units of time
    MaxTime,      \* bound on time
    MaxMail,      \* bound on the check_due_schedules messages waiting
    Failures      \* BOOLEAN: can a tick die, or fail to reach the broker?

\* interval_hours is above zero and at most a year.
ASSUME IntervalsAssumption ==
    Intervals \subseteq Nat \ {0} /\ \E i \in Intervals : \A j \in Intervals : j <= i
ASSUME BoundsAssumption == MaxTime \in Nat /\ MaxMail \in Nat \ {0}
ASSUME WorkersAssumption == BeatWorkers \subseteq Procs
ASSUME FailuresAssumption == Failures \in BOOLEAN

VARIABLES
    now,        \* the clock
    sched,      \* the scheduled_scans rows, NoRow before create and after delete
    target,     \* the target of each schedule: "present" or "deleted"
    mail,       \* check_due_schedules messages in the broker
    tick,       \* per process, the execution of check_due_schedules
    inserted,   \* scans inserted per schedule and due time, up to Many (history)
    sent,       \* run_agent_task messages sent, likewise (history)
    died,       \* schedules a tick died or failed on (history)
    overtaken   \* schedules a tick advanced although next_run_at was no longer
                \* what it had read (history)

vars == <<now, sched, target, mail, tick, inserted, sent, died, overtaken>>

Times == 0 .. MaxTime

NoRow == [state |-> "none"]

Gone == [state |-> "deleted"]

Row(active, interval, next) ==
    [state |-> "row", active |-> active, interval |-> interval, next |-> next]

Exists(s) == sched[s].state = "row"

\* A count that tells none, one and more apart.
Many == 2
Counts == 0 .. Many
CountUp(n) == IF n = Many THEN Many ELSE n + 1

Latest == MaxTime + CHOOSE i \in Intervals : \A j \in Intervals : j <= i

SchedRows == {NoRow, Gone} \cup
             [state : {"row"}, active : BOOLEAN, interval : Intervals, next : 0 .. Latest]

NoTick == [pc |-> "idle"]

\* at: now when the tick began; copy: the due schedules as it read them;
\* todo: those still ahead; on: the one at hand.
Ticks == {NoTick} \cup
         [pc : {"loop"}, at : Times, copy : [Schedules -> SchedRows], todo : SUBSET Schedules] \cup
         [pc : {"insert", "advance", "send"}, at : Times, copy : [Schedules -> SchedRows],
          todo : SUBSET Schedules, on : Schedules]

TypeOK ==
    /\ now \in Times
    /\ sched \in [Schedules -> SchedRows]
    /\ target \in [Schedules -> {"present", "deleted"}]
    /\ mail \in 0 .. MaxMail
    /\ tick \in [Procs -> Ticks]
    /\ inserted \in [Schedules -> [0 .. Latest -> Counts]]
    /\ sent \in [Schedules -> [0 .. Latest -> Counts]]
    /\ died \subseteq Schedules
    /\ overtaken \subseteq Schedules

Init ==
    /\ now = 0
    /\ sched = [s \in Schedules |-> NoRow]
    /\ target = [s \in Schedules |-> "present"]
    /\ mail = 0
    /\ tick = [p \in Procs |-> NoTick]
    /\ inserted = [s \in Schedules |-> [d \in 0 .. Latest |-> 0]]
    /\ sent = [s \in Schedules |-> [d \in 0 .. Latest |-> 0]]
    /\ died = {}
    /\ overtaken = {}

-----------------------------------------------------------------------------
(* Time and Beat                                                           *)

Pass ==
    /\ now < MaxTime
    /\ now' = now + 1
    /\ UNCHANGED <<sched, target, mail, tick, inserted, sent, died, overtaken>>

\* beat_schedule: send check_due_schedules, whether or not the previous one
\* has been executed.
SendTick ==
    /\ mail < MaxMail
    /\ mail' = mail + 1
    /\ UNCHANGED <<now, sched, target, tick, inserted, sent, died, overtaken>>

-----------------------------------------------------------------------------
(* The schedules API                                                       *)

SetRow(s, r) ==
    /\ sched' = [sched EXCEPT ![s] = r]
    /\ UNCHANGED <<now, target, mail, tick, inserted, sent, died, overtaken>>

\* create_schedule: 403 without the target.
CreateSchedule(s) ==
    /\ sched[s] = NoRow
    /\ target[s] = "present"
    /\ \E i \in Intervals : SetRow(s, Row(TRUE, i, now + i))

\* update_schedule with is_active: next_run_at stays.
SetActive(s) ==
    /\ Exists(s)
    /\ \E active \in BOOLEAN : SetRow(s, [sched[s] EXCEPT !.active = active])

\* Mutant: next_run_at stays.
SetInterval_KeepsNext(s) ==
    /\ Exists(s)
    /\ \E i \in Intervals : SetRow(s, [sched[s] EXCEPT !.interval = i])

\* update_schedule with interval_hours: next_run_at counts from now.
SetInterval(s) ==
    /\ Exists(s)
    /\ \E i \in Intervals :
          SetRow(s, [sched[s] EXCEPT !.interval = i, !.next = now + i])

DeleteSchedule(s) == Exists(s) /\ SetRow(s, Gone)

\* delete_target succeeds only when the target has no schedules and no scans.
DeleteTarget(s) ==
    /\ target[s] = "present"
    /\ ~Exists(s)
    /\ \A d \in 0 .. Latest : inserted[s][d] = 0
    /\ target' = [target EXCEPT ![s] = "deleted"]
    /\ UNCHANGED <<now, sched, mail, tick, inserted, sent, died, overtaken>>

-----------------------------------------------------------------------------
(* check_due_schedules                                                     *)

At(p, pc) == tick[p].pc = pc

Due(s) == Exists(s) /\ sched[s].active /\ sched[s].next <= now

\* The task reads the clock, then the due schedules, and closes its session.
StartTick(p) ==
    /\ At(p, "idle")
    /\ mail > 0
    /\ p \in BeatWorkers
    /\ mail' = mail - 1
    /\ tick' = [tick EXCEPT ![p] = 
          [pc |-> "loop", at |-> now, todo |-> {s \in Schedules : Due(s)},
           copy |-> [s \in Schedules |-> IF Due(s) THEN sched[s] ELSE NoRow]]]
    /\ UNCHANGED <<now, sched, target, inserted, sent, died, overtaken>>

\* A worker that has not registered the task drops the message.
DiscardTick(p) ==
    /\ At(p, "idle")
    /\ mail > 0
    /\ p \notin BeatWorkers
    /\ mail' = mail - 1
    /\ UNCHANGED <<now, sched, target, tick, inserted, sent, died, overtaken>>

Loop(p, todo) == [pc |-> "loop", at |-> tick[p].at, copy |-> tick[p].copy, todo |-> todo]

\* The next of the due schedules, in any order; a missing target skips it.
NextDue(p) ==
    /\ At(p, "loop")
    /\ \E s \in tick[p].todo :
          LET rest == tick[p].todo \ {s}
          IN  tick' = [tick EXCEPT ![p] =
                         IF target[s] = "deleted"
                         THEN Loop(p, rest)
                         ELSE [pc |-> "insert", at |-> tick[p].at, copy |-> tick[p].copy,
                               todo |-> rest, on |-> s]]
    /\ UNCHANGED <<now, sched, target, mail, inserted, sent, died, overtaken>>

EndTick(p) ==
    /\ At(p, "loop")
    /\ tick[p].todo = {}
    /\ tick' = [tick EXCEPT ![p] = NoTick]
    /\ UNCHANGED <<now, sched, target, mail, inserted, sent, died, overtaken>>

\* The due time the tick read for the schedule at hand.
DueTime(p) == tick[p].copy[tick[p].on].next

\* First commit: the pending scan.  Without its target the insert fails, and
\* nothing catches the error: the tick ends with schedules still to do.
InsertScan(p) ==
    LET s == tick[p].on IN
    /\ At(p, "insert")
    /\ IF target[s] = "deleted"
       THEN /\ tick' = [tick EXCEPT ![p] = NoTick]
            /\ UNCHANGED inserted
       ELSE /\ tick' = [tick EXCEPT ![p].pc = "advance"]
            /\ inserted' = [inserted EXCEPT ![s][DueTime(p)] = CountUp(@)]
    /\ UNCHANGED <<now, sched, target, mail, sent, died, overtaken>>

\* What advancing the schedule at hand to `next` leaves behind.
Advanced(p, next) ==
    LET s == tick[p].on IN
    /\ sched' = [sched EXCEPT ![s].next = next]
    /\ tick' = [tick EXCEPT ![p].pc = "send"]
    /\ overtaken' = overtaken \cup IF sched[s].next = DueTime(p) THEN {} ELSE {s}
    /\ UNCHANGED <<now, target, mail, inserted, sent, died>>

\* scalar_one raises: the schedule is gone, and the tick ends.
AdvanceRaises(p) ==
    /\ tick' = [tick EXCEPT ![p] = NoTick]
    /\ UNCHANGED <<now, sched, target, mail, inserted, sent, died, overtaken>>

\* Mutant: the row is read again but not written.
Advance_Forgets(p) ==
    LET s == tick[p].on IN
    /\ At(p, "advance")
    /\ \/ Exists(s) /\ Advanced(p, sched[s].next)
       \/ ~Exists(s) /\ AdvanceRaises(p)

\* Mutant: the interval is added to what the row says.
Advance_FromRow(p) ==
    LET s == tick[p].on IN
    /\ At(p, "advance")
    /\ \/ Exists(s) /\ Advanced(p, sched[s].next + sched[s].interval)
       \/ ~Exists(s) /\ AdvanceRaises(p)

\* Mutant: a schedule paused meanwhile is skipped after its scan's insert.
Advance_SkipsPaused(p) ==
    LET s == tick[p].on IN
    /\ At(p, "advance")
    /\ IF Exists(s) /\ sched[s].active
       THEN Advanced(p, tick[p].at + tick[p].copy[s].interval)
       ELSE /\ tick' = [tick EXCEPT ![p] = Loop(p, tick[p].todo)]
            /\ UNCHANGED <<now, sched, target, mail, inserted, sent, died, overtaken>>

\* Second commit: next_run_at from the tick's clock and the interval it read
\* at its start, over whatever the row says by now.
Advance(p) ==
    LET s == tick[p].on IN
    /\ At(p, "advance")
    /\ \/ Exists(s) /\ Advanced(p, tick[p].at + tick[p].copy[s].interval)
       \/ ~Exists(s) /\ AdvanceRaises(p)

\* send_task("workers.agent_worker.run_agent_task").
SendScan(p) ==
    /\ At(p, "send")
    /\ sent' = [sent EXCEPT ![tick[p].on][DueTime(p)] = CountUp(@)]
    /\ tick' = [tick EXCEPT ![p] = Loop(p, tick[p].todo)]
    /\ UNCHANGED <<now, sched, target, mail, inserted, died, overtaken>>

\* The process is killed, or the database or the broker refuses, with work
\* left: without any, this is EndTick.
TickDies(p) ==
    /\ Failures
    /\ ~At(p, "idle") /\ (At(p, "loop") => tick[p].todo /= {})
    /\ died' = died \cup IF At(p, "loop") THEN {} ELSE {tick[p].on}
    /\ tick' = [tick EXCEPT ![p] = NoTick]
    /\ UNCHANGED <<now, sched, target, mail, inserted, sent, overtaken>>

-----------------------------------------------------------------------------
Api(s) == \/ CreateSchedule(s) \/ SetActive(s) \/ SetInterval(s)
          \/ DeleteSchedule(s) \/ DeleteTarget(s)

Check(p) == NextDue(p) \/ InsertScan(p) \/ Advance(p) \/ SendScan(p) \/ EndTick(p)

Next ==
    \/ Pass \/ SendTick
    \/ \E s \in Schedules : Api(s)
    \/ \E p \in Procs : StartTick(p) \/ DiscardTick(p) \/ Check(p) \/ TickDies(p)

Spec == Init /\ [][Next]_vars

(***************************************************************************)
(* Beat goes on sending, an idle process takes messages, and a tick that   *)
(* began goes on.  Nothing obliges a client to call the API.               *)
(***************************************************************************)
FairSpec ==
    /\ Spec
    /\ WF_vars(SendTick)
    /\ WF_vars(\E p \in Procs : StartTick(p))
    /\ \A p \in Procs : WF_vars(Check(p))

-----------------------------------------------------------------------------
(* Properties                                                              *)

\* A due time for which a scan was inserted does not stay the schedule's: with
\* any number of ticks at work it does so only until the tick that inserted the
\* scan comes to advance it.  For a due time to run twice, two ticks must
\* overlap there, or one must have died before it advanced the schedule, or one
\* that had been overtaken, by another tick or by the API, set it back.
ServedIsAdvanced ==
    \A s \in Schedules :
        /\ Exists(s) /\ inserted[s][sched[s].next] > 0
        /\ s \notin died \cup overtaken
        => \E p \in Procs : /\ At(p, "advance") /\ tick[p].on = s
                            /\ DueTime(p) = sched[s].next

\* A scan that a tick inserted and did not send, which stays pending for
\* ever, is explained by a tick still at it, a tick that died on it or a
\* schedule deleted meanwhile.
UnsentIsExplained ==
    \A s \in Schedules : \A d \in 0 .. Latest :
        /\ inserted[s][d] = 1 /\ sent[s][d] = 0
        /\ s \notin died /\ sched[s] /= Gone
        => \E p \in Procs : /\ tick[p].pc \in {"advance", "send"}
                            /\ tick[p].on = s /\ DueTime(p) = d

\* "recurring scans at configurable intervals" (README.md:18): the next run is
\* never further away than the interval says, also after the interval was
\* shortened with a run due, and while ticks are late.  The exception is real:
\* a tick that began before such a change and advances after it writes a time
\* counted with the old interval over the new one.
NextRunIsNear ==
    \A s \in Schedules \ overtaken :
        Exists(s) => sched[s].next <= now + sched[s].interval

\* A due schedule does not stay due, however ticks overlap, die or give up on a
\* schedule that was deleted: unless they die, or are dropped by a worker
\* without their task, again and again.
DueSchedulesAreServed ==
    \/ \A s \in Schedules : Due(s) ~> ~Due(s)
    \/ []<><<\E p \in Procs : TickDies(p)>>_vars
    \/ []<><<\E p \in Procs : DiscardTick(p)>>_vars
=============================================================================
