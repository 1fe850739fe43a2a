------------------------- MODULE ScheduleTickProofs -------------------------
(***************************************************************************)
(* For any schedules, intervals and worker processes, whatever the API     *)
(* does meanwhile and wherever ticks die: a scan inserted and not sent has *)
(* a reason, the next run of a schedule is never further away than its     *)
(* interval says, and a due time that was served does not stay the         *)
(* schedule's; the last two unless a tick that had been overtaken set      *)
(* next_run_at.                                                            *)
(***************************************************************************)
EXTENDS ScheduleTick, TLAPS

-----------------------------------------------------------------------------
(* Types, and what a tick carries                                          *)

\* The schedules a tick has read and not yet done with.
Held(p) == IF At(p, "idle") THEN {}
           ELSE tick[p].todo \cup IF At(p, "loop") THEN {} ELSE {tick[p].on}

\* Those of them it has still to insert a scan for or to advance.
Ahead(p) == IF At(p, "idle") THEN {}
            ELSE tick[p].todo \cup IF tick[p].pc \in {"insert", "advance"} THEN {tick[p].on} ELSE {}

\* They were there and due when the tick began, and were never uncreated.
CopyDue ==
    \A p \in Procs :
        /\ ~At(p, "idle") => tick[p].at <= now
        /\ \A s \in Held(p) : /\ tick[p].copy[s].state = "row"
                              /\ tick[p].copy[s].next <= tick[p].at
                              /\ sched[s] /= NoRow

TickInv == TypeOK /\ CopyDue

\* The longest interval.
LEMMA LatestCovers ==
    /\ Latest \in Nat
    /\ \A t \in Times, i \in Intervals : t + i \in 0 .. Latest
<1> DEFINE Longest(i) == \A j \in Intervals : j <= i
           longest == CHOOSE i \in Intervals : Longest(i)
<1>1. longest \in Intervals /\ Longest(longest)
  BY IntervalsAssumption
<1>2. Latest = MaxTime + longest
  BY DEF Latest
<1> HIDE DEF longest
<1> QED BY <1>1, <1>2, IntervalsAssumption, BoundsAssumption DEF Times

LEMMA RowTyped ==
    ASSUME NEW active \in BOOLEAN, NEW i \in Intervals, NEW next \in 0 .. Latest
    PROVE  Row(active, i, next) \in SchedRows
BY DEF Row, SchedRows

LEMMA RowParts ==
    ASSUME NEW row \in SchedRows, row.state = "row"
    PROVE  /\ row.active \in BOOLEAN /\ row.interval \in Intervals /\ row.next \in 0 .. Latest
           /\ row = Row(row.active, row.interval, row.next)
BY DEF SchedRows, NoRow, Gone, Row

\* What a tick that is not idle consists of.
LEMMA TickParts ==
    ASSUME TypeOK, NEW p \in Procs
    PROVE  /\ tick[p].pc \in {"idle", "loop", "insert", "advance", "send"}
           /\ At(p, "idle") => tick[p] = NoTick
           /\ ~At(p, "idle") => /\ tick[p].at \in Times /\ tick[p].at \in Nat
                                /\ tick[p].copy \in [Schedules -> SchedRows]
                                /\ tick[p].todo \subseteq Schedules
           /\ At(p, "loop") =>
                 tick[p] = [pc |-> "loop", at |-> tick[p].at, copy |-> tick[p].copy,
                            todo |-> tick[p].todo]
           /\ ~At(p, "idle") /\ ~At(p, "loop") =>
                 /\ tick[p].on \in Schedules
                 /\ tick[p] = [pc |-> tick[p].pc, at |-> tick[p].at, copy |-> tick[p].copy,
                               todo |-> tick[p].todo, on |-> tick[p].on]
<1>1. tick[p] \in Ticks
  BY DEF TypeOK
<1> QED BY <1>1, BoundsAssumption DEF Ticks, NoTick, At, Times

\* A step that only moves on leaves the rest of what a tick carries.
LEMMA PcMoves ==
    ASSUME NEW t, NEW pc,
           t = [pc |-> t.pc, at |-> t.at, copy |-> t.copy, todo |-> t.todo, on |-> t.on]
    PROVE  LET u == [t EXCEPT !.pc = pc]
           IN  /\ u.pc = pc /\ u.at = t.at /\ u.copy = t.copy
               /\ u.todo = t.todo /\ u.on = t.on
<1>1. DOMAIN t = {"pc", "at", "copy", "todo", "on"}
  OBVIOUS
<1> QED BY <1>1

\* The schedule at hand.
LEMMA AtHand ==
    ASSUME TickInv, NEW p \in Procs, ~At(p, "idle"), ~At(p, "loop")
    PROVE  /\ tick[p].on \in Schedules /\ sched[tick[p].on] /= NoRow
           /\ DueTime(p) \in 0 .. Latest /\ DueTime(p) <= tick[p].at /\ tick[p].at <= now
           /\ tick[p].copy[tick[p].on].interval \in Intervals
<1>1. tick[p].on \in Held(p) /\ tick[p].on \in Schedules
  BY TickParts DEF Held, TickInv
<1>2. tick[p].copy[tick[p].on].state = "row" /\ tick[p].copy[tick[p].on] \in SchedRows
  BY <1>1, TickParts DEF TickInv, CopyDue
<1> QED BY <1>1, <1>2, RowParts DEF TickInv, CopyDue, DueTime

-----------------------------------------------------------------------------
(* Every step keeps the types                                              *)

LEMMA TypeInit == Init => TypeOK
<1>1. 0 \in Counts /\ 0 \in Times
  BY BoundsAssumption DEF Counts, Many, Times
<1> QED BY <1>1, BoundsAssumption DEF Init, TypeOK, SchedRows, Ticks

LEMMA ApiTyped ==
    ASSUME TypeOK, NEW s \in Schedules, Api(s)
    PROVE  TypeOK'
<1>1. now \in Times /\ \A i \in Intervals : now + i \in 0 .. Latest
  BY LatestCovers DEF TypeOK
<1>2. ASSUME NEW r \in SchedRows, SetRow(s, r) PROVE TypeOK'
  BY <1>2 DEF SetRow, TypeOK
<1>3. CASE CreateSchedule(s)
  BY <1>1, <1>2, <1>3, RowTyped DEF CreateSchedule
<1>4. CASE SetActive(s)
  <2>1. PICK active \in BOOLEAN : SetRow(s, [sched[s] EXCEPT !.active = active])
    BY <1>4 DEF SetActive
  <2>2. sched[s] \in SchedRows /\ sched[s].state = "row"
    BY <1>4 DEF SetActive, Exists, TypeOK
  <2>3. [sched[s] EXCEPT !.active = active] = Row(active, sched[s].interval, sched[s].next)
    BY <2>2, RowParts DEF Row
  <2> QED BY <1>2, <2>1, <2>2, <2>3, RowParts, RowTyped
<1>5. CASE SetInterval(s)
  <2>1. PICK i \in Intervals : SetRow(s, [sched[s] EXCEPT !.interval = i, !.next = now + i])
    BY <1>5 DEF SetInterval
  <2>2. sched[s] \in SchedRows /\ sched[s].state = "row"
    BY <1>5 DEF SetInterval, Exists, TypeOK
  <2>3. [sched[s] EXCEPT !.interval = i, !.next = now + i] \in SchedRows
    <3> DEFINE next == now + i
               Full == [state : {"row"}, active : BOOLEAN, interval : Intervals,
                        next : 0 .. Latest]
    <3>1. sched[s] \in Full /\ next \in 0 .. Latest
      BY <1>1, <2>2 DEF SchedRows, NoRow, Gone
    <3> HIDE DEF next
    <3>2. [sched[s] EXCEPT !.interval = i, !.next = next] \in Full
      BY <3>1
    <3> QED BY <3>2 DEF SchedRows, next
  <2> QED BY <1>2, <2>1, <2>3
<1>6. CASE DeleteSchedule(s)
  BY <1>2, <1>6 DEF DeleteSchedule, SchedRows
<1>7. CASE DeleteTarget(s)
  BY <1>7 DEF DeleteTarget, TypeOK
<1> QED BY <1>3, <1>4, <1>5, <1>6, <1>7 DEF Api

\* A step of a process that puts a tick in its place.
LEMMA TickTyped ==
    ASSUME TypeOK, NEW p \in Procs, NEW t \in Ticks, tick' = [tick EXCEPT ![p] = t],
           NEW n \in 0 .. MaxMail, mail' = n,
           UNCHANGED <<now, sched, target, inserted, sent, overtaken>>, died' \subseteq Schedules
    PROVE  TypeOK'
BY DEF TypeOK

LEMMA CountUpTyped == \A n \in Counts : CountUp(n) \in Counts
BY DEF Counts, CountUp, Many

LEMMA TickStepTyped ==
    ASSUME TickInv, NEW p \in Procs, StartTick(p) \/ DiscardTick(p) \/ Check(p) \/ TickDies(p)
    PROVE  TypeOK'
<1> USE DEF TickInv
<1>1. CASE StartTick(p)
  <2> DEFINE t == [pc |-> "loop", at |-> now, todo |-> {s \in Schedules : Due(s)},
                   copy |-> [s \in Schedules |-> IF Due(s) THEN sched[s] ELSE NoRow]]
  <2>1. t \in Ticks
    BY DEF Ticks, TypeOK, SchedRows
  <2>2. tick' = [tick EXCEPT ![p] = t] /\ mail' \in 0 .. MaxMail
    BY <1>1, BoundsAssumption DEF StartTick, TypeOK
  <2> HIDE DEF t
  <2> QED BY <1>1, <2>1, <2>2, TickTyped DEF StartTick, TypeOK
<1>2. CASE DiscardTick(p)
  BY <1>2, BoundsAssumption DEF DiscardTick, TypeOK
<1>3. CASE NextDue(p)
  <2>1. PICK s \in tick[p].todo :
           tick' = [tick EXCEPT ![p] =
                      IF target[s] = "deleted"
                      THEN Loop(p, tick[p].todo \ {s})
                      ELSE [pc |-> "insert", at |-> tick[p].at, copy |-> tick[p].copy,
                            todo |-> tick[p].todo \ {s}, on |-> s]]
    BY <1>3 DEF NextDue
  <2>2. /\ tick[p].at \in Times /\ tick[p].copy \in [Schedules -> SchedRows]
        /\ tick[p].todo \subseteq Schedules
    BY <1>3, TickParts DEF NextDue, At
  <2>3. Loop(p, tick[p].todo \ {s}) \in Ticks
    BY <2>2 DEF Loop, Ticks
  <2>4. [pc |-> "insert", at |-> tick[p].at, copy |-> tick[p].copy,
         todo |-> tick[p].todo \ {s}, on |-> s] \in Ticks
    BY <2>1, <2>2 DEF Ticks
  <2> QED BY <1>3, <2>1, <2>3, <2>4, TickTyped DEF NextDue, TypeOK
<1>4. CASE EndTick(p)
  <2>1. NoTick \in Ticks
    BY DEF Ticks
  <2> QED BY <1>4, <2>1, TickTyped DEF EndTick, TypeOK
<1>5. CASE InsertScan(p) \/ Advance(p) \/ SendScan(p)
  <2> DEFINE s == tick[p].on
             At2(pc) == [tick[p] EXCEPT !.pc = pc]
  <2>1. /\ s \in Schedules /\ DueTime(p) \in 0 .. Latest
        /\ tick[p].copy[s].interval \in Intervals
        /\ tick[p].at \in Times /\ tick[p].copy \in [Schedules -> SchedRows]
        /\ tick[p].todo \subseteq Schedules
        /\ tick[p] = [pc |-> tick[p].pc, at |-> tick[p].at, copy |-> tick[p].copy,
                      todo |-> tick[p].todo, on |-> tick[p].on]
    BY <1>5, AtHand, TickParts DEF InsertScan, Advance, Advanced, AdvanceRaises, SendScan, At
  <2>2. At2("advance") \in Ticks /\ At2("send") \in Ticks
    BY <2>1 DEF Ticks
  <2>3. NoTick \in Ticks /\ Loop(p, tick[p].todo) \in Ticks
    BY <2>1 DEF Ticks, Loop
  <2>4. CASE InsertScan(p)
    <3>1. tick' \in [Procs -> Ticks]
      BY <2>2, <2>3, <2>4 DEF InsertScan, TypeOK
    <3>2. inserted' \in [Schedules -> [0 .. Latest -> Counts]]
      <4>1. CASE target[s] = "deleted"
        BY <2>4, <4>1 DEF InsertScan, TypeOK
      <4>2. CASE target[s] /= "deleted"
        <5>1. inserted' = [inserted EXCEPT ![s][DueTime(p)] = CountUp(inserted[s][DueTime(p)])]
          BY <2>4, <4>2 DEF InsertScan
        <5> QED BY <5>1, <2>1, CountUpTyped DEF TypeOK
      <4> QED BY <4>1, <4>2
    <3> QED BY <2>4, <3>1, <3>2 DEF InsertScan, TypeOK
  <2>5. CASE Advance(p)
    <3>1. tick' \in [Procs -> Ticks]
      BY <2>2, <2>3, <2>5 DEF Advance, Advanced, AdvanceRaises, TypeOK
    <3>2. ASSUME Exists(s) 
          PROVE  [sched[s] EXCEPT !.next = tick[p].at + tick[p].copy[s].interval] \in SchedRows
      <4>1. tick[p].at + tick[p].copy[s].interval \in 0 .. Latest
        BY <2>1, LatestCovers
      <4>2. sched[s] \in SchedRows /\ sched[s].state = "row"
        BY <2>1, <3>2 DEF Exists, TypeOK
      <4>3. [sched[s] EXCEPT !.next = tick[p].at + tick[p].copy[s].interval]
              = Row(sched[s].active, sched[s].interval, tick[p].at + tick[p].copy[s].interval)
        BY <4>2, RowParts DEF Row
      <4> QED BY <4>1, <4>2, <4>3, RowParts, RowTyped
    <3>3. sched' \in [Schedules -> SchedRows]
      BY <2>5, <3>2 DEF Advance, Advanced, AdvanceRaises, TypeOK
    <3>4. CASE Exists(s)
      <4>1. Advanced(p, tick[p].at + tick[p].copy[s].interval)
        BY <2>5, <3>4 DEF Advance
      <4>2. overtaken' \subseteq Schedules
        BY <2>1, <4>1 DEF Advanced, TypeOK
      <4> QED BY <3>1, <3>3, <4>1, <4>2 DEF Advanced, TypeOK
    <3>5. CASE ~Exists(s)
      BY <2>5, <3>1, <3>5 DEF Advance, AdvanceRaises, TypeOK
    <3> QED BY <3>4, <3>5
  <2>6. CASE SendScan(p)
    <3>1. sent' \in [Schedules -> [0 .. Latest -> Counts]]
      BY <2>1, <2>6, CountUpTyped DEF SendScan, TypeOK
    <3> QED BY <2>3, <2>6, <3>1 DEF SendScan, TypeOK
  <2> QED BY <1>5, <2>4, <2>5, <2>6
<1>6. CASE TickDies(p)
  <2>1. NoTick \in Ticks
    BY DEF Ticks
  <2>2. died' \subseteq Schedules
    BY <1>6, TickParts DEF TickDies, TypeOK, At
  <2> QED BY <1>6, <2>1, <2>2, TickTyped DEF TickDies, TypeOK
<1> QED BY <1>1, <1>2, <1>3, <1>4, <1>5, <1>6 DEF Check

-----------------------------------------------------------------------------
(* What a tick carries stays true                                          *)

\* Rows are never uncreated.
LEMMA RowsStay ==
    ASSUME TickInv, [Next]_vars, NEW s \in Schedules, sched[s] /= NoRow
    PROVE  sched'[s] /= NoRow
<1> USE DEF TickInv
<1>1. ASSUME NEW z \in Schedules, Api(z) PROVE sched'[s] /= NoRow
  <2>1. \A r : SetRow(z, r) /\ r /= NoRow => sched'[s] /= NoRow
    BY DEF SetRow, TypeOK
  <2>2. CASE CreateSchedule(z)
    <3>1. \A i : Row(TRUE, i, now + i) /= NoRow
      BY DEF Row, NoRow
    <3> QED BY <2>1, <2>2, <3>1 DEF CreateSchedule
  <2>3. CASE SetActive(z) \/ SetInterval(z)
    <3>1. sched[z] \in SchedRows /\ sched[z].state = "row"
      BY <2>3 DEF SetActive, SetInterval, Exists, TypeOK
    <3>2. PICK active, i, next : sched[z] = Row(active, i, next)
      BY <3>1, RowParts
    <3>3. /\ \A b : [sched[z] EXCEPT !.active = b].state = "row"
          /\ \A j, d : [sched[z] EXCEPT !.interval = j, !.next = d].state = "row"
      BY <3>2 DEF Row
    <3>4. \A r : r.state = "row" => r /= NoRow
      BY DEF NoRow
    <3>5. CASE SetActive(z)
      <4>1. PICK b \in BOOLEAN : SetRow(z, [sched[z] EXCEPT !.active = b])
        BY <3>5 DEF SetActive
      <4> QED BY <4>1, <2>1, <3>3, <3>4
    <3>6. CASE SetInterval(z)
      <4>1. PICK i2 \in Intervals :
               SetRow(z, [sched[z] EXCEPT !.interval = i2, !.next = now + i2])
        BY <3>6 DEF SetInterval
      <4> DEFINE r == [sched[z] EXCEPT !.interval = i2, !.next = now + i2]
      <4>2. r.state = "row"
        BY <3>3
      <4> HIDE DEF r
      <4> QED BY <4>1, <4>2, <2>1, <3>4 DEF r
    <3> QED BY <2>3, <3>5, <3>6
  <2>4. CASE DeleteSchedule(z)
    BY <2>1, <2>4 DEF DeleteSchedule, Gone, NoRow
  <2>5. CASE DeleteTarget(z)
    BY <2>5 DEF DeleteTarget
  <2> QED BY <1>1, <2>2, <2>3, <2>4, <2>5 DEF Api
<1>2. ASSUME NEW p \in Procs, Advance(p) PROVE sched'[s] /= NoRow
  <2>1. tick[p].on \in Schedules
    BY <1>2, AtHand DEF Advance, Advanced, AdvanceRaises, At
  <2>2. CASE Exists(tick[p].on)
    <3> DEFINE z == tick[p].on
               d == tick[p].at + tick[p].copy[z].interval
    <3>1. sched' = [sched EXCEPT ![z].next = d]
      BY <1>2, <2>2 DEF Advance, Advanced, AdvanceRaises
    <3>2. sched[z] \in SchedRows /\ sched[z].state = "row"
      BY <2>1, <2>2 DEF Exists, TypeOK
    <3>3. PICK active, i, next : sched[z] = Row(active, i, next)
      BY <3>2, RowParts
    <3> HIDE DEF d
    <3>4. [sched[z] EXCEPT !.next = d].state = "row"
      BY <3>3 DEF Row
    <3>5. [sched[z] EXCEPT !.next = d] /= NoRow
      BY <3>4 DEF NoRow
    <3> QED BY <3>1, <3>5, <2>1 DEF TypeOK
  <2>3. CASE ~Exists(tick[p].on)
    BY <1>2, <2>3 DEF Advance, Advanced, AdvanceRaises
  <2> QED BY <2>2, <2>3
<1>3. CASE UNCHANGED sched
  BY <1>3
<1> QED BY <1>1, <1>2, <1>3 DEF Next, Check, Pass, SendTick, StartTick, DiscardTick, NextDue,
           EndTick, InsertScan, SendScan, TickDies, vars

\* The clock does not go back.
LEMMA ClockGoesOn == TypeOK /\ [Next]_vars => now <= now' /\ now' \in Nat
<1> SUFFICES ASSUME TypeOK, [Next]_vars PROVE now <= now' /\ now' \in Nat
  OBVIOUS
<1>1. now \in Nat
  BY BoundsAssumption DEF TypeOK, Times
<1>2. CASE Pass
  BY <1>1, <1>2 DEF Pass
<1>3. CASE UNCHANGED now
  BY <1>1, <1>3
<1> QED BY <1>2, <1>3 DEF Next, Api, CreateSchedule, SetActive, SetInterval, DeleteSchedule, SetRow,
           DeleteTarget, Check, SendTick, StartTick, DiscardTick, NextDue, EndTick, InsertScan,
           Advance, Advanced, AdvanceRaises, SendScan, TickDies, vars

\* What the step of a process makes of its tick: it begins one, ends it, or goes
\* on with what it carries.
LEMMA TickGoesOn ==
    ASSUME TickInv, NEW p \in Procs, StartTick(p) \/ DiscardTick(p) \/ Check(p) \/ TickDies(p)
    PROVE  /\ \A q \in Procs \ {p} : tick'[q] = tick[q]
           /\ \/ tick'[p] = tick[p]
              \/ tick'[p] = NoTick
              \/ StartTick(p)
              \/ /\ tick'[p].pc /= "idle" /\ ~At(p, "idle")
                 /\ tick'[p].at = tick[p].at /\ tick'[p].copy = tick[p].copy
                 /\ Held(p)' \subseteq Held(p) /\ Ahead(p)' \subseteq Ahead(p)
<1> USE DEF TickInv
<1>1. /\ \A q \in Procs \ {p} : tick'[q] = tick[q]
      /\ \A t : tick' = [tick EXCEPT ![p] = t] => tick'[p] = t
  BY DEF StartTick, DiscardTick, Check, NextDue, EndTick, InsertScan, Advance, Advanced,
         AdvanceRaises, SendScan, TickDies,
         TypeOK
<1>2. CASE DiscardTick(p)
  BY <1>2 DEF DiscardTick
<1>3. CASE EndTick(p) \/ TickDies(p)
  BY <1>1, <1>3 DEF EndTick, TickDies
<1>4. CASE NextDue(p)
  <2>1. PICK s \in tick[p].todo :
           tick' = [tick EXCEPT ![p] =
                      IF target[s] = "deleted"
                      THEN Loop(p, tick[p].todo \ {s})
                      ELSE [pc |-> "insert", at |-> tick[p].at, copy |-> tick[p].copy,
                            todo |-> tick[p].todo \ {s}, on |-> s]]
    BY <1>4 DEF NextDue
  <2>2. \/ tick'[p] = Loop(p, tick[p].todo \ {s})
        \/ tick'[p] = [pc |-> "insert", at |-> tick[p].at, copy |-> tick[p].copy,
                       todo |-> tick[p].todo \ {s}, on |-> s]
    BY <2>1, <1>1
  <2>3. At(p, "loop") /\ ~At(p, "idle") /\ Ahead(p) = tick[p].todo /\ Held(p) = tick[p].todo
    BY <1>4 DEF NextDue, Ahead, Held, At
  <2>4. /\ tick'[p].pc /= "idle" /\ tick'[p].at = tick[p].at /\ tick'[p].copy = tick[p].copy
        /\ Held(p)' \subseteq tick[p].todo /\ Ahead(p)' \subseteq tick[p].todo
    BY <2>1, <2>2 DEF Loop, Held, Ahead, At
  <2> QED BY <1>1, <2>3, <2>4
<1>5. CASE SendScan(p)
  <2>1. tick'[p] = Loop(p, tick[p].todo)
    BY <1>1, <1>5 DEF SendScan
  <2> QED BY <1>1, <1>5, <2>1 DEF SendScan, Loop, Held, Ahead, At
<1>6. CASE InsertScan(p) \/ Advance(p)
  <2>1. \/ tick' = [tick EXCEPT ![p] = NoTick]
        \/ \E pc \in {"advance", "send"} : tick' = [tick EXCEPT ![p].pc = pc]
    BY <1>6 DEF InsertScan, Advance, Advanced, AdvanceRaises
  <2>2. ASSUME NEW pc \in {"advance", "send"}, tick' = [tick EXCEPT ![p].pc = pc]
        PROVE  /\ tick'[p].pc /= "idle" /\ tick'[p].at = tick[p].at
               /\ tick'[p].copy = tick[p].copy /\ Held(p)' \subseteq Held(p)
               /\ Ahead(p)' \subseteq Ahead(p)
    <3>1. ~At(p, "idle") /\ ~At(p, "loop")
      BY <1>6 DEF InsertScan, Advance, Advanced, AdvanceRaises, At
    <3>2. tick'[p] = [tick[p] EXCEPT !.pc = pc]
      BY <2>2 DEF TypeOK
    <3>3. /\ tick'[p].pc = pc /\ tick'[p].at = tick[p].at /\ tick'[p].copy = tick[p].copy
          /\ tick'[p].todo = tick[p].todo /\ tick'[p].on = tick[p].on
      <4>1. tick[p] = [pc |-> tick[p].pc, at |-> tick[p].at, copy |-> tick[p].copy,
                       todo |-> tick[p].todo, on |-> tick[p].on]
        BY <3>1, TickParts
      <4> QED BY <3>2, <4>1, PcMoves
    <3>4. At(p, "insert") \/ pc = "send"
      <4>1. At(p, "insert") \/ At(p, "advance")
        BY <1>6 DEF InsertScan, Advance
      <4>2. CASE At(p, "advance")
        <5>1. tick'[p] = NoTick \/ tick'[p].pc = "send"
          <6>1. \/ tick' = [tick EXCEPT ![p] = NoTick]
                \/ tick' = [tick EXCEPT ![p].pc = "send"]
            BY <1>6, <4>2 DEF InsertScan, Advance, Advanced, AdvanceRaises, At
          <6>2. CASE tick' = [tick EXCEPT ![p].pc = "send"]
            <7>1. tick[p] = [pc |-> tick[p].pc, at |-> tick[p].at, copy |-> tick[p].copy,
                             todo |-> tick[p].todo, on |-> tick[p].on]
              BY <3>1, TickParts
            <7>2. tick'[p] = [tick[p] EXCEPT !.pc = "send"]
              BY <6>2 DEF TypeOK
            <7> QED BY <7>1, <7>2, PcMoves
          <6> QED BY <1>1, <6>1, <6>2
        <5> QED BY <3>3, <5>1 DEF NoTick
      <4> QED BY <4>1, <4>2
    <3>5. Ahead(p)' \subseteq Ahead(p)
      BY <3>1, <3>3, <3>4 DEF Ahead, At
    <3> QED BY <3>1, <3>3, <3>5 DEF Held, At
  <2> QED BY <1>1, <1>6, <2>1, <2>2 DEF InsertScan, Advance, Advanced, AdvanceRaises, At
<1> QED BY <1>1, <1>2, <1>3, <1>4, <1>5, <1>6 DEF Check

\* A tick at rest, or untouched, is still in order.
LEMMA TickUndisturbed ==
    ASSUME TickInv, [Next]_vars, NEW q \in Procs,
           \/ tick'[q] = tick[q]
           \/ tick'[q] = NoTick
           \/ /\ tick'[q].pc /= "idle" /\ ~At(q, "idle")
              /\ tick'[q].at = tick[q].at /\ tick'[q].copy = tick[q].copy
              /\ Held(q)' \subseteq Held(q)
    PROVE  /\ tick'[q].pc /= "idle" => tick'[q].at <= now'
           /\ \A s \in Held(q)' : /\ tick'[q].copy[s].state = "row"
                                  /\ tick'[q].copy[s].next <= tick'[q].at
                                  /\ sched'[s] /= NoRow
<1> USE DEF TickInv
<1>2. now <= now' /\ now \in Nat /\ now' \in Nat
  BY ClockGoesOn, BoundsAssumption DEF TypeOK, Times
<1>3. CASE tick'[q] = NoTick
  BY <1>3 DEF NoTick, Held, At
<1>4. CASE tick'[q] /= NoTick
  <2>1. /\ tick'[q].pc /= "idle" => ~At(q, "idle") /\ tick'[q].at = tick[q].at
                                    /\ tick'[q].copy = tick[q].copy
        /\ Held(q)' \subseteq Held(q)
    BY <1>4 DEF Held, At
  <2>2. \A s \in Held(q)' : tick'[q].pc /= "idle"
    BY DEF Held, At
  <2>3. \A s \in Held(q) : s \in Schedules
    BY TickParts DEF Held
  <2>4. ~At(q, "idle") => tick[q].at <= now /\ tick[q].at \in Nat
    <3>1. ~At(q, "idle") => tick[q].at <= now
      BY DEF CopyDue
    <3>2. ~At(q, "idle") => tick[q].at \in Nat
      <4>1. TypeOK
        OBVIOUS
      <4> QED BY <4>1, TickParts
    <3> QED BY <3>1, <3>2
  <2>5. tick'[q].pc /= "idle" => tick'[q].at <= now'
    BY <1>2, <2>1, <2>4
  <2> QED BY <2>1, <2>2, <2>3, <2>5, RowsStay DEF CopyDue
<1> QED BY <1>3, <1>4

LEMMA CopyStep == TickInv /\ [Next]_vars => CopyDue'
<1> SUFFICES ASSUME TickInv, [Next]_vars, NEW q \in Procs
             PROVE  /\ tick'[q].pc /= "idle" => tick'[q].at <= now'
                    /\ \A s \in Held(q)' : /\ tick'[q].copy[s].state = "row"
                                           /\ tick'[q].copy[s].next <= tick'[q].at
                                           /\ sched'[s] /= NoRow
  BY DEF CopyDue, At
<1>1. CASE UNCHANGED tick
  BY <1>1, TickUndisturbed
<1>2. ASSUME NEW p \in Procs, StartTick(p) \/ DiscardTick(p) \/ Check(p) \/ TickDies(p)
      PROVE  /\ tick'[q].pc /= "idle" => tick'[q].at <= now'
             /\ \A s \in Held(q)' : /\ tick'[q].copy[s].state = "row"
                                    /\ tick'[q].copy[s].next <= tick'[q].at
                                    /\ sched'[s] /= NoRow
  <2>1. CASE q = p /\ StartTick(p)
    <3>1. tick'[q] = [pc |-> "loop", at |-> now, todo |-> {s \in Schedules : Due(s)},
                      copy |-> [s \in Schedules |-> IF Due(s) THEN sched[s] ELSE NoRow]]
      BY <2>1 DEF StartTick, TickInv, TypeOK
    <3>2. now' = now /\ sched' = sched /\ now \in Int
      BY <2>1, BoundsAssumption DEF StartTick, TickInv, TypeOK, Times
    <3>3. Held(q)' = {s \in Schedules : Due(s)}
      BY <3>1 DEF Held, At
    <3>4. \A s \in Schedules : Due(s) => /\ sched[s].state = "row" /\ sched[s].next <= now
                                         /\ sched[s] /= NoRow
      BY DEF Due, Exists, NoRow
    <3> QED BY <3>1, <3>2, <3>3, <3>4
  <2>2. CASE ~(q = p /\ StartTick(p))
    BY <1>2, <2>2, TickGoesOn, TickUndisturbed
  <2> QED BY <2>1, <2>2
<1> QED BY <1>1, <1>2 DEF Next, Pass, SendTick, Api, CreateSchedule, SetActive, SetInterval,
           DeleteSchedule, SetRow, DeleteTarget, vars

LEMMA TickInvStep == TickInv /\ [Next]_vars => TickInv'
<1> SUFFICES ASSUME TickInv, [Next]_vars PROVE TypeOK'
  BY CopyStep DEF TickInv
<1>1. CASE Pass \/ SendTick
  BY <1>1, BoundsAssumption DEF Pass, SendTick, TickInv, TypeOK, Times
<1>2. CASE UNCHANGED vars
  BY <1>2 DEF vars, TickInv, TypeOK
<1> QED BY <1>1, <1>2, ApiTyped, TickStepTyped DEF Next, TickInv

LEMMA TickInvInit == Init => TickInv
<1>1. Init => CopyDue
  BY DEF Init, CopyDue, Held, NoTick, At
<1> QED BY <1>1, TypeInit DEF TickInv

LEMMA TickInvAlways == Spec => []TickInv
<1> QED BY TickInvInit, TickInvStep, PTL DEF Spec

\* Every variable keeps its type; next_run_at stays within the bound on time
\* and one interval.
THEOREM TypeCorrect == Spec => []TypeOK
<1>1. TickInv => TypeOK
  BY DEF TickInv
<1> QED BY <1>1, TickInvAlways, PTL

-----------------------------------------------------------------------------
(* Scans inserted, and scans sent                                          *)

\* Only InsertScan inserts, and it inserts one scan.
LEMMA OnlyInsertScan ==
    ASSUME TickInv, [Next]_vars, NEW s \in Schedules, NEW d \in 0 .. Latest
    PROVE  \/ inserted'[s][d] = inserted[s][d]
           \/ \E p \in Procs : /\ InsertScan(p) /\ tick[p].on = s /\ DueTime(p) = d
                               /\ tick' = [tick EXCEPT ![p].pc = "advance"]
                               /\ inserted'[s][d] = CountUp(inserted[s][d])
<1>1. CASE UNCHANGED inserted
  BY <1>1
<1>2. ASSUME NEW p \in Procs, InsertScan(p) 
      PROVE  \/ inserted'[s][d] = inserted[s][d]
             \/ /\ tick[p].on = s /\ DueTime(p) = d
                /\ tick' = [tick EXCEPT ![p].pc = "advance"]
                /\ inserted'[s][d] = CountUp(inserted[s][d])
  <2> DEFINE z == tick[p].on
             e == DueTime(p)
             n == CountUp(inserted[z][e])
  <2>1. CASE target[z] = "deleted"
    BY <1>2, <2>1 DEF InsertScan
  <2>2. CASE target[z] /= "deleted"
    <3>1. /\ tick' = [tick EXCEPT ![p].pc = "advance"]
          /\ inserted' = [inserted EXCEPT ![z][e] = n]
      BY <1>2, <2>2 DEF InsertScan
    <3>2. z \in Schedules /\ e \in 0 .. Latest
      BY <1>2, AtHand DEF InsertScan, At
    <3>3. inserted \in [Schedules -> [0 .. Latest -> Counts]]
      BY DEF TickInv, TypeOK
    <3>4. CASE z = s /\ e = d
      <4> HIDE DEF e, z
      <4>1. inserted'[s][d] = n
        BY <3>1, <3>2, <3>3, <3>4
      <4> QED BY <3>1, <3>4, <4>1 DEF e, z
    <3>5. CASE ~(z = s /\ e = d)
      <4> HIDE DEF e, z, n
      <4> QED BY <3>1, <3>2, <3>3, <3>5
    <3> QED BY <3>4, <3>5
  <2> QED BY <2>1, <2>2
<1>3. \/ UNCHANGED inserted \/ \E p \in Procs : InsertScan(p)
  BY DEF Next, Api, CreateSchedule, SetActive, SetInterval, DeleteSchedule, SetRow, DeleteTarget,
         Check, Pass, SendTick, StartTick, DiscardTick, NextDue, EndTick, Advance, Advanced,
         AdvanceRaises, SendScan,
         TickDies, vars
<1> QED BY <1>1, <1>2, <1>3

\* The next step of a process.
LEMMA InsertGoesOn ==
    ASSUME TickInv, NEW p \in Procs, NEW pc \in {"advance", "send"},
           ~At(p, "idle"), ~At(p, "loop"), tick' = [tick EXCEPT ![p].pc = pc]
    PROVE  /\ tick'[p].pc = pc /\ tick'[p].on = tick[p].on /\ DueTime(p)' = DueTime(p)
           /\ tick'[p].at = tick[p].at /\ tick'[p].copy = tick[p].copy
           /\ tick'[p].todo = tick[p].todo
           /\ \A q \in Procs \ {p} : tick'[q] = tick[q]
<1>1. tick'[p] = [tick[p] EXCEPT !.pc = pc]
  BY DEF TickInv, TypeOK
<1>2. /\ tick'[p].pc = pc /\ tick'[p].at = tick[p].at /\ tick'[p].copy = tick[p].copy
      /\ tick'[p].todo = tick[p].todo /\ tick'[p].on = tick[p].on
  <2>1. tick[p] = [pc |-> tick[p].pc, at |-> tick[p].at, copy |-> tick[p].copy,
                   todo |-> tick[p].todo, on |-> tick[p].on]
    BY TickParts DEF TickInv
  <2> QED BY <1>1, <2>1, PcMoves
<1>3. \A q \in Procs \ {p} : tick'[q] = tick[q]
  BY DEF TickInv, TypeOK
<1> QED BY <1>2, <1>3 DEF DueTime

\* What is deleted stays so, what is sent and who died too.
LEMMA UnsentBefore ==
    ASSUME TickInv, [Next]_vars, NEW s \in Schedules, NEW d \in 0 .. Latest,
           sent'[s][d] = 0, s \notin died', sched'[s] /= Gone
    PROVE  sent[s][d] = 0 /\ s \notin died /\ sched[s] /= Gone
<1>1. sent[s][d] = 0
  <2>1. CASE UNCHANGED sent
    BY <2>1
  <2>2. ASSUME NEW p \in Procs, SendScan(p) PROVE sent[s][d] = 0
    <3> DEFINE z == tick[p].on
               e == DueTime(p)
               n == CountUp(sent[z][e])
    <3>1. z \in Schedules /\ e \in 0 .. Latest
      BY <2>2, AtHand DEF SendScan, At
    <3>2. sent \in [Schedules -> [0 .. Latest -> Counts]] /\ sent' = [sent EXCEPT ![z][e] = n]
      BY <2>2 DEF SendScan, TickInv, TypeOK
    <3>3. n /= 0
      <4>1. sent[z][e] \in Counts
        BY <3>1, <3>2
      <4> QED BY <4>1 DEF CountUp, Counts, Many
    <3> HIDE DEF z, e, n
    <3> QED BY <3>1, <3>2, <3>3
  <2> QED BY <2>1, <2>2 DEF Next, Api, CreateSchedule, SetActive, SetInterval, DeleteSchedule,
             SetRow, DeleteTarget, Check, Pass, SendTick, StartTick, DiscardTick, NextDue, EndTick,
             InsertScan, Advance, Advanced, AdvanceRaises, TickDies, vars
<1>2. s \notin died
  BY DEF Next, Api, CreateSchedule, SetActive, SetInterval, DeleteSchedule, SetRow, DeleteTarget,
         Check, Pass, SendTick, StartTick, DiscardTick, NextDue, EndTick, InsertScan, Advance,
         Advanced, AdvanceRaises,
         SendScan, TickDies, vars
<1>3. sched[s] /= Gone
  <2> SUFFICES ASSUME sched[s] = Gone PROVE sched'[s] = sched[s]
    OBVIOUS
  <2>1. ~Exists(s) /\ sched[s] /= NoRow
    BY DEF Exists, Gone, NoRow
  <2>2. ASSUME NEW z \in Schedules, Api(z) PROVE sched'[s] = sched[s]
    <3>1. \A r : SetRow(z, r) /\ z /= s => sched'[s] = sched[s]
      BY DEF SetRow, TickInv, TypeOK
    <3> QED BY <2>1, <2>2, <3>1 DEF Api, CreateSchedule, SetActive, SetInterval, DeleteSchedule,
                                    DeleteTarget
  <2>3. ASSUME NEW p \in Procs, Advance(p) PROVE sched'[s] = sched[s]
    BY <2>1, <2>3 DEF Advance, Advanced, AdvanceRaises, TickInv, TypeOK
  <2>4. CASE UNCHANGED sched
    BY <2>4
  <2> QED BY <2>2, <2>3, <2>4 DEF Next, Check, Pass, SendTick, StartTick, DiscardTick, NextDue,
             EndTick, InsertScan, SendScan, TickDies, vars
<1> QED BY <1>1, <1>2, <1>3

\* A scan inserted and not sent has a tick still at it, unless a tick died on
\* its schedule or the schedule has been deleted.
THEOREM UnsentExplained == Spec => []UnsentIsExplained
<1>1. Init => UnsentIsExplained
  BY DEF Init, UnsentIsExplained
<1>2. ASSUME TickInv, UnsentIsExplained, [Next]_vars, NEW s \in Schedules, NEW d \in 0 .. Latest,
             inserted'[s][d] = 1, sent'[s][d] = 0, s \notin died', sched'[s] /= Gone
      PROVE  \E p \in Procs : /\ tick'[p].pc \in {"advance", "send"}
                              /\ tick'[p].on = s /\ DueTime(p)' = d
  <2>1. sent[s][d] = 0 /\ s \notin died /\ sched[s] /= Gone
    BY <1>2, UnsentBefore
  <2>2. CASE inserted'[s][d] /= inserted[s][d]
    <3>1. PICK p \in Procs : /\ InsertScan(p) /\ tick[p].on = s /\ DueTime(p) = d
                             /\ tick' = [tick EXCEPT ![p].pc = "advance"]
      BY <1>2, <2>2, OnlyInsertScan
    <3>2. ~At(p, "idle") /\ ~At(p, "loop")
      BY <3>1 DEF InsertScan, At
    <3> QED BY <1>2, <3>1, <3>2, InsertGoesOn
  <2>3. CASE inserted'[s][d] = inserted[s][d]
    <3>1. PICK q \in Procs : tick[q].pc \in {"advance", "send"} /\ tick[q].on = s /\ DueTime(q) = d
      BY <1>2, <2>1, <2>3 DEF UnsentIsExplained
    <3>2. CASE tick'[q] = tick[q]
      BY <3>1, <3>2 DEF DueTime
    <3>3. CASE tick'[q] /= tick[q]
      <4>1. PICK p \in Procs : StartTick(p) \/ DiscardTick(p) \/ Check(p) \/ TickDies(p)
        BY <1>2, <3>3 DEF Next, Pass, SendTick, Api, CreateSchedule, SetActive, SetInterval,
                          DeleteSchedule, SetRow, DeleteTarget, vars
      <4>2. p = q
        BY <1>2, <3>3, <4>1, TickGoesOn
      <4>3. Advance(q) \/ SendScan(q) \/ TickDies(q)
        BY <3>1, <3>3, <4>1, <4>2 DEF StartTick, DiscardTick, Check, NextDue, InsertScan, EndTick,
                                      At
      <4>4. ~SendScan(q)
        <5> SUFFICES ASSUME SendScan(q) PROVE sent'[s][d] /= 0
          BY <1>2
        <5> DEFINE n == CountUp(sent[s][d])
        <5>1. n = 1
          BY <2>1 DEF CountUp, Many
        <5>2. sent' = [sent EXCEPT ![s][d] = n]
          BY <3>1, Zenon DEF SendScan
        <5>3. sent \in [Schedules -> [0 .. Latest -> Counts]]
          BY <1>2 DEF TickInv, TypeOK
        <5> HIDE DEF n
        <5>4. sent'[s] = [sent[s] EXCEPT ![d] = n]
          BY <5>2, <5>3
        <5>5. sent'[s][d] = n
          BY <5>3, <5>4
        <5> QED BY <5>1, <5>5
      <4>5. ~TickDies(q)
        BY <1>2, <3>1 DEF TickDies, At
      <4>6. Exists(s)
        <5>1. sched[s] /= NoRow
          BY <1>2, <3>1, AtHand DEF At
        <5> QED BY <1>2, <2>1, <5>1 DEF Exists, TickInv, TypeOK, SchedRows
      <4>7. tick' = [tick EXCEPT ![q].pc = "send"]
        BY <3>1, <4>3, <4>4, <4>5, <4>6 DEF Advance, Advanced, AdvanceRaises
      <4>8. ~At(q, "idle") /\ ~At(q, "loop")
        BY <3>1 DEF At
      <4> QED BY <1>2, <3>1, <4>7, <4>8, InsertGoesOn
    <3> QED BY <3>2, <3>3
  <2> QED BY <2>2, <2>3
<1>3. TickInv /\ UnsentIsExplained /\ [Next]_vars => UnsentIsExplained'
  BY <1>2 DEF UnsentIsExplained
<1> QED BY <1>1, <1>3, TickInvAlways, PTL DEF Spec

-----------------------------------------------------------------------------
(* What a step makes of a row                                              *)

\* A tick that advances its schedule moves next_run_at beyond the due time.
LEMMA AdvanceRow ==
    ASSUME TickInv, NEW p \in Procs, Advance(p), Exists(tick[p].on)
    PROVE  LET s == tick[p].on IN
           /\ s \in Schedules /\ s \in Ahead(p)
           /\ sched'[s].state = "row" /\ sched'[s].interval = sched[s].interval
           /\ sched'[s].next = tick[p].at + tick[p].copy[s].interval
           /\ tick[p].at \in Nat /\ tick[p].at <= now /\ now \in Nat /\ DueTime(p) \in Nat
           /\ tick[p].copy[s].interval \in Nat
           /\ sched'[s].next > DueTime(p) /\ sched'[s].next > tick[p].at
           /\ \A z \in Schedules \ {s} : sched'[z] = sched[z]
           /\ s \notin overtaken' => sched[s].next = DueTime(p)
           /\ UNCHANGED <<now, inserted, died>>
<1> DEFINE s == tick[p].on
           d == tick[p].at + tick[p].copy[s].interval
<1>1. ~At(p, "idle") /\ ~At(p, "loop") /\ s \in Ahead(p)
  BY DEF Advance, At, Ahead
<1>2. /\ s \in Schedules /\ DueTime(p) \in 0 .. Latest /\ DueTime(p) <= tick[p].at
      /\ tick[p].copy[s].interval \in Nat \ {0} /\ tick[p].at \in Nat /\ tick[p].at <= now
  BY <1>1, AtHand, TickParts, IntervalsAssumption DEF TickInv
<1>3. now \in Nat /\ DueTime(p) \in Nat
  BY <1>2, LatestCovers, BoundsAssumption DEF TickInv, TypeOK, Times
<1>4. d > DueTime(p) /\ d > tick[p].at
  <2>1. \A at \in Nat, i \in Nat \ {0}, e \in Nat : e <= at => at + i > at /\ at + i > e
    OBVIOUS
  <2> HIDE DEF s
  <2> QED BY <1>2, <1>3, <2>1
<1>5. Advanced(p, d)
  BY DEF Advance
<1>6. /\ sched' = [sched EXCEPT ![s].next = d]
      /\ overtaken' = overtaken \cup IF sched[s].next = DueTime(p) THEN {} ELSE {s}
      /\ UNCHANGED <<now, inserted, died>>
  BY <1>5 DEF Advanced
<1>7. sched'[s].next = d /\ sched'[s].state = "row" /\ sched'[s].interval = sched[s].interval
  <2>1. sched[s] \in SchedRows /\ sched[s].state = "row"
    BY <1>2 DEF Exists, TickInv, TypeOK
  <2>2. sched[s] = Row(sched[s].active, sched[s].interval, sched[s].next)
    BY <2>1, RowParts
  <2> HIDE DEF d, s
  <2>3. LET r == [sched[s] EXCEPT !.next = d]
        IN  r.next = d /\ r.state = "row" /\ r.interval = sched[s].interval
    BY <2>2 DEF Row
  <2> QED BY <1>2, <1>6, <2>3 DEF TickInv, TypeOK
<1>8. \A z \in Schedules \ {s} : sched'[z] = sched[z]
  <2> HIDE DEF d, s
  <2> QED BY <1>6 DEF TickInv, TypeOK
<1> HIDE DEF d
<1> QED BY <1>1, <1>2, <1>3, <1>4, <1>6, <1>7, <1>8 DEF d

\* A request leaves the run of a schedule alone, sets it to one interval from
\* now, or takes the row away.
LEMMA ApiRow ==
    ASSUME TickInv, NEW z \in Schedules, Api(z), NEW s \in Schedules
    PROVE  /\ UNCHANGED <<now, tick, inserted, died, overtaken>>
           /\ \/ sched'[s] = sched[s]
              \/ sched'[s].state /= "row"
              \/ /\ sched'[s].state = "row" /\ sched[s].state = "row"
                 /\ sched'[s].next = sched[s].next /\ sched'[s].interval = sched[s].interval
              \/ /\ sched'[s].state = "row" /\ sched'[s].interval \in Intervals
                 /\ sched'[s].next = now + sched'[s].interval
<1>1. ASSUME NEW r, SetRow(z, r)
      PROVE  /\ UNCHANGED <<now, tick, inserted, died, overtaken>>
             /\ sched'[z] = r /\ (s /= z => sched'[s] = sched[s])
  BY <1>1 DEF SetRow, TickInv, TypeOK
<1>2. CASE CreateSchedule(z)
  <2>1. PICK i \in Intervals : SetRow(z, Row(TRUE, i, now + i))
    BY <1>2 DEF CreateSchedule
  <2>2. LET r == Row(TRUE, i, now + i)
        IN  r.state = "row" /\ r.interval = i /\ r.next = now + i
    BY DEF Row
  <2> QED BY <1>1, <2>1, <2>2
<1>3. CASE SetActive(z) \/ SetInterval(z)
  <2>1. Exists(z) /\ sched[z] \in SchedRows /\ sched[z].state = "row"
    BY <1>3 DEF SetActive, SetInterval, Exists, TickInv, TypeOK
  <2>2. PICK active, i, next : sched[z] = Row(active, i, next)
    BY <2>1, RowParts
  <2>3. CASE SetActive(z)
    <3>1. PICK b \in BOOLEAN : SetRow(z, [sched[z] EXCEPT !.active = b])
      BY <2>3 DEF SetActive
    <3> DEFINE r == [sched[z] EXCEPT !.active = b]
    <3>2. SetRow(z, r) /\ r.state = "row" /\ r.next = sched[z].next
          /\ r.interval = sched[z].interval
      BY <3>1, <2>2 DEF Row
    <3> HIDE DEF r
    <3> QED BY <1>1, <2>1, <3>2
  <2>4. CASE SetInterval(z)
    <3>1. PICK j \in Intervals : SetRow(z, [sched[z] EXCEPT !.interval = j, !.next = now + j])
      BY <2>4 DEF SetInterval
    <3> DEFINE r == [sched[z] EXCEPT !.interval = j, !.next = now + j]
    <3>2. SetRow(z, r) /\ r.state = "row" /\ r.next = now + j /\ r.interval = j
      BY <3>1, <2>2 DEF Row
    <3> HIDE DEF r
    <3> QED BY <1>1, <3>1, <3>2
  <2> QED BY <1>3, <2>3, <2>4
<1>4. CASE DeleteSchedule(z)
  BY <1>1, <1>4 DEF DeleteSchedule, Gone
<1>5. CASE DeleteTarget(z)
  BY <1>5 DEF DeleteTarget
<1> QED BY <1>2, <1>3, <1>4, <1>5 DEF Api

\* Any step does one of these, or is a tick's that advances the schedule.
LEMMA RowStep ==
    ASSUME TickInv, [Next]_vars, NEW s \in Schedules
    PROVE  \/ sched'[s] = sched[s]
           \/ sched'[s].state /= "row"
           \/ /\ sched'[s].state = "row" /\ sched[s].state = "row"
              /\ sched'[s].next = sched[s].next /\ sched'[s].interval = sched[s].interval
              /\ UNCHANGED <<now, tick, inserted>>
           \/ /\ sched'[s].state = "row" /\ sched'[s].interval \in Intervals
              /\ sched'[s].next = now + sched'[s].interval
              /\ UNCHANGED <<now, tick, inserted>>
           \/ \E p \in Procs : Advance(p) /\ tick[p].on = s /\ Exists(s)
<1>1. ASSUME NEW p \in Procs, Advance(p)
      PROVE  sched'[s] = sched[s] \/ (tick[p].on = s /\ Exists(s))
  <2>1. CASE Exists(tick[p].on)
    BY <1>1, <2>1, AdvanceRow
  <2>2. CASE ~Exists(tick[p].on)
    BY <1>1, <2>2 DEF Advance, AdvanceRaises
  <2> QED BY <2>1, <2>2
<1>2. ASSUME NEW z \in Schedules, Api(z)
      PROVE  \/ sched'[s] = sched[s]
             \/ sched'[s].state /= "row"
             \/ /\ sched'[s].state = "row" /\ sched[s].state = "row"
                /\ sched'[s].next = sched[s].next /\ sched'[s].interval = sched[s].interval
                /\ UNCHANGED <<now, tick, inserted>>
             \/ /\ sched'[s].state = "row" /\ sched'[s].interval \in Intervals
                /\ sched'[s].next = now + sched'[s].interval
                /\ UNCHANGED <<now, tick, inserted>>
  BY <1>2, ApiRow
<1>3. CASE UNCHANGED sched
  BY <1>3
<1> QED BY <1>1, <1>2, <1>3 DEF Next, Check, Pass, SendTick, StartTick, DiscardTick, NextDue,
           EndTick, InsertScan, SendScan, TickDies, vars

\* What a tick has ahead it had before, or it has just read it.
LEMMA AheadStep ==
    ASSUME TickInv, [Next]_vars, NEW q \in Procs, NEW s \in Schedules, s \in Ahead(q)'
    PROVE  \/ /\ s \in Ahead(q) /\ s \in Held(q)
              /\ tick'[q].at = tick[q].at /\ tick'[q].copy = tick[q].copy
           \/ tick'[q].copy[s] = sched[s] /\ sched' = sched
<1>1. CASE tick'[q] = tick[q]
  BY <1>1 DEF Ahead, Held, At
<1>2. CASE tick'[q] /= tick[q]
  <2>1. PICK p \in Procs : StartTick(p) \/ DiscardTick(p) \/ Check(p) \/ TickDies(p)
    BY <1>2 DEF Next, Pass, SendTick, Api, CreateSchedule, SetActive, SetInterval,
                DeleteSchedule, SetRow, DeleteTarget, vars
  <2>2. p = q
    BY <1>2, <2>1, TickGoesOn
  <2>3. tick'[q] /= NoTick
    BY DEF Ahead, At, NoTick
  <2>4. CASE StartTick(q)
    <3>1. tick'[q] = [pc |-> "loop", at |-> now, todo |-> {z \in Schedules : Due(z)},
                      copy |-> [z \in Schedules |-> IF Due(z) THEN sched[z] ELSE NoRow]]
      BY <2>4 DEF StartTick, TickInv, TypeOK
    <3>2. Due(s)
      BY <3>1 DEF Ahead, At
    <3> QED BY <2>4, <3>1, <3>2 DEF StartTick
  <2>5. CASE ~StartTick(q)
    <3>1. s \in Ahead(q) /\ tick'[q].at = tick[q].at /\ tick'[q].copy = tick[q].copy
      BY <1>2, <2>1, <2>2, <2>3, <2>5, TickGoesOn
    <3> QED BY <3>1 DEF Ahead, Held, At
  <2> QED BY <2>4, <2>5
<1> QED BY <1>1, <1>2

-----------------------------------------------------------------------------
(* The next run is near                                                    *)

\* Unless a tick was overtaken on it: what a tick read of a schedule is not
\* ahead of the row, and when the due time is still the same then so is the
\* interval.
ReadInTime ==
    \A s \in Schedules \ overtaken : Exists(s) =>
        \A p \in Procs : s \in Ahead(p) =>
            /\ tick[p].copy[s].next <= sched[s].next
            /\ tick[p].copy[s].next = sched[s].next
                 => tick[p].copy[s].interval = sched[s].interval

NearInv == TickInv /\ NextRunIsNear /\ ReadInTime

LEMMA NearStep ==
    ASSUME NearInv, [Next]_vars, NEW s \in Schedules, s \notin overtaken', Exists(s)'
    PROVE  /\ sched'[s].next <= now' + sched'[s].interval
           /\ \A q \in Procs : s \in Ahead(q)' =>
                 /\ tick'[q].copy[s].next <= sched'[s].next
                 /\ tick'[q].copy[s].next = sched'[s].next
                      => tick'[q].copy[s].interval = sched'[s].interval
<1>1. now <= now' /\ now \in Nat /\ now' \in Nat
  BY ClockGoesOn, BoundsAssumption DEF NearInv, TickInv, TypeOK, Times
<1>2. s \notin overtaken
  BY DEF Next, Api, CreateSchedule, SetActive, SetInterval, DeleteSchedule, SetRow, DeleteTarget,
         Check, Pass, SendTick, StartTick, DiscardTick, NextDue, EndTick, InsertScan, Advance,
         Advanced, AdvanceRaises, SendScan, TickDies, vars
<1>3. ASSUME Exists(s)
      PROVE  /\ sched[s].next \in Nat /\ sched[s].interval \in Nat
             /\ sched[s].next <= now + sched[s].interval
             /\ \A p \in Procs : s \in Ahead(p) =>
                   /\ tick[p].copy[s].next <= sched[s].next
                   /\ tick[p].copy[s].next = sched[s].next
                        => tick[p].copy[s].interval = sched[s].interval
  <2>1. sched[s] \in SchedRows /\ sched[s].state = "row"
    BY <1>3 DEF Exists, NearInv, TickInv, TypeOK
  <2>2. sched[s].next \in Nat /\ sched[s].interval \in Nat
    <3>1. sched[s].next \in 0 .. Latest /\ sched[s].interval \in Intervals
      BY <2>1, RowParts
    <3>2. Intervals \subseteq Nat
      BY IntervalsAssumption
    <3>3. 0 .. Latest \subseteq Nat
      BY LatestCovers
    <3> QED BY <3>1, <3>2, <3>3
  <2> QED BY <1>2, <1>3, <2>2 DEF NearInv, NextRunIsNear, ReadInTime
<1>4. ASSUME NEW q \in Procs, s \in Held(q)
      PROVE  /\ tick[q].copy[s].next \in Nat /\ tick[q].copy[s].next <= tick[q].at
             /\ tick[q].at <= now /\ tick[q].at \in Nat
  <2>1. ~At(q, "idle") /\ TypeOK /\ CopyDue
    BY <1>4 DEF Held, NearInv, TickInv
  <2>2. tick[q].copy[s] \in SchedRows /\ tick[q].copy[s].state = "row"
    BY <1>4, <2>1, TickParts DEF CopyDue
  <2>3. tick[q].copy[s].next \in Nat
    <3>1. tick[q].copy[s].next \in 0 .. Latest
      BY <2>2, RowParts
    <3> QED BY <3>1, LatestCovers
  <2>4. tick[q].at \in Nat
    BY <2>1, TickParts
  <2> QED BY <1>4, <2>1, <2>3, <2>4 DEF CopyDue
<1>5. ASSUME Exists(s), sched'[s].next = sched[s].next, sched'[s].interval = sched[s].interval
      PROVE  /\ sched'[s].next <= now' + sched'[s].interval
             /\ \A q \in Procs : s \in Ahead(q)' =>
                   /\ tick'[q].copy[s].next <= sched'[s].next
                   /\ tick'[q].copy[s].next = sched'[s].next
                        => tick'[q].copy[s].interval = sched'[s].interval
  <2>1. sched'[s].next <= now' + sched'[s].interval
    BY <1>1, <1>3, <1>5
  <2>2. ASSUME NEW q \in Procs, s \in Ahead(q)'
        PROVE  /\ tick'[q].copy[s].next <= sched'[s].next
               /\ tick'[q].copy[s].next = sched'[s].next
                    => tick'[q].copy[s].interval = sched'[s].interval
    <3>1. CASE s \in Ahead(q) /\ tick'[q].copy = tick[q].copy
      BY <1>3, <1>5, <3>1
    <3>2. CASE tick'[q].copy[s] = sched[s]
      BY <1>3, <1>5, <3>2
    <3> QED BY <2>2, <3>1, <3>2, AheadStep DEF NearInv
  <2> QED BY <2>1, <2>2
\* A time beyond the clock of every tick that has the schedule ahead.
<1>6. ASSUME sched'[s].next \in Nat, sched'[s].next <= now' + sched'[s].interval, sched' /= sched,
             \A q \in Procs : s \in Ahead(q) => tick[q].copy[s].next < sched'[s].next
      PROVE  /\ sched'[s].next <= now' + sched'[s].interval
             /\ \A q \in Procs : s \in Ahead(q)' =>
                   /\ tick'[q].copy[s].next <= sched'[s].next
                   /\ tick'[q].copy[s].next = sched'[s].next
                        => tick'[q].copy[s].interval = sched'[s].interval
  <2> SUFFICES ASSUME NEW q \in Procs, s \in Ahead(q)'
               PROVE  /\ tick'[q].copy[s].next <= sched'[s].next
                      /\ tick'[q].copy[s].next /= sched'[s].next
    BY <1>6
  <2>1. s \in Ahead(q) /\ s \in Held(q) /\ tick'[q].copy = tick[q].copy
    BY <1>6, AheadStep DEF NearInv
  <2> QED BY <1>4, <1>6, <2>1
<1>7. CASE sched'[s] = sched[s]
  BY <1>5, <1>7 DEF Exists
<1>8. CASE /\ sched'[s].state = "row" /\ sched[s].state = "row"
           /\ sched'[s].next = sched[s].next /\ sched'[s].interval = sched[s].interval
  BY <1>5, <1>8 DEF Exists
<1>9. CASE /\ sched'[s].interval \in Intervals /\ sched'[s].next = now + sched'[s].interval
           /\ UNCHANGED <<now, tick, inserted>> /\ sched'[s] /= sched[s]
  <2>1. sched'[s].interval \in Nat \ {0}
    BY <1>9, IntervalsAssumption
  <2>2. \A q \in Procs : s \in Ahead(q) => tick[q].copy[s].next < sched'[s].next
    <3>1. \A q \in Procs : s \in Ahead(q) => s \in Held(q)
      BY DEF Ahead, Held, At
    <3> QED BY <1>1, <1>4, <1>9, <2>1, <3>1
  <2> QED BY <1>1, <1>6, <1>9, <2>1, <2>2
<1>10. ASSUME NEW p \in Procs, Advance(p), tick[p].on = s, Exists(s)
       PROVE  /\ sched'[s].next <= now' + sched'[s].interval
              /\ \A q \in Procs : s \in Ahead(q)' =>
                    /\ tick'[q].copy[s].next <= sched'[s].next
                    /\ tick'[q].copy[s].next = sched'[s].next
                         => tick'[q].copy[s].interval = sched'[s].interval
  <2>1. /\ s \in Ahead(p) /\ sched'[s].interval = sched[s].interval /\ now' = now
        /\ sched'[s].next = tick[p].at + tick[p].copy[s].interval
        /\ tick[p].at \in Nat /\ tick[p].at <= now /\ DueTime(p) \in Nat
        /\ sched'[s].next > DueTime(p) /\ sched[s].next = DueTime(p)
        /\ tick[p].copy[s].interval \in Nat
    BY <1>10, AdvanceRow DEF NearInv
  <2>2. tick[p].copy[s].next = sched[s].next
    BY <1>10, <2>1 DEF DueTime
  <2>3. tick[p].copy[s].interval = sched[s].interval
    BY <1>3, <1>10, <2>1, <2>2
  <2>4. sched'[s].next <= now' + sched'[s].interval /\ sched'[s].next \in Nat
    BY <1>1, <2>1, <2>3
  <2>5. \A q \in Procs : s \in Ahead(q) => tick[q].copy[s].next < sched'[s].next
    <3>1. \A q \in Procs : s \in Ahead(q) => s \in Held(q)
      BY DEF Ahead, Held, At
    <3> QED BY <1>3, <1>4, <1>10, <2>1, <2>4, <3>1
  <2>6. sched' /= sched
    BY <2>1, <2>4
  <2> QED BY <1>6, <2>4, <2>5, <2>6
<1> QED BY <1>7, <1>8, <1>9, <1>10, RowStep DEF NearInv, Exists

LEMMA NearAlways == Spec => []NearInv
<1>1. Init => NearInv
  BY TickInvInit DEF Init, NearInv, NextRunIsNear, ReadInTime, Exists, NoRow
<1>2. NearInv /\ [Next]_vars => NearInv'
  <2>1. NearInv /\ [Next]_vars => TickInv'
    BY TickInvStep DEF NearInv
  <2>2. NearInv /\ [Next]_vars => NextRunIsNear' /\ ReadInTime'
    BY NearStep DEF NextRunIsNear, ReadInTime
  <2> QED BY <2>1, <2>2 DEF NearInv
<1> QED BY <1>1, <1>2, PTL DEF Spec

\* The next run of a schedule is never further away than its interval says,
\* unless a tick that had been overtaken set it.
THEOREM NextRunNear == Spec => []NextRunIsNear
<1>1. NearInv => NextRunIsNear
  BY DEF NearInv
<1> QED BY <1>1, NearAlways, PTL

-----------------------------------------------------------------------------
(* A due time that was served does not stay                                *)

\* Scans are inserted for due times that have come and, unless a tick died or
\* was overtaken on the schedule, next_run_at is beyond them as soon as the tick
\* that inserted the scan has advanced it.
RunIsBehind ==
    \A s \in Schedules : \A d \in 0 .. Latest : inserted[s][d] > 0 =>
        /\ d <= now
        /\ Exists(s) /\ s \notin died \cup overtaken =>
              \/ d < sched[s].next
              \/ /\ d = sched[s].next
                 /\ \E p \in Procs : At(p, "advance") /\ tick[p].on = s /\ DueTime(p) = d

LEMMA BehindStep ==
    ASSUME NearInv, RunIsBehind, [Next]_vars, NEW s \in Schedules, NEW d \in 0 .. Latest,
           inserted'[s][d] > 0
    PROVE  /\ d <= now'
           /\ Exists(s)' /\ s \notin died' \cup overtaken' =>
                 \/ d < sched'[s].next
                 \/ /\ d = sched'[s].next
                    /\ \E p \in Procs : /\ tick'[p].pc = "advance" /\ tick'[p].on = s
                                        /\ DueTime(p)' = d
<1>1. now <= now' /\ now \in Nat /\ now' \in Nat /\ d \in Nat
  BY ClockGoesOn, LatestCovers, BoundsAssumption DEF NearInv, TickInv, TypeOK, Times
<1>2. s \notin died' \cup overtaken' => s \notin died \cup overtaken
  BY DEF Next, Api, CreateSchedule, SetActive, SetInterval, DeleteSchedule, SetRow, DeleteTarget,
         Check, Pass, SendTick, StartTick, DiscardTick, NextDue, EndTick, InsertScan, Advance,
         Advanced, AdvanceRaises, SendScan, TickDies, vars
<1>3. Exists(s) => sched[s].next \in Nat
  <2>1. Exists(s) => sched[s] \in SchedRows /\ sched[s].state = "row"
    BY DEF Exists, NearInv, TickInv, TypeOK
  <2> QED BY <2>1, RowParts, LatestCovers
\* The scan has just been inserted.
<1>4. ASSUME NEW p \in Procs, InsertScan(p), tick[p].on = s, DueTime(p) = d,
             tick' = [tick EXCEPT ![p].pc = "advance"]
      PROVE  /\ d <= now'
             /\ Exists(s)' /\ s \notin died' \cup overtaken' =>
                   \/ d < sched'[s].next
                   \/ /\ d = sched'[s].next
                      /\ \E q \in Procs : /\ tick'[q].pc = "advance" /\ tick'[q].on = s
                                          /\ DueTime(q)' = d
  <2>1. ~At(p, "idle") /\ ~At(p, "loop") /\ s \in Ahead(p) /\ UNCHANGED <<now, sched>>
    BY <1>4 DEF InsertScan, At, Ahead
  <2>2. d <= tick[p].at /\ tick[p].at <= now /\ tick[p].at \in Nat
    BY <1>4, <2>1, AtHand, TickParts DEF NearInv, TickInv
  <2>3. tick'[p].pc = "advance" /\ tick'[p].on = s /\ DueTime(p)' = d
    BY <1>4, <2>1, InsertGoesOn DEF NearInv
  <2>4. Exists(s) /\ s \notin overtaken => d <= sched[s].next
    BY <1>4, <2>1 DEF NearInv, ReadInTime, DueTime
  <2>5. d <= now'
    BY <1>1, <2>1, <2>2
  <2>6. Exists(s)' /\ s \notin died' \cup overtaken' =>
           Exists(s) /\ s \notin overtaken /\ sched'[s].next = sched[s].next
    BY <1>2, <2>1 DEF Exists
  <2> QED BY <1>1, <1>3, <2>3, <2>4, <2>5, <2>6
\* It was there before.
<1>5. ASSUME inserted[s][d] > 0
      PROVE  /\ d <= now'
             /\ Exists(s)' /\ s \notin died' \cup overtaken' =>
                   \/ d < sched'[s].next
                   \/ /\ d = sched'[s].next
                      /\ \E q \in Procs : /\ tick'[q].pc = "advance" /\ tick'[q].on = s
                                          /\ DueTime(q)' = d
  <2>1. d <= now /\ d <= now'
    BY <1>1, <1>5 DEF RunIsBehind
  <2>2. ASSUME NEW p \in Procs, Advance(p), tick[p].on = s, Exists(s),
               s \notin died' \cup overtaken'
        PROVE  d < sched'[s].next
    <3>1. /\ sched'[s].next > DueTime(p) /\ sched[s].next = DueTime(p) /\ DueTime(p) \in Nat
          /\ sched'[s].next \in Nat
      BY <2>2, AdvanceRow DEF NearInv
    <3>2. d <= sched[s].next
      BY <1>1, <1>2, <1>3, <1>5, <2>2 DEF RunIsBehind
    <3> QED BY <1>1, <3>1, <3>2
  <2>3. ASSUME Exists(s), sched'[s].next = sched[s].next, s \notin died' \cup overtaken'
        PROVE  \/ d < sched'[s].next
               \/ /\ d = sched'[s].next
                  /\ \E q \in Procs : /\ tick'[q].pc = "advance" /\ tick'[q].on = s
                                      /\ DueTime(q)' = d
    <3>1. CASE d < sched[s].next
      BY <2>3, <3>1
    <3>2. CASE ~(d < sched[s].next)
      <4>1. d = sched[s].next
        BY <1>2, <1>5, <2>3, <3>2 DEF RunIsBehind
      <4>2. PICK q \in Procs : At(q, "advance") /\ tick[q].on = s /\ DueTime(q) = d
        BY <1>2, <1>5, <2>3, <3>2 DEF RunIsBehind
      <4>3. CASE tick'[q] = tick[q]
        BY <2>3, <4>1, <4>2, <4>3 DEF DueTime, At
      <4>4. CASE tick'[q] /= tick[q]
        <5>1. PICK p \in Procs : StartTick(p) \/ DiscardTick(p) \/ Check(p) \/ TickDies(p)
          BY <4>4 DEF Next, Pass, SendTick, Api, CreateSchedule, SetActive, SetInterval,
                      DeleteSchedule, SetRow, DeleteTarget, vars
        <5>2. p = q
          BY <4>4, <5>1, TickGoesOn DEF NearInv
        <5>3. Advance(q) \/ TickDies(q)
          BY <4>2, <4>4, <5>1, <5>2 DEF StartTick, DiscardTick, Check, NextDue, InsertScan,
                                        EndTick, SendScan, At
        <5>4. ~TickDies(q)
          BY <2>3, <4>2 DEF TickDies, At
        <5> QED BY <2>2, <2>3, <4>2, <5>3, <5>4
      <4> QED BY <4>3, <4>4
    <3> QED BY <3>1, <3>2
  <2>4. CASE sched'[s] = sched[s]
    BY <2>1, <2>3, <2>4 DEF Exists
  <2>5. CASE ~(Exists(s)')
    BY <2>1, <2>5
  <2>6. CASE /\ sched'[s].state = "row" /\ sched[s].state = "row"
             /\ sched'[s].next = sched[s].next
    BY <2>1, <2>3, <2>6 DEF Exists
  <2>7. CASE sched'[s].interval \in Intervals /\ sched'[s].next = now + sched'[s].interval
    <3>1. sched'[s].interval \in Nat \ {0}
      BY <2>7, IntervalsAssumption
    <3> QED BY <1>1, <2>1, <2>7, <3>1
  <2>8. CASE \E p \in Procs : Advance(p) /\ tick[p].on = s /\ Exists(s)
    BY <2>1, <2>2, <2>8
  <2> QED BY <2>4, <2>5, <2>6, <2>7, <2>8, RowStep DEF NearInv, Exists
<1>6. inserted[s][d] > 0 \/ \E p \in Procs : /\ InsertScan(p) /\ tick[p].on = s
                                            /\ DueTime(p) = d
                                            /\ tick' = [tick EXCEPT ![p].pc = "advance"]
  BY OnlyInsertScan DEF NearInv
<1> QED BY <1>4, <1>5, <1>6

\* Wherever ticks overlap and die, a due time for which a scan was inserted is
\* left by the tick that inserted it; it stays, or comes back, only where a tick
\* died on the schedule or advanced it after it had been overtaken.
THEOREM ServedAdvanced == Spec => []ServedIsAdvanced
<1>1. Init => RunIsBehind
  BY DEF Init, RunIsBehind
<1>2. NearInv /\ RunIsBehind /\ [Next]_vars => RunIsBehind'
  BY BehindStep DEF RunIsBehind, At
<1>3. NearInv /\ RunIsBehind => ServedIsAdvanced
  <2> SUFFICES ASSUME NearInv, RunIsBehind, NEW s \in Schedules, Exists(s),
                      inserted[s][sched[s].next] > 0, s \notin died \cup overtaken
               PROVE  \E p \in Procs : /\ At(p, "advance") /\ tick[p].on = s
                                       /\ DueTime(p) = sched[s].next
    BY DEF ServedIsAdvanced
  <2>1. sched[s].next \in 0 .. Latest /\ ~(sched[s].next < sched[s].next)
    <3>1. sched[s] \in SchedRows /\ sched[s].state = "row"
      BY DEF Exists, NearInv, TickInv, TypeOK
    <3> QED BY <3>1, RowParts, LatestCovers
  <2> QED BY <2>1 DEF RunIsBehind
<1> QED BY <1>1, <1>2, <1>3, NearAlways, PTL DEF Spec
=============================================================================
