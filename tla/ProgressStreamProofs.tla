------------------------ MODULE ProgressStreamProofs ------------------------
(***************************************************************************)
(* For any number of scans, events, clicks and polling loops, and whatever *)
(* gets lost: findings loaded at the terminal event are there, a failure   *)
(* on the page is one in the database, and with one scan every final       *)
(* status on the page is the scan's own.                                   *)
(***************************************************************************)
EXTENDS ProgressStream, WellFoundedInduction, FiniteSetTheorems, TLAPS

-----------------------------------------------------------------------------
(* What the steps are built from                                           *)

\* Some scan of a choice of scans is the latest.
LEMMA LatestExists ==
    ASSUME NEW S \in SUBSET Scans, S /= {}
    PROVE  \E s \in S : \A t \in S : t <= s
<1> DEFINE Later(s) == {t \in S : t > s}
           U == {Later(s) : s \in S}
<1>1. S \subseteq Int /\ IsFiniteSet(Scans)
  BY BoundsAssumption, FS_Interval DEF Scans
<1>2. U \subseteq FiniteSubsetsOf(Scans) /\ U /= {}
  <2>1. FiniteSubsetsOf(Scans) = SUBSET Scans
    BY <1>1, FS_FiniteSubsetsOfFinite
  <2>2. \A s \in S : Later(s) \in SUBSET Scans
    OBVIOUS
  <2>3. PICK s \in S : TRUE
    OBVIOUS
  <2>4. U \subseteq SUBSET Scans
    BY <2>2
  <2>5. Later(s) \in U
    OBVIOUS
  <2> QED BY <2>1, <2>4, <2>5
<1>3. PICK x \in U : \A y \in U : ~(<<y, x>> \in StrictSubsetOrdering(Scans))
  BY <1>2, FS_StrictSubsetOrderingWellFounded, WFMin
<1>4. PICK s \in S : x = Later(s)
  OBVIOUS
<1>5. ASSUME NEW t \in S, t > s PROVE FALSE
  <2>1. Later(t) \subseteq Later(s) /\ Later(t) /= Later(s)
    <3>1. s \in Int /\ t \in Int /\ \A u \in S : u \in Int
      BY <1>1
    <3>2. \A u \in S : u > t => u > s
      BY <1>5, <3>1
    <3>3. t \in Later(s) /\ t \notin Later(t)
      BY <1>5, <3>1
    <3> QED BY <3>2, <3>3
  <2>2. <<Later(t), Later(s)>> \in StrictSubsetOrdering(Scans)
    BY <2>1 DEF StrictSubsetOrdering
  <2> QED BY <1>3, <1>4, <2>2
<1> QED BY <1>1, <1>5

LEMMA NoneIsNoScan == None \notin Scans
BY DEF None, Scans

LEMMA LoadTyped ==
    ASSUME NEW s \in Scans, NEW by \in {"event", "view"}
    PROVE  Load(s, by) \in Loads
BY DEF Load, Loads

\* Each proof of a step looks at a group of actions.
Serve(s) == StartScan(s) \/ SwitchScan(s)
PollStep(s) == OnClose(s) \/ Poll(s) \/ PollGivesUp(s)
LoadStep(l) == ReadFindings(l) \/ Display(l) \/ LoadFails(l)

LEMMA StepCases ==
    ASSUME [Next]_vars
    PROVE  \/ \E s \in Scans : Worker(s)
           \/ ListScans \/ Mount
           \/ \E s \in Scans : Serve(s)
           \/ Subscribe \/ Forward \/ SocketBreaks
           \/ \E s \in Scans : PollStep(s)
           \/ \E l \in loads : LoadStep(l)
           \/ UNCHANGED vars
BY DEF Next, Serve, PollStep, LoadStep, Socket, Loading

\* A socket that is not closed belongs to a scan, and the page shows one.
SocketSound == ws.pc /= "closed" => ws.scan \in Scans /\ active.scan \in Scans

\* What an event does to the socket.
LEMMA PublishOnce ==
    ASSUME TypeOK, NEW s \in Scans, NEW m \in Messages, Publish(s, m)
    PROVE  /\ ws' \in [scan : Scans \cup {None}, pc : {"closed", "connecting", "open"},
                       queue : Seq(Messages)]
           /\ ws'.scan = ws.scan /\ ws'.pc = ws.pc
           /\ \/ ws'.queue = ws.queue
              \/ ws.scan = s /\ ws'.queue = Append(ws.queue, m)
<1>1. ws \in [scan : Scans \cup {None}, pc : {"closed", "connecting", "open"},
              queue : Seq(Messages)]
  BY DEF TypeOK
<1>2. Append(ws.queue, m) \in Seq(Messages)
  BY <1>1
<1>3. ws' = ws \/ (ws.scan = s /\ ws' = [ws EXCEPT !.queue = Append(ws.queue, m)])
  BY DEF Publish
<1> QED BY <1>1, <1>2, <1>3

LEMMA ClosingTyped ==
    ASSUME TypeOK
    PROVE  CloseSocket \in [Scans -> 0 .. MaxLoops]
<1>1. closing \in [Scans -> 0 .. MaxLoops] /\ MaxLoops \in Nat
  BY BoundsAssumption DEF TypeOK
<1> QED BY <1>1 DEF CloseSocket

LEMMA EffectTyped ==
    ASSUME NEW s \in Scans, NEW st, NEW displayed
    PROVE  /\ EffectLoads(s, st, displayed) \subseteq Loads
           /\ \A l \in EffectLoads(s, st, displayed) : l.by = "view"
<1>1. Load(s, "view") \in Loads /\ Load(s, "view").by = "view"
  BY LoadTyped DEF Load
<1> QED BY <1>1 DEF EffectLoads

LEMMA ShowTyped ==
    ASSUME TypeOK, NEW s \in Scans, NEW st \in Statuses, NEW displayed \in Scans \cup {None},
           Show(s, st, displayed)
    PROVE  /\ active' \in [scan : Scans \cup {None}, status : Statuses]
           /\ shown' \in Scans \cup {None}
           /\ ws' \in [scan : Scans \cup {None}, pc : {"closed", "connecting", "open"},
                       queue : Seq(Messages)]
           /\ loads' \subseteq Loads
<1>1. active' = [scan |-> s, status |-> st] /\ shown' = displayed
  BY DEF Show
<1>2. Connecting(s) \in [scan : Scans \cup {None}, pc : {"closed", "connecting", "open"},
                         queue : Seq(Messages)]
  BY DEF Connecting
<1>3. loads' \subseteq Loads
  BY EffectTyped, LoadTyped DEF Show, TypeOK
<1> QED BY <1>1, <1>2, <1>3 DEF Show, TypeOK

-----------------------------------------------------------------------------
(* Every step keeps the types                                              *)

LEMMA SocketInit == Init => TypeOK /\ SocketSound
<1>1. NoSocket \in [scan : Scans \cup {None}, pc : {"closed", "connecting", "open"},
                    queue : Seq(Messages)]
  BY DEF NoSocket
<1>2. 0 \in 0 .. MaxEvents /\ 0 \in 0 .. MaxLoops /\ 0 \in 0 .. MaxClicks
  BY BoundsAssumption
<1>3. Init => status \in [Scans -> Statuses]
  BY DEF Init, Statuses, Unfinished
<1> QED BY <1>1, <1>2, <1>3 DEF Init, TypeOK, SocketSound, NoSocket, Statuses

LEMMA WorkerTyped ==
    ASSUME TypeOK, NEW s \in Scans, Worker(s)
    PROVE  TypeOK' /\ ws'.scan = ws.scan /\ ws'.pc = ws.pc /\ UNCHANGED active
<1>1. CASE \/ Commit(s, "pending", "running") \/ Commit(s, "running", "completed")
           \/ Commit(s, "running", "failed")
  <2>1. PICK to \in {"running", "completed", "failed"} :
           /\ status' = [status EXCEPT ![s] = to]
           /\ UNCHANGED <<stored, told, events, view, traffic, counted>>
    BY <1>1 DEF Commit
  <2>2. status' \in [Scans -> Statuses]
    BY <2>1 DEF TypeOK, Statuses, Unfinished, Final
  <2> QED BY <2>1, <2>2 DEF TypeOK, view, traffic, counted
<1>2. CASE NodeEvent(s)
  <2>1. PICK m \in {"step", "node_done"} : Publish(s, m)
    BY <1>2 DEF NodeEvent
  <2>2. m \in Messages
    BY DEF Messages
  <2>3. events' \in [Scans -> 0 .. MaxEvents]
    BY <1>2, BoundsAssumption DEF NodeEvent, TypeOK
  <2> QED BY <1>2, <2>1, <2>2, <2>3, PublishOnce DEF NodeEvent, TypeOK, view, counted
<1>3. CASE StoreFindings(s)
  BY <1>3 DEF StoreFindings, TypeOK, view, traffic, counted
<1>4. CASE Announce(s)
  <2>1. Publish(s, "system") /\ "system" \in Messages
    BY <1>4 DEF Announce, Messages
  <2> QED BY <1>4, <2>1, PublishOnce DEF Announce, TypeOK, view, counted
<1> QED BY <1>1, <1>2, <1>3, <1>4 DEF Worker

LEMMA MountShows ==
    ASSUME TypeOK, Mount
    PROVE  /\ page' = "ready"
           /\ \/ UNCHANGED <<active, shown, ws, closing, loads>>
              \/ \E s \in Scans : /\ Show(s, known[s], shown)
                                  /\ closing' \in {CloseSocket, closing}
           /\ UNCHANGED <<server, known, polls, counted>>
<1> DEFINE listed == {s \in Scans : known[s] /= "none"}
           done   == {s \in listed : known[s] = "completed"}
           among  == IF done = {} THEN listed ELSE done
           last   == CHOOSE s \in among : \A t \in among : t <= s
<1>1. CASE listed = {}
  BY <1>1 DEF Mount
<1>2. CASE listed /= {}
  <2>1. among \in SUBSET Scans /\ among /= {}
    BY <1>2
  <2>2. last \in Scans
    <3> HIDE DEF among
    <3> QED BY <2>1, LatestExists
  <2>3. /\ Show(last, known[last], shown)
        /\ closing' = IF known[last] \in Unfinished THEN CloseSocket ELSE closing
    BY <1>2 DEF Mount
  <2> HIDE DEF last
  <2> QED BY <2>2, <2>3 DEF Mount
<1> QED BY <1>1, <1>2

LEMMA PageTyped ==
    ASSUME TypeOK, SocketSound, ListScans \/ Mount \/ \E s \in Scans : Serve(s)
    PROVE  TypeOK' /\ SocketSound'
<1>1. CASE ListScans
  BY <1>1 DEF ListScans, TypeOK, SocketSound, server, traffic, counted
<1>2. ASSUME NEW s \in Scans, NEW st \in Statuses, NEW displayed \in Scans \cup {None},
             Show(s, st, displayed)
      PROVE  SocketSound'
  BY <1>2 DEF SocketSound, Show, Connecting
<1>3. CASE Mount
  <2>1. CASE UNCHANGED <<active, shown, ws, closing, loads>>
    BY <1>3, <2>1, MountShows DEF TypeOK, SocketSound, server, counted
  <2>2. ASSUME NEW s \in Scans, Show(s, known[s], shown), closing' \in {CloseSocket, closing}
        PROVE  TypeOK' /\ SocketSound'
    <3>1. known[s] \in Statuses /\ shown \in Scans \cup {None}
      BY DEF TypeOK
    <3>2. closing' \in [Scans -> 0 .. MaxLoops]
      BY <2>2, ClosingTyped DEF TypeOK
    <3> QED BY <1>2, <1>3, <2>2, <3>1, <3>2, MountShows, ShowTyped DEF TypeOK, server, counted
  <2> QED BY <1>3, <2>1, <2>2, MountShows
<1>4. ASSUME NEW s \in Scans, StartScan(s) PROVE TypeOK' /\ SocketSound'
  <2>1. "pending" \in Statuses /\ None \in Scans \cup {None} /\ Show(s, "pending", None)
    BY <1>4 DEF Statuses, Unfinished, StartScan
  <2>2. status' \in [Scans -> Statuses] /\ known' \in [Scans -> Statuses]
    BY <1>4, <2>1 DEF StartScan, TypeOK
  <2> QED BY <1>2, <1>4, <2>1, <2>2, ShowTyped, ClosingTyped DEF StartScan, TypeOK, counted
<1>5. ASSUME NEW s \in Scans, SwitchScan(s) PROVE TypeOK' /\ SocketSound'
  <2>1. clicks' \in 0 .. MaxClicks
    BY <1>5, BoundsAssumption DEF SwitchScan, TypeOK
  <2>2. active' \in [scan : Scans \cup {None}, status : Statuses] /\ active'.scan = s
    BY <1>5 DEF SwitchScan, TypeOK
  <2>3. loads' \subseteq Loads
    BY <1>5, LoadTyped DEF SwitchScan, TypeOK
  <2>4. ws' \in {Connecting(s), NoSocket}
    BY <1>5 DEF SwitchScan
  <2>5. /\ ws' \in [scan : Scans \cup {None}, pc : {"closed", "connecting", "open"},
                    queue : Seq(Messages)]
        /\ ws'.pc /= "closed" => ws'.scan = s
    <3>1. CASE ws' = Connecting(s)
      BY <3>1 DEF Connecting
    <3>2. CASE ws' = NoSocket
      BY <3>2 DEF NoSocket
    <3> QED BY <2>4, <3>1, <3>2
  <2> QED BY <1>5, <2>1, <2>2, <2>3, <2>5, ClosingTyped DEF SwitchScan, TypeOK, SocketSound, server
<1> QED BY <1>1, <1>3, <1>4, <1>5 DEF Serve

LEMMA SocketTyped ==
    ASSUME TypeOK, SocketSound, Subscribe \/ Forward \/ SocketBreaks
    PROVE  TypeOK' /\ SocketSound'
<1> DEFINE Sockets == [scan : Scans \cup {None}, pc : {"closed", "connecting", "open"},
                       queue : Seq(Messages)]
<1>1. NoSocket \in Sockets /\ NoSocket.pc = "closed" /\ ws \in Sockets
  BY DEF NoSocket, TypeOK
<1>2. CASE Subscribe
  BY <1>1, <1>2 DEF Subscribe, TypeOK, SocketSound, server, view, counted
<1>3. CASE SocketBreaks
  BY <1>1, <1>3, ClosingTyped DEF SocketBreaks, TypeOK, SocketSound, server, view, counted
<1>4. CASE Forward
  <2>1. ws.scan \in Scans /\ active.scan \in Scans /\ ws.queue \in Seq(Messages) /\ ws.queue /= <<>>
    BY <1>1, <1>4 DEF Forward, SocketSound
  <2>2. Head(ws.queue) \in Messages /\ Tail(ws.queue) \in Seq(Messages)
    BY <2>1
  <2>3. CASE Head(ws.queue) = "step"
    <3>1. ws' = [ws EXCEPT !.queue = Tail(ws.queue)] /\ UNCHANGED <<active, closing, loads>>
      BY <1>4, <2>3 DEF Forward
    <3>2. ws' \in Sockets /\ ws'.scan = ws.scan /\ ws'.pc = ws.pc
      BY <1>1, <2>2, <3>1
    <3> QED BY <1>4, <3>1, <3>2 DEF Forward, TypeOK, SocketSound, server, counted
  <2>4. CASE Head(ws.queue) = "node_done"
    <3>1. ws' = NoSocket /\ closing' = CloseSocket /\ UNCHANGED <<active, loads>>
      BY <1>4, <2>4 DEF Forward
    <3> QED BY <1>1, <1>4, <3>1, ClosingTyped DEF Forward, TypeOK, SocketSound, server, counted
  <2>5. CASE Head(ws.queue) = "system"
    <3>1. /\ ws' = NoSocket /\ closing' = CloseSocket
          /\ active' = [active EXCEPT !.status = "completed"]
          /\ loads' = loads \cup {Load(ws.scan, "event")}
                            \cup EffectLoads(active.scan, "completed", shown)
      BY <1>4, <2>5 DEF Forward
    <3>2. active' \in [scan : Scans \cup {None}, status : Statuses]
      BY <3>1 DEF TypeOK, Statuses, Final
    <3>3. loads' \subseteq Loads
      BY <2>1, <3>1, LoadTyped, EffectTyped DEF TypeOK
    <3> QED BY <1>1, <1>4, <3>1, <3>2, <3>3, ClosingTyped
            DEF Forward, TypeOK, SocketSound, server, counted
  <2> QED BY <2>2, <2>3, <2>4, <2>5 DEF Messages
<1> QED BY <1>2, <1>3, <1>4

LEMMA PollTyped ==
    ASSUME TypeOK, SocketSound, NEW s \in Scans, PollStep(s)
    PROVE  TypeOK' /\ SocketSound'
<1>1. MaxLoops \in Nat /\ polls \in [Scans -> 0 .. MaxLoops] /\ closing \in [Scans -> 0 .. MaxLoops]
  BY BoundsAssumption DEF TypeOK
<1>2. CASE OnClose(s)
  <2>1. closing' \in [Scans -> 0 .. MaxLoops] /\ polls' \in [Scans -> 0 .. MaxLoops]
    BY <1>1, <1>2 DEF OnClose
  <2> QED BY <1>2, <2>1 DEF OnClose, TypeOK, SocketSound, server, view, counted
<1>3. CASE Poll(s)
  <2>1. polls' \in [Scans -> 0 .. MaxLoops]
    BY <1>1, <1>3 DEF Poll
  <2>2. active' \in [scan : Scans \cup {None}, status : Statuses] /\ active'.scan = s
    BY <1>3 DEF Poll, TypeOK
  <2>3. loads' \subseteq Loads
    BY <1>3, LoadTyped, EffectTyped DEF Poll, TypeOK
  <2> QED BY <1>3, <2>1, <2>2, <2>3 DEF Poll, TypeOK, SocketSound, server, counted
<1>4. CASE PollGivesUp(s)
  <2>1. polls' \in [Scans -> 0 .. MaxLoops]
    BY <1>1, <1>4 DEF PollGivesUp
  <2> QED BY <1>4, <2>1 DEF PollGivesUp, TypeOK, SocketSound, server, view
<1> QED BY <1>2, <1>3, <1>4 DEF PollStep

LEMMA LoadStepTyped ==
    ASSUME TypeOK, SocketSound, NEW l \in loads, LoadStep(l)
    PROVE  TypeOK' /\ SocketSound'
<1>1. l \in Loads /\ loads \subseteq Loads
  BY DEF TypeOK
<1>2. CASE ReadFindings(l)
  <2>1. [l EXCEPT !.rows = IF l.scan \in stored THEN "found" ELSE "empty"] \in Loads
    BY <1>1 DEF Loads
  <2> QED BY <1>1, <1>2, <2>1 DEF ReadFindings, TypeOK, SocketSound, server, view, counted
<1>3. CASE Display(l)
  <2>1. shown' \in Scans \cup {None}
    BY <1>1, <1>3 DEF Display, Loads
  <2> QED BY <1>1, <1>3, <2>1 DEF Display, TypeOK, SocketSound, server, counted
<1>4. CASE LoadFails(l)
  BY <1>1, <1>4 DEF LoadFails, TypeOK, SocketSound, server, view, counted
<1> QED BY <1>2, <1>3, <1>4 DEF LoadStep

LEMMA TypeStep == TypeOK /\ SocketSound /\ [Next]_vars => TypeOK' /\ SocketSound'
<1> SUFFICES ASSUME TypeOK, SocketSound, [Next]_vars PROVE TypeOK' /\ SocketSound'
  OBVIOUS
<1>1. ASSUME NEW s \in Scans, Worker(s) PROVE TypeOK' /\ SocketSound'
  BY <1>1, WorkerTyped DEF SocketSound
<1>2. CASE UNCHANGED vars
  BY <1>2 DEF vars, server, view, traffic, counted, TypeOK, SocketSound
<1> QED BY <1>1, <1>2, StepCases, PageTyped, SocketTyped, PollTyped, LoadStepTyped

\* Every variable keeps its type; the page's socket always has a scan.
THEOREM TypeCorrect == Spec => []TypeOK
BY SocketInit, TypeStep, PTL DEF Spec

-----------------------------------------------------------------------------
(* What the database says stays said                                       *)

Committed == \A s \in stored : status[s] = "completed"

\* A final status the page has fetched is that of the scan.
KnownTrue == \A s \in Scans : known[s] \in Final => status[s] = known[s]

\* A scan that ended stays as it ended, and its findings stay stored.
LEMMA FinalStays ==
    ASSUME TypeOK, [Next]_vars
    PROVE  /\ \A s \in Scans : status[s] \in Final => status'[s] = status[s]
           /\ stored \subseteq stored'
<1>1. ASSUME NEW z \in Scans, Worker(z)
      PROVE  /\ \A s \in Scans : status[s] \in Final => status'[s] = status[s]
             /\ stored \subseteq stored'
  <2>1. CASE \/ Commit(z, "pending", "running") \/ Commit(z, "running", "completed")
             \/ Commit(z, "running", "failed")
    BY <2>1 DEF Commit, TypeOK, Final
  <2>2. CASE NodeEvent(z) \/ StoreFindings(z) \/ Announce(z)
    BY <2>2 DEF NodeEvent, StoreFindings, Announce
  <2> QED BY <1>1, <2>1, <2>2 DEF Worker
<1>2. ASSUME NEW z \in Scans, StartScan(z)
      PROVE  /\ \A s \in Scans : status[s] \in Final => status'[s] = status[s]
             /\ stored \subseteq stored'
  BY <1>2 DEF StartScan, TypeOK, Final
<1>3. CASE UNCHANGED <<status, stored>>
  BY <1>3
<1> QED BY <1>1, <1>2, <1>3, StepCases DEF ListScans, Mount, Serve, SwitchScan, Subscribe, Forward,
           SocketBreaks, PollStep, OnClose, Poll, PollGivesUp, LoadStep, ReadFindings, Display,
           LoadFails, server, vars

LEMMA CommittedStep == TypeOK /\ Committed /\ [Next]_vars => Committed'
<1> SUFFICES ASSUME TypeOK, Committed, [Next]_vars PROVE Committed'
  OBVIOUS
<1>1. stored \subseteq Scans /\ "completed" \in Final
  BY DEF TypeOK, Final
<1>2. ASSUME NEW z \in Scans, StoreFindings(z) PROVE Committed'
  BY <1>2 DEF StoreFindings, Committed
<1>3. CASE UNCHANGED stored
  BY <1>1, <1>3, FinalStays DEF Committed
<1> QED BY <1>2, <1>3, StepCases DEF Worker, Commit, NodeEvent, Announce, ListScans, Mount, Serve,
           StartScan, SwitchScan, Subscribe, Forward, SocketBreaks, PollStep, OnClose, Poll,
           PollGivesUp, LoadStep, ReadFindings, Display, LoadFails, server, vars

LEMMA KnownStep == TypeOK /\ KnownTrue /\ [Next]_vars => KnownTrue'
<1> SUFFICES ASSUME TypeOK, KnownTrue, [Next]_vars PROVE KnownTrue'
  OBVIOUS
<1>1. CASE ListScans
  BY <1>1 DEF ListScans, KnownTrue, server
<1>2. ASSUME NEW z \in Scans, StartScan(z) PROVE KnownTrue'
  BY <1>2 DEF StartScan, KnownTrue, TypeOK, Final
<1>3. CASE UNCHANGED known
  BY <1>3, FinalStays DEF KnownTrue
<1> QED BY <1>1, <1>2, <1>3, StepCases DEF Worker, Commit, NodeEvent, StoreFindings, Announce, view,
           Mount, Serve, SwitchScan, Subscribe, Forward, SocketBreaks, PollStep, OnClose, Poll,
           PollGivesUp, LoadStep, ReadFindings, Display, LoadFails, vars

-----------------------------------------------------------------------------
(* Findings loaded at the terminal event are there                         *)

\* A terminal event on its way tells of findings that are stored.
EventsTrue == \A i \in 1 .. Len(ws.queue) : ws.queue[i] = "system" => ws.scan \in stored

\* And so does what it made the page load.
EventLoads == \A l \in loads : l.by = "event" => l.scan \in stored /\ l.rows /= "empty"

LEMMA EventsStep ==
    TypeOK /\ SocketSound /\ EventsTrue /\ EventLoads /\ [Next]_vars => EventsTrue' /\ EventLoads'
<1> SUFFICES ASSUME TypeOK, SocketSound, EventsTrue, EventLoads, [Next]_vars
             PROVE  EventsTrue' /\ EventLoads'
  OBVIOUS
<1>1. stored \subseteq stored'
  BY FinalStays
<1>2. ws \in [scan : Scans \cup {None}, pc : {"closed", "connecting", "open"},
              queue : Seq(Messages)]
  BY DEF TypeOK
<1>3. ASSUME ws'.scan = ws.scan, ws'.queue = ws.queue PROVE EventsTrue'
  BY <1>1, <1>3 DEF EventsTrue
<1>4. ASSUME ws'.queue = <<>> PROVE EventsTrue'
  BY <1>4 DEF EventsTrue
<1>5. ASSUME \A l \in loads' : l \in loads \/ l.by /= "event" PROVE EventLoads'
  BY <1>1, <1>5 DEF EventLoads
<1>6. NoSocket.queue = <<>> /\ \A s \in Scans : Connecting(s).queue = <<>>
  BY DEF NoSocket, Connecting
<1>7. \A s \in Scans : Load(s, "view").by /= "event"
  BY DEF Load
<1>8. \A s \in Scans : \A st, displayed : \A l \in EffectLoads(s, st, displayed) : l.by /= "event"
  BY EffectTyped
<1>9. ASSUME NEW s \in Scans, Worker(s) PROVE EventsTrue' /\ EventLoads'
  <2>1. UNCHANGED loads
    BY <1>9 DEF Worker, Commit, NodeEvent, StoreFindings, Announce, traffic
  <2>2. ASSUME NEW m \in Messages, Publish(s, m), m = "system" => s \in stored PROVE EventsTrue'
    <3>1. CASE ws'.queue = ws.queue
      BY <1>3, <2>2, <3>1, PublishOnce
    <3>2. CASE ws.scan = s /\ ws'.queue = Append(ws.queue, m)
      <4>1. ws'.scan = s
        BY <2>2, <3>2, PublishOnce
      <4>2. ASSUME NEW i \in 1 .. Len(ws'.queue), ws'.queue[i] = "system"
            PROVE  s \in stored
        BY <1>2, <2>2, <3>2, <4>2 DEF EventsTrue
      <4> QED BY <1>1, <4>1, <4>2 DEF EventsTrue
    <3> QED BY <2>2, <3>1, <3>2, PublishOnce
  <2>3. CASE NodeEvent(s)
    <3>1. PICK m \in {"step", "node_done"} : Publish(s, m)
      BY <2>3 DEF NodeEvent
    <3> QED BY <1>5, <2>1, <2>2, <3>1 DEF Messages
  <2>4. CASE Announce(s)
    BY <1>5, <2>1, <2>2, <2>4 DEF Announce, Messages
  <2>5. CASE UNCHANGED ws
    BY <1>3, <1>5, <2>1, <2>5
  <2> QED BY <1>9, <2>3, <2>4, <2>5 DEF Worker, Commit, StoreFindings, traffic
<1>10. ASSUME NEW s \in Scans, NEW st, NEW displayed, Show(s, st, displayed)
       PROVE  EventsTrue' /\ EventLoads'
  <2>1. \A l \in loads' : l \in loads \/ l.by /= "event"
    BY <1>7, <1>8, <1>10 DEF Show
  <2>2. ws' = ws \/ ws' = Connecting(s)
    BY <1>10 DEF Show
  <2> QED BY <1>3, <1>4, <1>5, <1>6, <2>1, <2>2
<1>11. CASE Mount
  BY <1>3, <1>5, <1>10, <1>11, MountShows
<1>12. ASSUME NEW s \in Scans, Serve(s) PROVE EventsTrue' /\ EventLoads'
  <2>1. CASE StartScan(s)
    BY <1>10, <2>1 DEF StartScan
  <2>2. CASE SwitchScan(s)
    <3>1. ws' = NoSocket \/ ws' = Connecting(s)
      BY <2>2 DEF SwitchScan
    <3>2. \A l \in loads' : l \in loads \/ l.by /= "event"
      BY <1>7, <2>2 DEF SwitchScan
    <3> QED BY <1>4, <1>5, <1>6, <3>1, <3>2
  <2> QED BY <1>12, <2>1, <2>2 DEF Serve
<1>13. CASE Subscribe
  <2>1. ws'.scan = ws.scan /\ ws'.queue = ws.queue
    BY <1>2, <1>13 DEF Subscribe
  <2> QED BY <1>3, <1>5, <1>13, <2>1 DEF Subscribe
<1>14. CASE SocketBreaks
  BY <1>4, <1>5, <1>6, <1>14 DEF SocketBreaks
<1>15. CASE Forward
  <2>1. ws.scan \in Scans /\ active.scan \in Scans /\ ws.queue \in Seq(Messages) /\ ws.queue /= <<>>
    BY <1>2, <1>15 DEF Forward, SocketSound
  <2>2. Head(ws.queue) \in Messages
    BY <2>1
  <2>3. CASE Head(ws.queue) = "step"
    <3>1. ws' = [ws EXCEPT !.queue = Tail(ws.queue)] /\ UNCHANGED loads
      BY <1>15, <2>3 DEF Forward
    <3>2. ws'.scan = ws.scan /\ ws'.queue = Tail(ws.queue)
      BY <1>2, <3>1
    <3>3. \A i \in 1 .. Len(ws'.queue) : i + 1 \in 1 .. Len(ws.queue) /\ ws'.queue[i] = ws.queue[i + 1]
      BY <2>1, <3>2
    <3>4. EventsTrue'
      BY <1>1, <3>2, <3>3 DEF EventsTrue
    <3> QED BY <1>5, <3>1, <3>4
  <2>4. CASE Head(ws.queue) = "node_done"
    <3>1. ws' = NoSocket /\ UNCHANGED loads
      BY <1>15, <2>4 DEF Forward
    <3> QED BY <1>4, <1>5, <1>6, <3>1
  <2>5. CASE Head(ws.queue) = "system"
    <3>1. /\ ws' = NoSocket
          /\ loads' = loads \cup {Load(ws.scan, "event")}
                            \cup EffectLoads(active.scan, "completed", shown)
      BY <1>15, <2>5 DEF Forward
    <3>2. ws.scan \in stored
      <4>1. 1 \in 1 .. Len(ws.queue) /\ ws.queue[1] = "system"
        BY <2>1, <2>5
      <4> QED BY <4>1 DEF EventsTrue
    <3>3. Load(ws.scan, "event").scan = ws.scan /\ Load(ws.scan, "event").rows /= "empty"
      BY DEF Load
    <3>4. EventLoads'
      BY <1>1, <1>8, <2>1, <3>1, <3>2, <3>3 DEF EventLoads
    <3> QED BY <1>4, <1>6, <3>1, <3>4
  <2> QED BY <2>2, <2>3, <2>4, <2>5 DEF Messages
<1>16. ASSUME NEW s \in Scans, PollStep(s) PROVE EventsTrue' /\ EventLoads'
  <2>1. \A l \in loads' : l \in loads \/ l.by /= "event"
    BY <1>7, <1>8, <1>16 DEF PollStep, OnClose, Poll, PollGivesUp
  <2> QED BY <1>3, <1>5, <1>16, <2>1 DEF PollStep, OnClose, Poll, PollGivesUp
<1>17. ASSUME NEW l \in loads, LoadStep(l) PROVE EventsTrue' /\ EventLoads'
  <2>1. EventsTrue'
    BY <1>3, <1>17 DEF LoadStep, ReadFindings, Display, LoadFails
  <2>2. CASE ReadFindings(l)
    <3> DEFINE rows == IF l.scan \in stored THEN "found" ELSE "empty"
               m == [l EXCEPT !.rows = rows]
    <3>1. l \in Loads
      BY DEF TypeOK
    <3>2. m.by = l.by /\ m.scan = l.scan /\ m.rows = rows
      BY <3>1 DEF Loads
    <3>3. loads' = (loads \ {l}) \cup {m}
      BY <2>2 DEF ReadFindings
    <3>4. m.by = "event" => m.scan \in stored /\ m.rows /= "empty"
      BY <3>2 DEF EventLoads
    <3> HIDE DEF m
    <3> QED BY <1>1, <2>1, <3>3, <3>4 DEF EventLoads
  <2>3. CASE Display(l) \/ LoadFails(l)
    BY <1>5, <2>1, <2>3 DEF Display, LoadFails
  <2> QED BY <1>17, <2>2, <2>3 DEF LoadStep
<1>18. CASE ListScans \/ UNCHANGED vars
  BY <1>3, <1>5, <1>18 DEF ListScans, vars, traffic
<1> QED BY <1>9, <1>11, <1>12, <1>13, <1>14, <1>15, <1>16, <1>17, <1>18, StepCases

LEMMA EventsInit == Init => EventsTrue /\ EventLoads
BY DEF Init, NoSocket, EventsTrue, EventLoads

\* The terminal event is published after every commit, so what it makes the
\* page load is never found empty, however late the server answers.
THEOREM EventLoadsWhole == Spec => []EventLoadsAreWhole
<1>1. EventLoads => EventLoadsAreWhole
  BY DEF EventLoads, EventLoadsAreWhole
<1> QED BY <1>1, SocketInit, TypeStep, EventsInit, EventsStep, PTL DEF Spec

-----------------------------------------------------------------------------
(* Final statuses on the page                                              *)

\* A failure shown is the failure of the scan shown; a completion shown is
\* that of some scan, the terminal event's.
ActiveTrue ==
    /\ active.status \in Final => active.scan \in Scans
    /\ active.status = "failed" => status[active.scan] = "failed"
    /\ active.status = "completed" => \E s \in Scans : status[s] = "completed"

LEMMA ActiveStep ==
    TypeOK /\ SocketSound /\ Committed /\ KnownTrue /\ EventsTrue /\ ActiveTrue /\ [Next]_vars
        => ActiveTrue'
<1> SUFFICES ASSUME TypeOK, SocketSound, Committed, KnownTrue, EventsTrue, ActiveTrue, [Next]_vars
             PROVE  ActiveTrue'
  OBVIOUS
<1>1. \A s \in Scans : status[s] \in Final => status'[s] = status[s]
  BY FinalStays
<1>2. ASSUME UNCHANGED active PROVE ActiveTrue'
  BY <1>1, <1>2 DEF ActiveTrue, Final
<1>3. ASSUME NEW s \in Scans, NEW st, active' = [scan |-> s, status |-> st],
             st \in Final => status[s] = st
      PROVE  ActiveTrue'
  BY <1>1, <1>3 DEF ActiveTrue, Final
<1>4. ASSUME NEW s \in Scans, Worker(s) PROVE ActiveTrue'
  BY <1>2, <1>4, WorkerTyped
<1>5. CASE Mount
  <2>1. ASSUME NEW s \in Scans, Show(s, known[s], shown) PROVE ActiveTrue'
    BY <1>3, <2>1 DEF Show, KnownTrue
  <2> QED BY <1>2, <1>5, <2>1, MountShows
<1>6. ASSUME NEW s \in Scans, Serve(s) PROVE ActiveTrue'
  <2>1. CASE StartScan(s)
    BY <1>3, <2>1 DEF StartScan, Show, Final
  <2>2. CASE SwitchScan(s)
    BY <1>3, <2>2 DEF SwitchScan, KnownTrue
  <2> QED BY <1>6, <2>1, <2>2 DEF Serve
<1>7. CASE Forward
  <2>1. ws.scan \in Scans /\ active.scan \in Scans /\ ws.queue \in Seq(Messages) /\ ws.queue /= <<>>
    BY <1>7 DEF Forward, SocketSound, TypeOK
  <2>2. Head(ws.queue) \in Messages
    BY <2>1
  <2>3. CASE Head(ws.queue) = "system"
    <3>1. active' = [active EXCEPT !.status = "completed"]
      BY <1>7, <2>3 DEF Forward
    <3>2. active'.scan = active.scan /\ active'.status = "completed"
      BY <3>1 DEF TypeOK
    <3>3. ws.scan \in stored
      <4>1. 1 \in 1 .. Len(ws.queue) /\ ws.queue[1] = "system"
        BY <2>1, <2>3
      <4> QED BY <4>1 DEF EventsTrue
    <3>4. status'[ws.scan] = "completed"
      BY <1>1, <2>1, <3>3 DEF Committed, Final
    <3> QED BY <2>1, <3>2, <3>4 DEF ActiveTrue
  <2>4. CASE Head(ws.queue) /= "system"
    BY <1>2, <1>7, <2>2, <2>4 DEF Forward, Messages
  <2> QED BY <2>3, <2>4
<1>8. ASSUME NEW s \in Scans, Poll(s) PROVE ActiveTrue'
  BY <1>3, <1>8 DEF Poll
<1>9. CASE UNCHANGED active
  BY <1>2, <1>9
<1> QED BY <1>4, <1>5, <1>6, <1>7, <1>8, <1>9, StepCases DEF ListScans, Subscribe, SocketBreaks,
           PollStep, OnClose, PollGivesUp, LoadStep, ReadFindings, Display, LoadFails, view, vars

LEMMA ActiveAlways == Spec => [](TypeOK /\ ActiveTrue)
<1>1. Init => Committed /\ KnownTrue /\ ActiveTrue
  BY DEF Init, Committed, KnownTrue, ActiveTrue, Final
<1> QED BY <1>1, SocketInit, EventsInit, TypeStep, CommittedStep, KnownStep, EventsStep, ActiveStep,
           PTL DEF Spec

\* A failure on the page is the failure of the scan it shows, for any number
\* of scans: only a completion can be another scan's.
THEOREM FailedIsTrue == Spec => [](active.status = "failed" => status[active.scan] = "failed")
<1>1. ActiveTrue => (active.status = "failed" => status[active.scan] = "failed")
  BY DEF ActiveTrue
<1> QED BY <1>1, ActiveAlways, PTL

\* With one scan, any final status on the page is the scan's.
THEOREM FinalStatusTrue ==
    ASSUME MaxScans = 1
    PROVE  Spec => []FinalStatusIsTrue
<1>1. TypeOK /\ ActiveTrue => FinalStatusIsTrue
  <2>1. \A s, z \in Scans : s = z
    BY DEF Scans
  <2> QED BY <2>1 DEF ActiveTrue, FinalStatusIsTrue, Final
<1> QED BY <1>1, ActiveAlways, PTL
=============================================================================
