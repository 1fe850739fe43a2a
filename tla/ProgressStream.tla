--------------------------- MODULE ProgressStream ---------------------------
(***************************************************************************)
(* Watching scans in the browser.                                          *)
(*                                                                         *)
(*   backend/agents/runtime.py, workers/agent_worker.py  publish progress  *)
(*       events and, after the last commit, the terminal system event      *)
(*   backend/api/v1/agent_scans.py  agent_scan_ws subscribes to the scan's *)
(*       Redis channel and forwards what it hears; the list, status and    *)
(*       findings requests read the database                               *)
(*   frontend/app/(dashboard)/agent-scans/page.tsx  one open page: the     *)
(*       scan it shows, its socket, its polling loops and its loads        *)
(*                                                                         *)
(* Redis pub/sub keeps nothing: an event reaches the sockets subscribed at *)
(* that moment.  The worker appears as the order of its commits and events *)
(* (ScanLifecycle has the rest), and every completed scan found something. *)
(* Scans are numbered in the order of their creation.  A status poll is    *)
(* one step; loading the findings is a request and an answer.              *)
(***************************************************************************)
EXTENDS Integers, Sequences

CONSTANTS
    MaxScans,   \* bound on the scans created
    MaxEvents,  \* bound on the progress events of a scan
    MaxClicks,  \* bound on the scans chosen in the dropdown
    MaxLoops,   \* bound on the polling loops of a scan
    Failures    \* BOOLEAN: can events, requests and sockets get lost?

ASSUME BoundsAssumption ==
    MaxScans \in Nat /\ MaxEvents \in Nat /\ MaxClicks \in Nat /\ MaxLoops \in Nat
ASSUME FailuresAssumption == Failures \in BOOLEAN

Scans == 1 .. MaxScans
None == 0

VARIABLES
    status,     \* scan_jobs.status, "none" before the scan is created
    stored,     \* scans whose findings are committed
    told,       \* scans whose terminal event was published or lost
    events,     \* progress events published so far, per scan
    page,       \* "loading", "listed" (answer on its way), "ready"
    known,      \* allScans: scan statuses as the page last fetched them
    active,     \* activeScan: a scan and its status
    shown,      \* the scan whose findings are displayed, or None
    ws,         \* wsRef.current with the events on their way to it
    closing,    \* sockets of a scan whose onclose has not fired yet
    polls,      \* pollUntilDone loops of a scan
    loads,      \* loadFindings under way
    clicks,     \* dropdown choices made
    gaveUp      \* scans one of whose polling loops gave up (history)

server  == <<status, stored, told, events>>
view    == <<page, known, active, shown>>
traffic == <<ws, closing, polls, loads>>
counted == <<clicks, gaveUp>>
vars    == <<server, view, traffic, counted>>

Final == {"completed", "failed"}
Unfinished == {"pending", "running"}
Statuses == {"none"} \cup Unfinished \cup Final

NoSocket == [scan |-> None, pc |-> "closed", queue |-> <<>>]

Messages == {"step", "node_done", "system"}

\* by: what made the page load; rows: what the server answered.
Loads == [scan : Scans, by : {"event", "view"}, rows : {"asked", "empty", "found"}]

TypeOK ==
    /\ status \in [Scans -> Statuses]
    /\ stored \subseteq Scans /\ told \subseteq Scans
    /\ events \in [Scans -> 0 .. MaxEvents]
    /\ page \in {"loading", "listed", "ready"}
    /\ known \in [Scans -> Statuses]
    /\ active \in [scan : Scans \cup {None}, status : Statuses]
    /\ shown \in Scans \cup {None}
    /\ ws \in [scan : Scans \cup {None}, pc : {"closed", "connecting", "open"},
               queue : Seq(Messages)]
    /\ closing \in [Scans -> 0 .. MaxLoops]
    /\ polls \in [Scans -> 0 .. MaxLoops]
    /\ loads \subseteq Loads
    /\ clicks \in 0 .. MaxClicks
    /\ gaveUp \subseteq Scans

Init ==
    /\ \E n \in 0 .. MaxScans : status = [s \in Scans |-> IF s <= n THEN "pending" ELSE "none"]
    /\ stored = {} /\ told = {}
    /\ events = [s \in Scans |-> 0]
    /\ page = "loading"
    /\ known = [s \in Scans |-> "none"]
    /\ active = [scan |-> None, status |-> "none"]
    /\ shown = None
    /\ ws = NoSocket
    /\ closing = [s \in Scans |-> 0]
    /\ polls = [s \in Scans |-> 0]
    /\ loads = {}
    /\ clicks = 0
    /\ gaveUp = {}

-----------------------------------------------------------------------------
(* The worker                                                              *)

\* PUBLISH scan:<id>: to a subscribed socket, or to nobody.  A Redis error
\* is swallowed.
Publish(s, m) ==
    \/ ws' = IF ws.scan = s /\ ws.pc = "open" THEN [ws EXCEPT !.queue = Append(@, m)] ELSE ws
    \/ Failures /\ UNCHANGED ws

Commit(s, from, to) ==
    /\ status[s] = from
    /\ status' = [status EXCEPT ![s] = to]
    /\ UNCHANGED <<stored, told, events, view, traffic, counted>>

\* run_agent_scan: a progress event of a node, whose own status is often
\* "completed".
NodeEvent(s) ==
    /\ status[s] = "running"
    /\ events[s] < MaxEvents
    /\ events' = [events EXCEPT ![s] = @ + 1]
    /\ \E m \in {"step", "node_done"} : Publish(s, m)
    /\ UNCHANGED <<status, stored, told, view, closing, polls, loads, counted>>

\* The commit of the findings, after that of the status.
StoreFindings(s) ==
    /\ status[s] = "completed"
    /\ stored' = stored \cup {s}
    /\ UNCHANGED <<status, told, events, view, traffic, counted>>

\* Mutant: the terminal event is published right after the status.
Announce_Early(s) ==
    /\ status[s] = "completed"
    /\ s \notin told
    /\ told' = told \cup {s}
    /\ Publish(s, "system")
    /\ UNCHANGED <<status, stored, events, view, closing, polls, loads, counted>>

\* The terminal event, after all commits; a failed scan has none.
Announce(s) ==
    /\ s \in stored \ told
    /\ told' = told \cup {s}
    /\ Publish(s, "system")
    /\ UNCHANGED <<status, stored, events, view, closing, polls, loads, counted>>

Worker(s) ==
    \/ Commit(s, "pending", "running") \/ Commit(s, "running", "completed")
    \/ Commit(s, "running", "failed") \/ NodeEvent(s) \/ StoreFindings(s) \/ Announce(s)

-----------------------------------------------------------------------------
(* Parts of the page                                                       *)

Load(s, by) == [scan |-> s, by |-> by, rows |-> "asked"]

\* The effect on activeScan.status: entering "completed" with no findings
\* displayed loads them.
EffectLoads(s, st, displayed) ==
    IF st = "completed" /\ active.status /= "completed" /\ displayed = None
    THEN {Load(s, "view")} ELSE {}

\* wsRef.current.close(): the onclose callback will fire.
CloseSocket == [s \in Scans |-> IF ws.pc /= "closed" /\ ws.scan = s /\ closing[s] < MaxLoops
                                THEN closing[s] + 1 ELSE closing[s]]

\* openWebSocket: a new socket.
Connecting(s) == [scan |-> s, pc |-> "connecting", queue |-> <<>>]

\* Show scan s, last seen with status st: load its findings or watch it.
Show(s, st, displayed) ==
    /\ active' = [scan |-> s, status |-> st]
    /\ shown' = displayed
    /\ loads' = loads \cup EffectLoads(s, st, displayed)
                      \cup IF st = "completed" THEN {Load(s, "view")} ELSE {}
    /\ ws' = IF st \in Unfinished THEN Connecting(s) ELSE ws

-----------------------------------------------------------------------------
(* The page: mounting, starting and choosing scans                         *)

\* listAgentScans, on the server.
ListScans ==
    /\ page = "loading"
    /\ page' = "listed"
    /\ known' = status
    /\ UNCHANGED <<server, active, shown, traffic, counted>>

\* Its answer: show the latest completed scan, or the latest one.  The
\* callback sees the activeScan of the first render, which is null.
Mount ==
    LET listed == {s \in Scans : known[s] /= "none"}
        done   == {s \in listed : known[s] = "completed"}
        latest(S) == CHOOSE s \in S : \A t \in S : t <= s
    IN
    /\ page = "listed"
    /\ page' = "ready"
    /\ IF listed = {}
       THEN UNCHANGED <<active, shown, ws, closing, loads>>
       ELSE LET s == latest(IF done = {} THEN listed ELSE done) IN
            /\ Show(s, known[s], shown)
            /\ closing' = IF known[s] \in Unfinished THEN CloseSocket ELSE closing
    /\ UNCHANGED <<server, known, polls, counted>>

\* startScan: POST /agent-scans, then watch the new scan; as one step.
StartScan(s) ==
    /\ page = "ready"
    /\ status[s] = "none"
    /\ \A t \in Scans : t < s => status[t] /= "none"
    /\ status' = [status EXCEPT ![s] = "pending"]
    /\ known' = [known EXCEPT ![s] = "pending"]
    /\ Show(s, "pending", None)
    /\ closing' = CloseSocket
    /\ UNCHANGED <<stored, told, events, page, polls, counted>>

\* switchScan: the status is the one fetched with the list.
SwitchScan(s) ==
    /\ page = "ready"
    /\ clicks < MaxClicks
    /\ clicks' = clicks + 1
    /\ known[s] /= "none"
    /\ closing' = CloseSocket
    /\ active' = [scan |-> s, status |-> known[s]]
    /\ shown' = None
    /\ loads' = loads \cup IF known[s] = "completed" THEN {Load(s, "view")} ELSE {}
    /\ ws' = IF known[s] \in Unfinished THEN Connecting(s) ELSE NoSocket
    /\ UNCHANGED <<server, page, known, polls, gaveUp>>

-----------------------------------------------------------------------------
(* The socket                                                              *)

\* agent_scan_ws has checked the scan and subscribed to its channel.
Subscribe ==
    /\ ws.pc = "connecting"
    /\ ws' = [ws EXCEPT !.pc = "open"]
    /\ UNCHANGED <<server, view, closing, polls, loads, counted>>

\* The connection is refused or breaks.
SocketBreaks ==
    /\ Failures
    /\ ws.pc /= "closed"
    /\ ws' = NoSocket
    /\ closing' = CloseSocket
    /\ UNCHANGED <<server, view, polls, loads, counted>>

\* Mutant: the page takes any completed event for the terminal one.
Forward_TrustsNode ==
    /\ ws.pc = "open"
    /\ ws.queue /= <<>>
    /\ IF Head(ws.queue) = "step"
       THEN /\ ws' = [ws EXCEPT !.queue = Tail(@)]
            /\ UNCHANGED <<active, closing, loads>>
       ELSE /\ ws' = NoSocket
            /\ closing' = CloseSocket
            /\ active' = [active EXCEPT !.status = "completed"]
            /\ loads' = loads \cup {Load(ws.scan, "view")}
    /\ UNCHANGED <<server, page, known, shown, polls, counted>>

\* Mutant: the page takes the status of the active scan from any event.
Forward_AnyStatus ==
    /\ ws.pc = "open"
    /\ ws.queue /= <<>>
    /\ ws' = [ws EXCEPT !.queue = Tail(@)]
    /\ active' = [active EXCEPT !.status = Head(ws.queue)]
    /\ UNCHANGED <<server, page, known, shown, closing, polls, loads, counted>>

\* The server forwards an event.  It ends the stream after any event with
\* status completed or failed, a node's as well as the terminal one.  The
\* page takes the terminal event for the active scan, whichever that is.
Forward ==
    /\ ws.pc = "open"
    /\ ws.queue /= <<>>
    /\ CASE Head(ws.queue) = "step" ->
              /\ ws' = [ws EXCEPT !.queue = Tail(@)]
              /\ UNCHANGED <<active, closing, loads>>
         [] Head(ws.queue) = "node_done" ->
              /\ ws' = NoSocket
              /\ closing' = CloseSocket
              /\ UNCHANGED <<active, loads>>
         [] Head(ws.queue) = "system" ->
              /\ ws' = NoSocket
              /\ closing' = CloseSocket
              /\ active' = [active EXCEPT !.status = "completed"]
              /\ loads' = loads \cup {Load(ws.scan, "event")}
                                \cup EffectLoads(active.scan, "completed", shown)
    /\ UNCHANGED <<server, page, known, shown, polls, counted>>

\* onclose: poll until the scan is done.
OnClose(s) ==
    /\ closing[s] > 0
    /\ closing' = [closing EXCEPT ![s] = @ - 1]
    /\ polls' = [polls EXCEPT ![s] = IF @ < MaxLoops THEN @ + 1 ELSE @]
    /\ UNCHANGED <<server, view, ws, loads, counted>>

-----------------------------------------------------------------------------
(* Polling and loading                                                     *)

\* Mutant: the loop ends after its first answer.
Poll_Once(s) ==
    /\ polls[s] > 0
    /\ active' = [scan |-> s, status |-> status[s]]
    /\ loads' = loads \cup EffectLoads(s, status[s], shown)
                      \cup IF status[s] = "completed" THEN {Load(s, "view")} ELSE {}
    /\ polls' = [polls EXCEPT ![s] = @ - 1]
    /\ UNCHANGED <<server, page, known, shown, ws, closing, counted>>

\* One round of pollUntilDone: getAgentScan makes s the active scan.
Poll(s) ==
    /\ polls[s] > 0
    /\ active' = [scan |-> s, status |-> status[s]]
    /\ loads' = loads \cup EffectLoads(s, status[s], shown)
                      \cup IF status[s] = "completed" THEN {Load(s, "view")} ELSE {}
    /\ polls' = IF status[s] \in Final THEN [polls EXCEPT ![s] = @ - 1] ELSE polls
    /\ UNCHANGED <<server, page, known, shown, ws, closing, counted>>

\* A request fails, or 600 rounds are over.
PollGivesUp(s) ==
    /\ Failures
    /\ polls[s] > 0
    /\ polls' = [polls EXCEPT ![s] = @ - 1]
    /\ gaveUp' = gaveUp \cup {s}
    /\ UNCHANGED <<server, view, ws, closing, loads, clicks>>

\* get_agent_scan_findings, on the server.
ReadFindings(l) ==
    /\ l.rows = "asked"
    /\ loads' = (loads \ {l}) \cup
                {[l EXCEPT !.rows = IF l.scan \in stored THEN "found" ELSE "empty"]}
    /\ UNCHANGED <<server, view, ws, closing, polls, counted>>

\* setFindings with the answer, whatever is active by then.
Display(l) ==
    /\ l.rows /= "asked"
    /\ shown' = IF l.rows = "found" THEN l.scan ELSE None
    /\ loads' = loads \ {l}
    /\ UNCHANGED <<server, page, known, active, ws, closing, polls, counted>>

LoadFails(l) ==
    /\ Failures
    /\ loads' = loads \ {l}
    /\ UNCHANGED <<server, view, ws, closing, polls, counted>>

-----------------------------------------------------------------------------
Socket == Subscribe \/ Forward

Loading == \E l \in loads : ReadFindings(l) \/ Display(l)

Next ==
    \/ \E s \in Scans : Worker(s)
    \/ ListScans \/ Mount
    \/ \E s \in Scans : StartScan(s) \/ SwitchScan(s)
    \/ Socket \/ SocketBreaks
    \/ \E s \in Scans : OnClose(s) \/ Poll(s) \/ PollGivesUp(s)
    \/ Loading
    \/ \E l \in loads : LoadFails(l)

Spec == Init /\ [][Next]_vars

(***************************************************************************)
(* Everything but the user goes on: scans end, the server forwards what it *)
(* has, the browser fires its timers and callbacks.                        *)
(***************************************************************************)
FairSpec ==
    /\ Spec
    /\ \A s \in Scans : WF_vars(Worker(s)) /\ WF_vars(OnClose(s)) /\ WF_vars(Poll(s))
    /\ WF_vars(ListScans) /\ WF_vars(Mount) /\ WF_vars(Socket) /\ WF_vars(Loading)

-----------------------------------------------------------------------------
(* Properties                                                              *)

\* The findings a terminal event makes the page load are there: the event
\* is published after all commits, so this load never comes back empty.
EventLoadsAreWhole == \A l \in loads : l.by = "event" => l.rows /= "empty"

\* With one scan, a final status on the page is the one in the database, by
\* whichever of the list, the socket and the polls it came.
FinalStatusIsTrue ==
    active.status \in Final => status[active.scan] = active.status

\* A page that lost its socket learns from its polls how the scan ended,
\* although events and sockets get lost, unless a loop gives up.
PollsLearnTheEnd ==
    \A s \in Scans : polls[s] > 0 ~> active.status \in Final \/ s \in gaveUp
=============================================================================
