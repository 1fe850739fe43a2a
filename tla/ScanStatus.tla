----------------------------- MODULE ScanStatus -----------------------------
(***************************************************************************)
(* What the platform promises about a scan, whatever happens in the        *)
(* workers: its status column walks from pending through running to one    *)
(* of completed and failed, a scan is announced only once it has           *)
(* completed, and a scan that is gone (its target was deleted) never       *)
(* comes back.  When the broker may deliver a task twice (MayRerun) the    *)
(* walk may start again at running, but never at pending.                  *)
(***************************************************************************)
CONSTANTS Scans,     \* scan ids
          MayRerun   \* may a task message be delivered more than once?

VARIABLES status,    \* the status column; "none" before there is a row
          told       \* scans whose terminal system event was published

vars == <<status, told>>

Init == /\ status = [s \in Scans |-> "none"]
        /\ told = {}

Begun == {"running", "completed", "failed"}

Move(s, from, to) == /\ status[s] \in from
                     /\ status' = [status EXCEPT ![s] = to]
                     /\ UNCHANGED told

Submit(s) == Move(s, {"none"}, "pending")

Begin(s) == Move(s, IF MayRerun THEN Begun \cup {"pending"} ELSE {"pending"}, "running")

Finish(s) == \E outcome \in {"completed", "failed"} :
                Move(s, IF MayRerun THEN Begun ELSE {"running"}, outcome)

Announce(s) == /\ status[s] \in (IF MayRerun THEN Begun ELSE {"completed"}) \cup {"deleted"}
               /\ told' = told \cup {s}
               /\ UNCHANGED status

\* The target row is deleted, and the database cascades to its scans.
Vanish == /\ status' = [s \in Scans |-> IF status[s] = "none" THEN "none" ELSE "deleted"]
          /\ UNCHANGED told

Next == \/ Vanish
        \/ \E s \in Scans : Submit(s) \/ Begin(s) \/ Finish(s) \/ Announce(s)

Spec == Init /\ [][Next]_vars
=============================================================================
