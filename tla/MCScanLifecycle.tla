-------------------------- MODULE MCScanLifecycle ---------------------------
(***************************************************************************)
(* Small instances of ScanLifecycle for TLC.                               *)
(***************************************************************************)
EXTENDS ScanLifecycle

CONSTANTS s1, s2, p1, p2, none

AllTasks == {"run_agent_task", "ship_to_siem"}
=============================================================================
