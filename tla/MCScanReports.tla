--------------------------- MODULE MCScanReports ----------------------------
(***************************************************************************)
(* Small instances of ScanReports for TLC: two findings, one that a        *)
(* control of its own matches, both matched by another control.            *)
(***************************************************************************)
EXTENDS ScanReports

CONSTANTS s1, s2, p1, p2, r1, f1, f2, none

\* celery -A workers.agent_worker.celery_app worker imports agent_worker only.
ProdTasks == {"run_agent_task"}

MCControls == {{f1}, {f1, f2}, {}}
=============================================================================
