--------------------------- MODULE MCScannerJobs ----------------------------
(***************************************************************************)
(* Small instances of ScannerJobs for TLC.                                 *)
(***************************************************************************)
EXTENDS ScannerJobs

CONSTANTS j1, p1, p2, p3, u1, u2, none
=============================================================================
