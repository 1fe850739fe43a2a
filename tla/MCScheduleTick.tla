--------------------------- MODULE MCScheduleTick ---------------------------
(***************************************************************************)
(* Small instances of ScheduleTick for TLC.                                *)
(***************************************************************************)
EXTENDS ScheduleTick

CONSTANTS a, b, p1, p2, p3
=============================================================================
