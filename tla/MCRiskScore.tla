---------------------------- MODULE MCRiskScore -----------------------------
(***************************************************************************)
(* RiskScore for TLC: ratings below, on, inside and above the limits, with *)
(* odd ones for the sums that end in a half.                               *)
(***************************************************************************)
EXTENDS RiskScore

MCRatings == {-5, 0, 1, 5, 33, 50, 75, 99, 100, 130}
=============================================================================
