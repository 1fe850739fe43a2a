-------------------------- MODULE MCFindingReview ---------------------------
(***************************************************************************)
(* Small instances of FindingReview for TLC: two requests at a time, on a  *)
(* finding that goes to the LLM or on one that the rules dismiss, while    *)
(* the criticality of the target changes.                                  *)
(***************************************************************************)
EXTENDS FindingReview, TLC

CONSTANTS c1, c2, none

RaceRisks == {90}
RaceTypes == {"web"}
RaceAssets == {50, 100}

RaceFacts == {[severity |-> severity, risk |-> 0, missingHeader |-> FALSE,
               noiseTitle |-> FALSE, shortText |-> FALSE] : severity \in {"high", "info"}}

Symmetric == Permutations(Clients)
=============================================================================
