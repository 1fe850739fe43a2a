----------------------------- MODULE SrsScoring -----------------------------
(***************************************************************************)
(* The two pure functions every finding passes through                     *)
(* (backend/scoring): compute_srs, the Security Risk Score, and            *)
(* classify_finding, the rule-based false-positive filter.                 *)
(*                                                                         *)
(* compute_srs adds 0.40, 0.30, 0.20 and 0.10 of four integers in binary   *)
(* floating point and rounds to the nearest integer.  The sum is kept here *)
(* in tenths, which are integers.  When the tenths end in 5 the float sum  *)
(* may fall on either side of the half (0.30 and 0.20 have no exact binary *)
(* form), so the score is one of the two neighbours.                       *)
(***************************************************************************)
EXTENDS Integers

Severities == {"critical", "high", "medium", "low", "info"}

FindingStatuses == {"open", "confirmed", "false_positive", "fixed"}

\* _SEVERITY_MAP.get(severity.lower(), 0)
SeverityPoints(severity) ==
    CASE severity = "critical" -> 100
      [] severity = "high"     -> 75
      [] severity = "medium"   -> 50
      [] severity = "low"      -> 25
      [] OTHER                 -> 0

\* _CONFIDENCE_MAP.get(status, 50): "fixed" and unknown statuses count as open.
ConfidencePoints(status) ==
    CASE status = "confirmed"      -> 100
      [] status = "false_positive" -> 0
      [] OTHER                     -> 50

\* Mutant: a rating outside the range counts as none.
Clamp_Drops(n) == IF n \in 0 .. 100 THEN n ELSE 0

\* max(0, min(100, n))
Clamp(n) == IF n > 100 THEN 100 ELSE IF n < 0 THEN 0 ELSE n

\* The weighted sum, in tenths of a point.
ScoreTenths(severity, exploitability, asset, status) ==
      4 * SeverityPoints(severity) + 3 * Clamp(exploitability)
    + 2 * Clamp(asset) + ConfidencePoints(status)

\* Mutant: int() instead of round().
RoundTenths_Truncates(t) == {t \div 10}

\* What round() can return for a float sum within rounding error of t tenths.
RoundTenths(t) ==
    LET whole == t \div 10
        rest  == t % 10
    IN  CASE rest < 5 -> {whole}
          [] rest > 5 -> {whole + 1}
          [] OTHER    -> {whole, whole + 1}

\* The scores compute_srs can return.
ComputeSrs(severity, exploitability, asset, status) ==
    IF status = "false_positive"
    THEN {0}
    ELSE RoundTenths(ScoreTenths(severity, exploitability, asset, status))

(***************************************************************************)
(* A scanner's finding as classify_finding looks at it: the severity, the  *)
(* risk score the scanner gave, and three tests on its text.               *)
(***************************************************************************)
ScannerFinding(RiskScores) ==
    [severity : Severities, risk : RiskScores,
     missingHeader : BOOLEAN, noiseTitle : BOOLEAN, shortText : BOOLEAN]

\* classify_finding returns "false_positive": one of its five rules fires.
ClassifiedNoise(fd, targetType) ==
    \/ fd.severity = "info"
    \/ fd.missingHeader /\ targetType \notin {"web", "api"}
    \/ fd.noiseTitle
    \/ fd.risk = 0 /\ fd.severity \in {"low", "info"}
    \/ fd.shortText
=============================================================================
