----------------------------- MODULE RiskScore ------------------------------
(***************************************************************************)
(* compute_srs at work: some caller (agent_worker, update_finding or       *)
(* validate_finding) calls it with any ratings, which nobody checks before *)
(* (an LLM's risk_score may be negative or above 100), and stores what it  *)
(* returns.                                                                *)
(***************************************************************************)
EXTENDS SrsScoring

CONSTANT Ratings    \* exploitability and asset criticality, any integers

ASSUME RatingsAssumption == Ratings \subseteq Int

VARIABLES call,     \* the arguments
          score       \* what was returned; -1 before

callVars == <<call, score>>

Calls == [severity : Severities, exploitability : Ratings, asset : Ratings,
          status : FindingStatuses]

Result(c) == ComputeSrs(c.severity, c.exploitability, c.asset, c.status)

CallInit == call \in Calls /\ score = -1

Return == score = -1 /\ score' \in Result(call) /\ UNCHANGED call

CallNext == Return

CallSpec == CallInit /\ [][CallNext]_callVars

Returned == score /= -1

Dismissed == call.status = "false_positive"

\* "Security Risk Score (0-100)": whatever the ratings are.
ScoreInRange == score \in -1 .. 100

\* The returned integer is nearest to the weighted sum of the docstring,
\* 40, 30, 20 and 10 percent of ratings cut to 0..100, and 0 for a false
\* positive.
Cut(n) == CHOOSE m \in 0 .. 100 : \A k \in 0 .. 100 :
              (n - m) * (n - m) <= (n - k) * (n - k)

WeightedSum(c) == 40 * SeverityPoints(c.severity) + 30 * Cut(c.exploitability)
                      + 20 * Cut(c.asset) + 10 * ConfidencePoints(c.status)

ScoreIsNearest ==
    Returned => IF Dismissed THEN score = 0
                ELSE score * 100 - WeightedSum(call) \in -50 .. 50

SeverityRank == [info |-> 0, low |-> 1, medium |-> 2, high |-> 3, critical |-> 4]

\* A worse severity always outweighs a rounding error: the same call with a
\* worse severity cannot return the same score or a lower one.
SeverityRaises ==
    Returned /\ ~Dismissed =>
        \A worse \in Severities : SeverityRank[worse] > SeverityRank[call.severity] =>
            \A other \in Result([call EXCEPT !.severity = worse]) : other > score

\* Confirming an open finding raises its score.
ConfirmingRaises ==
    Returned /\ call.status = "open" =>
        \A other \in Result([call EXCEPT !.status = "confirmed"]) : other > score

\* Higher ratings never lower the score, although each call rounds its own
\* floating point sum.
RatingsNeverLower ==
    Returned => \A e, a \in Ratings :
        e >= call.exploitability /\ a >= call.asset =>
            \A other \in Result([call EXCEPT !.exploitability = e, !.asset = a]) :
                \/ other >= score
                \/ Clamp(e) = Clamp(call.exploitability) /\ Clamp(a) = Clamp(call.asset)
=============================================================================
