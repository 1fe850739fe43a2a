------------------------- MODULE FindingReviewProofs ------------------------
(***************************************************************************)
(* The score of a finding and the requests that change it.  First what     *)
(* compute_srs and its parts return, for any integers as ratings, and what *)
(* this means for RiskScore; then the requests of FindingReview, for any   *)
(* number of clients.                                                      *)
(***************************************************************************)
EXTENDS FindingReview, RiskScore, TLAPS

-----------------------------------------------------------------------------
(* compute_srs                                                             *)

\* A rating counts as a number from 0 to 100.
LEMMA ClampRange == ASSUME NEW n \in Int PROVE Clamp(n) \in 0 .. 100
  BY DEF Clamp

\* Clamping keeps the order of ratings.
LEMMA ClampMonotone ==
  ASSUME NEW m \in Int, NEW n \in Int, m <= n PROVE Clamp(m) <= Clamp(n)
  BY DEF Clamp

\* The two maps give numbers from 0 to 100.
LEMMA PointsRange ==
  ASSUME NEW severity, NEW status
  PROVE  /\ SeverityPoints(severity) \in {0, 25, 50, 75, 100}
         /\ ConfidencePoints(status) \in {0, 50, 100}
  BY DEF SeverityPoints, ConfidencePoints

\* The sum is a number of tenths from 0 to 1000.
LEMMA TenthsRange ==
  ASSUME NEW severity, NEW status, NEW e \in Int, NEW a \in Int
  PROVE  ScoreTenths(severity, e, a, status) \in 0 .. 1000
<1> DEFINE sev == SeverityPoints(severity)
           conf == ConfidencePoints(status)
<1>1. /\ sev \in Int /\ 0 <= sev /\ sev <= 100
      /\ conf \in Int /\ 0 <= conf /\ conf <= 100
  BY PointsRange
<1> DEFINE ce == Clamp(e)
           ca == Clamp(a)
<1>2. /\ ce \in Int /\ 0 <= ce /\ ce <= 100
      /\ ca \in Int /\ 0 <= ca /\ ca <= 100
  BY ClampRange
<1> HIDE DEF sev, conf, ce, ca
<1>3. 4 * sev + 3 * ce + 2 * ca + conf \in 0 .. 1000
  BY <1>1, <1>2
<1>4. QED
  BY <1>3 DEF ScoreTenths, sev, conf, ce, ca

\* Rounding tenths gives a neighbour, at most half a point away.
LEMMA RoundNearest ==
  ASSUME NEW t \in Nat, NEW x \in RoundTenths(t)
  PROVE  x \in Nat /\ 10 * x - t \in -5 .. 5
<1> DEFINE whole == t \div 10
           rest  == t % 10
<1>1. whole \in Nat /\ rest \in 0 .. 9 /\ t = 10 * whole + rest
  OBVIOUS
<1>2. RoundTenths(t) = CASE rest < 5 -> {whole}
                         [] rest > 5 -> {whole + 1}
                         [] OTHER    -> {whole, whole + 1}
  BY DEF RoundTenths
<1>3. \/ rest <= 5 /\ x = whole
      \/ rest >= 5 /\ x = whole + 1
  <2> HIDE DEF whole, rest
  <2>1. CASE rest < 5
    BY <1>1, <1>2, <2>1
  <2>2. CASE rest > 5
    BY <1>1, <1>2, <2>2
  <2>3. CASE ~(rest < 5) /\ ~(rest > 5)
    <3>1. RoundTenths(t) = {whole, whole + 1}
      BY <1>2, <2>3
    <3>2. QED
      BY <3>1, <1>1, <2>3
  <2>4. QED
    BY <2>1, <2>2, <2>3
<1> HIDE DEF whole, rest
<1>4. QED
  BY <1>1, <1>3

\* There is always a result.
LEMMA RoundNonempty == ASSUME NEW t \in Nat PROVE RoundTenths(t) /= {}
  BY DEF RoundTenths

\* A sum that is larger, by a tenth or more, never rounds to less.
LEMMA RoundMonotone ==
  ASSUME NEW t \in Nat, NEW u \in Nat, t < u,
         NEW x \in RoundTenths(t), NEW y \in RoundTenths(u)
  PROVE  x <= y
  BY RoundNearest

\* A sum that is more than a point larger rounds to more.
LEMMA RoundRaises ==
  ASSUME NEW t \in Nat, NEW u \in Nat, t + 10 < u,
         NEW x \in RoundTenths(t), NEW y \in RoundTenths(u)
  PROVE  x < y
  BY RoundNearest

\* compute_srs returns a number from 0 to 100.
LEMMA SrsRange ==
  ASSUME NEW severity, NEW status, NEW e \in Int, NEW a \in Int,
         NEW x \in ComputeSrs(severity, e, a, status)
  PROVE  x \in 0 .. 100
<1> DEFINE t == ScoreTenths(severity, e, a, status)
<1>1. t \in 0 .. 1000
  BY TenthsRange
<1> HIDE DEF t
<1>2. ASSUME NEW y \in RoundTenths(t) PROVE y \in 0 .. 100
  <2>1. t \in Nat /\ t <= 1000
    BY <1>1
  <2>2. y \in Nat /\ 10 * y - t \in -5 .. 5
    BY <2>1, RoundNearest
  <2>3. QED
    BY <2>1, <2>2
<1>3. x = 0 \/ x \in RoundTenths(t)
  BY DEF ComputeSrs, t
<1>4. QED
  BY <1>2, <1>3

\* compute_srs cannot tell a rating from the clamped rating.
LEMMA SrsClamped ==
  ASSUME NEW severity, NEW status, NEW e \in Int, NEW a \in Int
  PROVE  ComputeSrs(severity, e, a, status) = ComputeSrs(severity, Clamp(e), a, status)
<1>1. Clamp(Clamp(e)) = Clamp(e)
  BY DEF Clamp
<1>2. QED
  BY <1>1 DEF ComputeSrs, ScoreTenths

-----------------------------------------------------------------------------
(* RiskScore                                                               *)

\* What is stored is what compute_srs returned for the arguments.
Stored == call \in Calls /\ (Returned => score \in Result(call))

\* The stored score always belongs to the call.
LEMMA StoredCorrect == CallSpec => []Stored
<1>1. CallInit => Stored
  BY DEF CallInit, Stored, Returned
<1>2. Stored /\ [CallNext]_callVars => Stored'
  <2> SUFFICES ASSUME Stored, [CallNext]_callVars PROVE Stored'
    OBVIOUS
  <2>1. CASE Return
    <3>1. call' = call /\ score' \in Result(call)
      BY <2>1 DEF Return
    <3>2. Result(call') = Result(call)
      BY <3>1
    <3>3. QED
      BY <3>1, <3>2 DEF Stored, Returned
  <2>2. CASE UNCHANGED callVars
    BY <2>2 DEF callVars, Stored, Returned, Result
  <2>3. QED
    BY <2>1, <2>2 DEF CallNext
<1>3. QED
  BY <1>1, <1>2, PTL DEF CallSpec

\* The arguments of a call are integers where compute_srs calculates.
LEMMA CallParts ==
  ASSUME NEW c \in Calls
  PROVE  /\ c.severity \in Severities /\ c.status \in FindingStatuses
         /\ c.exploitability \in Int /\ c.asset \in Int
  BY RatingsAssumption DEF Calls

\* The tenths of a call are a natural number.
LEMMA CallTenths ==
  ASSUME NEW c \in Calls
  PROVE  ScoreTenths(c.severity, c.exploitability, c.asset, c.status) \in Nat
<1> DEFINE t == ScoreTenths(c.severity, c.exploitability, c.asset, c.status)
<1>1. c.exploitability \in Int /\ c.asset \in Int
  BY CallParts
<1>2. t \in 0 .. 1000
  BY <1>1, TenthsRange
<1> HIDE DEF t
<1>3. t \in Nat
  BY <1>2
<1> QED BY <1>3 DEF t

\* A returned score is a number from 0 to 100.
LEMMA ResultRange == ASSUME NEW c \in Calls, NEW x \in Result(c) PROVE x \in 0 .. 100
  BY CallParts, SrsRange DEF Result

(* "Security Risk Score (0-100)" (scoring/srs.py): no rating, however far  *)
(* outside its range, takes the score out of it.                           *)
THEOREM ScoresStayInRange == CallSpec => []ScoreInRange
<1>1. Stored => ScoreInRange
  BY ResultRange DEF Stored, Returned, ScoreInRange
<1>2. QED
  BY <1>1, StoredCorrect, PTL

\* Cutting a rating to the range takes the nearest number of the range.
LEMMA CutIsClamp == ASSUME NEW n \in Int PROVE Cut(n) = Clamp(n)
<1> DEFINE Nearest(m) == \A k \in 0 .. 100 : (n - m) * (n - m) <= (n - k) * (n - k)
<1>1. Clamp(n) \in 0 .. 100
  BY ClampRange
<1>2. ASSUME NEW a \in Nat, NEW b \in Nat, a <= b PROVE a * a <= b * b
  BY <1>2
<1>3. ASSUME NEW a \in Nat, NEW b \in Nat, a < b PROVE a * a < b * b
  BY <1>3
<1>4. ASSUME NEW x \in Int PROVE x * x = (-x) * (-x)
  BY <1>4
<1>5. CASE n \in 0 .. 100
  <2>1. Clamp(n) = n
    BY <1>5 DEF Clamp
  <2>2. ASSUME NEW k \in 0 .. 100 PROVE 0 <= (n - k) * (n - k)
    BY <1>2, <1>4
  <2>3. Nearest(n)
    BY <2>2
  <2>4. ASSUME NEW m \in 0 .. 100, Nearest(m) PROVE m = n
    <3>1. (n - m) * (n - m) <= 0
      BY <1>5, <2>4
    <3> QED BY <3>1
  <2> QED BY <2>1, <2>3, <2>4, <1>5 DEF Cut
<1>6. CASE n > 100
  <2>1. Clamp(n) = 100
    BY <1>6 DEF Clamp
  <2>2. Nearest(100)
    BY <1>2, <1>6
  <2>3. ASSUME NEW m \in 0 .. 100, Nearest(m) PROVE m = 100
    <3>1. (n - m) * (n - m) <= (n - 100) * (n - 100)
      BY <2>3
    <3>2. m /= 100 => (n - 100) * (n - 100) < (n - m) * (n - m)
      <4> DEFINE a == n - 100
                 b == n - m
      <4>1. a \in Nat /\ b \in Nat /\ (m /= 100 => a < b)
        BY <1>6
      <4> HIDE DEF a, b
      <4>2. m /= 100 => a * a < b * b
        BY <1>3, <4>1
      <4> QED BY <4>2 DEF a, b
    <3> QED BY <3>1, <3>2
  <2> QED BY <2>1, <2>2, <2>3 DEF Cut
<1>7. CASE n < 0
  <2>1. Clamp(n) = 0
    BY <1>7 DEF Clamp
  <2>2. ASSUME NEW k \in 0 .. 100 PROVE (n - 0) * (n - 0) <= (n - k) * (n - k)
    <3>1. (-n) \in Nat /\ (k - n) \in Nat /\ -n <= k - n
      BY <1>7
    <3>2. (-n) * (-n) <= (k - n) * (k - n)
      BY <3>1, <1>2
    <3> QED BY <3>2
  <2>3. ASSUME NEW m \in 0 .. 100, Nearest(m) PROVE m = 0
    <3>1. (n - m) * (n - m) <= (n - 0) * (n - 0)
      BY <2>3
    <3>2. m /= 0 => (-n) * (-n) < (m - n) * (m - n)
      <4> DEFINE a == -n
                 b == m - n
      <4>1. a \in Nat /\ b \in Nat /\ (m /= 0 => a < b)
        BY <1>7
      <4> HIDE DEF a, b
      <4>2. m /= 0 => a * a < b * b
        BY <1>3, <4>1
      <4> QED BY <4>2 DEF a, b
    <3> QED BY <3>1, <3>2
  <2> QED BY <2>1, <2>2, <2>3 DEF Cut
<1> QED BY <1>5, <1>6, <1>7

(* What is stored is the integer nearest to the weighted sum of the        *)
(* docstring ("severity 40%, exploitability 30%, ..."), whatever the       *)
(* ratings are, and 0 for a false positive.                                *)
THEOREM ScoresAreNearest == CallSpec => []ScoreIsNearest
<1>1. Stored => ScoreIsNearest
  <2> SUFFICES ASSUME Stored, Returned
               PROVE  IF Dismissed THEN score = 0
                      ELSE score * 100 - WeightedSum(call) \in -50 .. 50
    BY DEF ScoreIsNearest
  <2>1. call \in Calls /\ score \in Result(call)
    BY DEF Stored
  <2>2. CASE Dismissed
    BY <2>1, <2>2 DEF Dismissed, Result, ComputeSrs
  <2>3. CASE ~Dismissed
    <3> DEFINE t == ScoreTenths(call.severity, call.exploitability, call.asset, call.status)
    <3>1. score \in RoundTenths(t)
      BY <2>1, <2>3 DEF Dismissed, Result, ComputeSrs
    <3>2. t \in Nat
      BY <2>1, CallTenths
    <3>3. WeightedSum(call) = 10 * t
      <4>1. Cut(call.exploitability) = Clamp(call.exploitability)
            /\ Cut(call.asset) = Clamp(call.asset)
        BY <2>1, CallParts, CutIsClamp
      <4>2. /\ Clamp(call.exploitability) \in Int /\ Clamp(call.asset) \in Int
            /\ SeverityPoints(call.severity) \in Int /\ ConfidencePoints(call.status) \in Int
        BY <2>1, CallParts, ClampRange, PointsRange
      <4> QED BY <4>1, <4>2 DEF WeightedSum, ScoreTenths
    <3> HIDE DEF t
    <3>4. score \in Nat /\ 10 * score - t \in -5 .. 5
      BY <3>1, <3>2, RoundNearest
    <3> QED BY <2>3, <3>2, <3>3, <3>4
  <2> QED BY <2>2, <2>3
<1>2. QED
  BY <1>1, StoredCorrect, PTL

(* Two calls whose sums differ by more than a point, neither of them for a *)
(* false positive, return different scores, in that order.                 *)
LEMMA ResultRaises ==
  ASSUME NEW c \in Calls, NEW d \in Calls,
         c.status /= "false_positive", d.status /= "false_positive",
         ScoreTenths(c.severity, c.exploitability, c.asset, c.status) + 10
           < ScoreTenths(d.severity, d.exploitability, d.asset, d.status),
         NEW x \in Result(c), NEW y \in Result(d)
  PROVE  x < y
<1> DEFINE t == ScoreTenths(c.severity, c.exploitability, c.asset, c.status)
           u == ScoreTenths(d.severity, d.exploitability, d.asset, d.status)
<1>1. t \in Nat /\ u \in Nat
  BY CallTenths
<1>2. x \in RoundTenths(t) /\ y \in RoundTenths(u)
  BY DEF Result, ComputeSrs
<1> HIDE DEF t, u
<1>3. t + 10 < u
  BY DEF t, u
<1>4. QED
  BY <1>1, <1>2, <1>3, RoundRaises

(* A worse severity, all else equal, always gives a higher score: the      *)
(* severity weight (_SEVERITY_MAP, 40 percent) outweighs any rounding.     *)
THEOREM WorseSeverityScoresHigher == CallSpec => []SeverityRaises
<1>1. Stored => SeverityRaises
  <2> SUFFICES ASSUME Stored, Returned, ~Dismissed, NEW worse \in Severities,
                      SeverityRank[worse] > SeverityRank[call.severity],
                      NEW other \in Result([call EXCEPT !.severity = worse])
               PROVE  other > score
    BY DEF SeverityRaises
  <2> DEFINE d == [call EXCEPT !.severity = worse]
             rest == 3 * Clamp(call.exploitability) + 2 * Clamp(call.asset)
                       + ConfidencePoints(call.status)
  <2>1. call \in Calls /\ score \in Result(call)
    BY DEF Stored
  <2>2. /\ d \in Calls /\ d.severity = worse /\ d.status = call.status
        /\ d.exploitability = call.exploitability /\ d.asset = call.asset
    BY <2>1 DEF Calls
  <2>3. /\ SeverityPoints(worse) \in Int /\ SeverityPoints(call.severity) \in Int
        /\ SeverityPoints(worse) >= SeverityPoints(call.severity) + 25
    <3>1. call.severity \in Severities
      BY <2>1, CallParts
    <3>2. QED
      BY <3>1 DEF Severities, SeverityRank, SeverityPoints
  <2>4. rest \in Int
    <3>1. call.exploitability \in Int /\ call.asset \in Int
      BY <2>1, CallParts
    <3>2. /\ Clamp(call.exploitability) \in Int /\ Clamp(call.asset) \in Int
          /\ ConfidencePoints(call.status) \in Int
      BY <3>1, ClampRange, PointsRange
    <3>3. QED
      BY <3>2
  <2>5. /\ ScoreTenths(call.severity, call.exploitability, call.asset, call.status)
             = 4 * SeverityPoints(call.severity) + rest
        /\ ScoreTenths(d.severity, d.exploitability, d.asset, d.status)
             = 4 * SeverityPoints(worse) + rest
    <3>1. /\ Clamp(call.exploitability) \in Int /\ Clamp(call.asset) \in Int
          /\ ConfidencePoints(call.status) \in Int
      BY <2>1, CallParts, ClampRange, PointsRange
    <3>2. QED
      BY <2>2, <2>3, <3>1 DEF ScoreTenths
  <2> HIDE DEF d, rest
  <2>6. ScoreTenths(call.severity, call.exploitability, call.asset, call.status) + 10
          < ScoreTenths(d.severity, d.exploitability, d.asset, d.status)
    BY <2>3, <2>4, <2>5
  <2>7. call.status /= "false_positive" /\ other \in Result(d)
    BY DEF Dismissed, d
  <2>8. score < other
    BY <2>1, <2>2, <2>6, <2>7, ResultRaises
  <2>9. score \in Int /\ other \in Int
    BY <2>1, <2>2, <2>7, ResultRange
  <2>10. QED
    BY <2>8, <2>9
<1>2. QED
  BY <1>1, StoredCorrect, PTL

(* Confirming an open finding raises its score: the fifty points between   *)
(* the two entries of _CONFIDENCE_MAP outweigh any rounding.               *)
THEOREM ConfirmedScoresHigher == CallSpec => []ConfirmingRaises
<1>1. Stored => ConfirmingRaises
  <2> SUFFICES ASSUME Stored, Returned, call.status = "open",
                      NEW other \in Result([call EXCEPT !.status = "confirmed"])
               PROVE  other > score
    BY DEF ConfirmingRaises
  <2> DEFINE d == [call EXCEPT !.status = "confirmed"]
             rest == 4 * SeverityPoints(call.severity) + 3 * Clamp(call.exploitability)
                       + 2 * Clamp(call.asset)
  <2>1. call \in Calls /\ score \in Result(call)
    BY DEF Stored
  <2>2. /\ d \in Calls /\ d.severity = call.severity /\ d.status = "confirmed"
        /\ d.exploitability = call.exploitability /\ d.asset = call.asset
    BY <2>1 DEF Calls, FindingStatuses
  <2>3. /\ Clamp(call.exploitability) \in Int /\ Clamp(call.asset) \in Int
        /\ SeverityPoints(call.severity) \in Int
    BY <2>1, CallParts, ClampRange, PointsRange
  <2>4. rest \in Int
    BY <2>3
  <2>5. /\ ScoreTenths(call.severity, call.exploitability, call.asset, call.status) = rest + 50
        /\ ScoreTenths(d.severity, d.exploitability, d.asset, d.status) = rest + 100
    BY <2>2, <2>3 DEF ScoreTenths, ConfidencePoints
  <2> HIDE DEF d, rest
  <2>6. ScoreTenths(call.severity, call.exploitability, call.asset, call.status) + 10
          < ScoreTenths(d.severity, d.exploitability, d.asset, d.status)
    BY <2>4, <2>5
  <2>7. other \in Result(d)
    BY DEF d
  <2>8. score < other
    BY <2>1, <2>2, <2>6, <2>7, ResultRaises
  <2>9. score \in Int /\ other \in Int
    BY <2>1, <2>2, <2>7, ResultRange
  <2>10. QED
    BY <2>8, <2>9
<1>2. QED
  BY <1>1, StoredCorrect, PTL

(* A higher exploitability or asset rating never lowers a score, although  *)
(* every call rounds a floating point sum of its own.                      *)
THEOREM HigherRatingsScoreNoLower == CallSpec => []RatingsNeverLower
<1>1. Stored => RatingsNeverLower
  <2> SUFFICES ASSUME Stored, Returned, NEW e \in Ratings, NEW a \in Ratings,
                      e >= call.exploitability, a >= call.asset,
                      NEW other \in Result([call EXCEPT !.exploitability = e, !.asset = a]),
                      ~(Clamp(e) = Clamp(call.exploitability) /\ Clamp(a) = Clamp(call.asset))
               PROVE  other >= score
    BY DEF RatingsNeverLower
  <2> DEFINE d == [call EXCEPT !.exploitability = e, !.asset = a]
             t == ScoreTenths(call.severity, call.exploitability, call.asset, call.status)
             u == ScoreTenths(d.severity, d.exploitability, d.asset, d.status)
  <2>1. call \in Calls /\ score \in Result(call)
    BY DEF Stored
  <2>2. /\ d \in Calls /\ d.severity = call.severity /\ d.status = call.status
        /\ d.exploitability = e /\ d.asset = a
    BY <2>1 DEF Calls
  <2>3. /\ e \in Int /\ a \in Int /\ call.exploitability \in Int /\ call.asset \in Int
    BY <2>1, CallParts, RatingsAssumption
  <2>4. /\ Clamp(e) \in Int /\ Clamp(call.exploitability) \in Int
        /\ Clamp(a) \in Int /\ Clamp(call.asset) \in Int
        /\ Clamp(call.exploitability) <= Clamp(e) /\ Clamp(call.asset) <= Clamp(a)
    BY <2>3, ClampRange, ClampMonotone
  <2>5. SeverityPoints(call.severity) \in Int /\ ConfidencePoints(call.status) \in Int
    BY PointsRange
  <2>6. t < u
    BY <2>2, <2>4, <2>5 DEF ScoreTenths
  <2>7. t \in Nat /\ u \in Nat
    BY <2>1, <2>2, CallTenths
  <2>8. CASE call.status = "false_positive"
    BY <2>1, <2>2, <2>8 DEF Result, ComputeSrs
  <2>9. CASE call.status /= "false_positive"
    <3>1. score \in RoundTenths(t) /\ other \in RoundTenths(u)
      BY <2>1, <2>2, <2>9 DEF Result, ComputeSrs
    <3> HIDE DEF t, u
    <3>2. score <= other
      BY <2>6, <2>7, <3>1, RoundMonotone
    <3>3. score \in Nat /\ other \in Nat
      BY <2>7, <3>1, RoundNearest
    <3>4. QED
      BY <3>2, <3>3
  <2>10. QED
    BY <2>8, <2>9
<1>2. QED
  BY <1>1, StoredCorrect, PTL

-----------------------------------------------------------------------------
(* FindingReview                                                           *)

Active(c) == ~At(c, "idle")

\* A request nobody disturbed still has the row's values as its snapshot.
Fresh == \A c \in Clients : Active(c) /\ c \notin disturbed => req[c].snap = row

Agree(r) == r.confirmed = (r.status = "confirmed")

\* What the drafts hold at each step of a request.
Drafted ==
    \A c \in Clients :
        /\ At(c, "flush") \/ At(c, "rescore")
              => /\ req[c].new.status \in FindingStatuses
                 /\ req[c].sets => Agree(req[c].new)
        /\ At(c, "store")
              => /\ Agree(req[c].new)
                 /\ \E risk \in Int :
                       req[c].new.srs \in Scores(risk, req[c].on.asset, req[c].new.status)

\* Only the requests in the server are disturbed.
Inv == TypeOK /\ Fresh /\ Drafted

-----------------------------------------------------------------------------
\* A merged row is a row, column by column.
LEMMA MergeColumns ==
  ASSUME row \in Rows, NEW new, NEW snap
  PROVE  Merge(new, snap) =
           [status    |-> IF new["status"] = snap["status"] THEN row.status ELSE new["status"],
            confirmed |-> IF new["confirmed"] = snap["confirmed"]
                          THEN row.confirmed ELSE new["confirmed"],
            srs       |-> IF new["srs"] = snap["srs"] THEN row.srs ELSE new["srs"]]
<1>1. DOMAIN row = {"status", "confirmed", "srs"}
  BY DEF Rows
<1>2. QED
  BY <1>1 DEF Merge

\* Merging gives a row.
LEMMA MergeTyped ==
  ASSUME row \in Rows, NEW new \in Drafts, NEW snap \in Rows,
         new.status \in FindingStatuses
  PROVE  Merge(new, snap) \in Rows
  BY MergeColumns DEF Rows, Drafts

\* With a fresh snapshot, merging gives the draft.
LEMMA MergeFresh ==
  ASSUME row \in Rows, NEW new \in Drafts PROVE Merge(new, row) = new
  BY MergeColumns DEF Rows, Drafts

\* The score of a finding is a number from 0 to 100.
LEMMA ScoreTyped ==
  ASSUME NEW risk \in Int, NEW asset \in Int, NEW status, NEW x \in Scores(risk, asset, status)
  PROVE  x \in 0 .. 100
  BY SrsRange DEF Scores

-----------------------------------------------------------------------------
\* Requests before and after they have read the target.
Before == [pc : {"flush", "target"}, sets : BOOLEAN, snap : Rows, new : Drafts]

After == [pc : {"rescore", "judge", "store"}, sets : BOOLEAN, snap : Rows, new : Drafts,
          on : Targets]

\* A request in the server has all the fields of a request.
LEMMA ActiveTyped ==
  ASSUME TypeOK, NEW c \in Clients, Active(c)
  PROVE  /\ req[c] \in Before \cup After
         /\ req[c].sets \in BOOLEAN /\ req[c].snap \in Rows /\ req[c].new \in Drafts
         /\ req[c].pc \in {"rescore", "judge", "store"}
               => req[c] \in After /\ req[c].on.asset \in Int
<1>1. req[c] \in Before \cup After
  BY DEF TypeOK, Requests, Quiet, Active, At, Before, After
<1> QED BY <1>1, AssetsAssumption DEF Before, After, Targets

\* Committing a draft with a status of the enum keeps the invariant.
LEMMA CommitStep ==
  ASSUME Inv, NEW c \in Clients, Active(c), NEW new \in Drafts,
         new.status \in FindingStatuses, CommitDraft(c, new)
  PROVE  Inv'
<1>1. req[c].snap \in Rows
  BY ActiveTyped DEF Inv
<1>2. TypeOK'
  <2>1. row' \in Rows
    BY <1>1, MergeTyped DEF Inv, TypeOK, CommitDraft
  <2>2. QED
    BY <2>1 DEF Inv, TypeOK, CommitDraft, Leave, Requests
<1>3. Fresh'
  <2>1. \A d \in Clients : d \notin disturbed' => ~Active(d)'
    BY DEF Inv, TypeOK, CommitDraft, Leave, Active, At, Quiet
  <2>2. QED
    BY <2>1 DEF Fresh
<1>4. Drafted'
  BY DEF Inv, TypeOK, Drafted, Agree, Scores, CommitDraft, Leave, At, Quiet
<1>5. QED
  BY <1>2, <1>3, <1>4 DEF Inv

\* A rolled back request keeps the invariant.
LEMMA RollBackStep ==
  ASSUME Inv, NEW c \in Clients, RollBack(c) PROVE Inv'
<1>1. TypeOK'
  BY DEF Inv, TypeOK, RollBack, Leave, Requests
<1>2. Fresh'
  BY DEF Inv, TypeOK, Fresh, RollBack, Leave, Active, At, Quiet
<1>3. Drafted'
  BY DEF Inv, TypeOK, Drafted, Agree, Scores, RollBack, Leave, At, Quiet
<1>4. QED
  BY <1>1, <1>2, <1>3 DEF Inv

\* A step that only replaces one request by one with the same snapshot, or
\* a fresh one, keeps the invariant if the new draft is in order.
LEMMA RequestStep ==
  ASSUME Inv, NEW c \in Clients,
         NEW r \in Before \cup After,
         req' = [req EXCEPT ![c] = r],
         UNCHANGED <<finding, target, row, disturbed>>,
         lock' \in Clients \cup {NoClient},
         \/ r.snap = row
         \/ Active(c) /\ r.snap = req[c].snap,
         r.pc \in {"flush", "rescore"}
            => r.new.status \in FindingStatuses /\ (r.sets => Agree(r.new)),
         r.pc = "store"
            => Agree(r.new) /\ \E risk \in Int : r.new.srs \in Scores(risk, r.on.asset, r.new.status)
  PROVE  Inv'
<1>1. TypeOK'
  BY DEF Inv, TypeOK, Requests, Before, After
<1>2. Fresh'
  BY DEF Inv, TypeOK, Fresh, Active, At
<1>3. Drafted'
  <2> SUFFICES ASSUME NEW d \in Clients
               PROVE  /\ req'[d].pc \in {"flush", "rescore"}
                            => /\ req'[d].new.status \in FindingStatuses
                               /\ req'[d].sets => Agree(req'[d].new)
                      /\ req'[d].pc = "store"
                            => /\ Agree(req'[d].new)
                               /\ \E risk \in Int :
                                     req'[d].new.srs
                                       \in Scores(risk, req'[d].on.asset, req'[d].new.status)
    BY DEF Drafted, At, Agree, Scores
  <2>1. CASE d = c
    BY <2>1 DEF Inv, TypeOK
  <2>2. CASE d /= c
    <3>1. req'[d] = req[d]
      BY <2>2 DEF Inv, TypeOK
    <3>2. QED
      BY <3>1 DEF Inv, Drafted, At
  <2>3. QED
    BY <2>1, <2>2
<1>4. QED
  BY <1>1, <1>2, <1>3 DEF Inv

\* Every step keeps the invariant.
LEMMA InvStep == ASSUME Inv, [Next]_vars PROVE Inv'
<1>1. ASSUME NEW c \in Clients, BeginPatch(c) PROVE Inv'
  <2>1. PICK status \in FindingStatuses, sets \in BOOLEAN :
           req' = [req EXCEPT ![c] =
                    [pc |-> "flush", sets |-> sets, snap |-> row,
                     new |-> IF sets
                             THEN [row EXCEPT !.status = status,
                                              !.confirmed = (status = "confirmed")]
                             ELSE row]]
    BY <1>1 DEF BeginPatch
  <2> DEFINE new == IF sets THEN [row EXCEPT !.status = status,
                                             !.confirmed = (status = "confirmed")]
                            ELSE row
             r == [pc |-> "flush", sets |-> sets, snap |-> row, new |-> new]
  <2>2. row \in Rows
    BY DEF Inv, TypeOK
  <2>3. new \in Drafts /\ new.status \in FindingStatuses /\ (sets => Agree(new))
    BY <2>2 DEF Rows, Drafts, Verdicts, Agree
  <2> HIDE DEF new
  <2>4. r \in Before
    BY <2>2, <2>3 DEF Before
  <2>5. req' = [req EXCEPT ![c] = r]
    BY <2>1 DEF new
  <2>6. /\ r.snap = row /\ r.pc = "flush" /\ r.new = new /\ r.sets = sets
        /\ UNCHANGED <<finding, target, row, disturbed>>
        /\ lock' \in Clients \cup {NoClient}
    BY <1>1 DEF BeginPatch, Inv, TypeOK
  <2> HIDE DEF r
  <2>7. QED
    BY <2>3, <2>4, <2>5, <2>6, RequestStep
<1>2. ASSUME NEW c \in Clients, BeginValidate(c) PROVE Inv'
  <2> DEFINE r == [pc |-> "target", sets |-> TRUE, snap |-> row, new |-> row]
  <2>1. r \in Before
    BY DEF Inv, TypeOK, Rows, Drafts, Verdicts, Before
  <2>2. /\ req' = [req EXCEPT ![c] = r] /\ r.snap = row /\ r.pc = "target"
        /\ UNCHANGED <<finding, target, row, disturbed>>
        /\ lock' \in Clients \cup {NoClient}
    BY <1>2 DEF BeginValidate, Inv, TypeOK
  <2> HIDE DEF r
  <2>3. QED
    BY <2>1, <2>2, RequestStep
<1>3. ASSUME NEW c \in Clients, FlushPatch(c) \/ FetchTarget(c) PROVE Inv'
  <2> DEFINE next == IF At(c, "flush") THEN "rescore" ELSE "judge"
             r == [pc |-> next, sets |-> req[c].sets, snap |-> req[c].snap,
                   new |-> req[c].new, on |-> target]
  <2>1. Active(c) /\ req[c].pc \in {"flush", "target"} /\ req' = [req EXCEPT ![c] = r]
    BY <1>3 DEF FlushPatch, FetchTarget, ReadTarget, At, Active
  <2>2. r \in After
    BY <2>1, ActiveTyped DEF Inv, TypeOK, After
  <2>3. next = "rescore" => req[c].new.status \in FindingStatuses
                            /\ (req[c].sets => Agree(req[c].new))
    BY DEF Inv, Drafted, At
  <2>4. /\ UNCHANGED <<finding, target, row, disturbed>>
        /\ lock' \in Clients \cup {NoClient}
    BY <1>3 DEF FlushPatch, FetchTarget, Inv, TypeOK
  <2>5. /\ r.pc = next /\ r.sets = req[c].sets /\ r.new = req[c].new /\ r.snap = req[c].snap
        /\ next \in {"rescore", "judge"}
    OBVIOUS
  <2> HIDE DEF r, next
  <2>6. QED
    BY <2>1, <2>2, <2>3, <2>4, <2>5, RequestStep
<1>4. ASSUME NEW c \in Clients, CommitPatch(c) PROVE Inv'
  <2>1. PICK srs \in Scores(0, req[c].on.asset, req[c].new.status) :
              CommitDraft(c, [req[c].new EXCEPT !.srs = srs])
    BY <1>4 DEF CommitPatch
  <2>2. /\ Active(c) /\ req[c].new.status \in FindingStatuses /\ req[c].new \in Drafts
        /\ req[c].on.asset \in Int
    BY <1>4, ActiveTyped DEF CommitPatch, At, Active, Inv, Drafted
  <2>3. srs \in 0 .. 100
    BY <2>2, ScoreTyped
  <2> DEFINE new == [req[c].new EXCEPT !.srs = srs]
  <2>4. new \in Drafts /\ new.status \in FindingStatuses
    BY <2>2, <2>3 DEF Drafts
  <2> HIDE DEF new
  <2>5. CommitDraft(c, new)
    BY <2>1 DEF new
  <2>6. QED
    BY <2>2, <2>4, <2>5, CommitStep
<1>5. ASSUME NEW c \in Clients, NEW status \in Verdicts, NEW risk \in Int,
             At(c, "judge"), Judged(c, status, risk),
             UNCHANGED <<finding, target, row, lock, disturbed>>
      PROVE  Inv'
  <2>0. Active(c) /\ req[c] \in After /\ req[c].on.asset \in Int
    BY <1>5, ActiveTyped DEF At, Active, Inv
  <2>1. PICK srs \in Scores(risk, req[c].on.asset, status) :
           req' = [req EXCEPT ![c].pc = "store",
                              ![c].new = [status |-> status, confirmed |-> status = "confirmed",
                                          srs |-> srs]]
    BY <1>5 DEF Judged
  <2> DEFINE new == [status |-> status, confirmed |-> status = "confirmed", srs |-> srs]
             r == [req[c] EXCEPT !.pc = "store", !.new = new]
  <2>2. srs \in 0 .. 100
    BY <2>0, ScoreTyped
  <2>3. /\ new \in Drafts /\ Agree(new)
        /\ \E k \in Int : new.srs \in Scores(k, req[c].on.asset, new.status)
    BY <2>2 DEF Drafts, Agree
  <2> HIDE DEF new
  <2>5. /\ r \in After /\ r.on = req[c].on
        /\ r.pc = "store" /\ r.snap = req[c].snap /\ r.new = new
    BY <2>0, <2>3 DEF After
  <2>6. req' = [req EXCEPT ![c] = r]
    BY <2>1 DEF Inv, TypeOK, new
  <2>7. lock' \in Clients \cup {NoClient}
    BY <1>5 DEF Inv, TypeOK
  <2> HIDE DEF r
  <2>8. QED
    BY <1>5, <2>0, <2>3, <2>5, <2>6, <2>7, RequestStep
<1>6. ASSUME NEW c \in Clients, Judge(c) PROVE Inv'
  <2>1. CASE ClassifiedNoise(finding, req[c].on.type)
    BY <1>5, <1>6, <2>1 DEF Judge, Verdicts, FindingStatuses
  <2>2. CASE ~ClassifiedNoise(finding, req[c].on.type)
    BY <1>5, <1>6, <2>2, RisksAssumption DEF Judge
  <2>3. QED
    BY <2>1, <2>2
<1>7. ASSUME NEW c \in Clients, StoreVerdict(c) PROVE Inv'
  <2>1. Active(c)
    BY <1>7 DEF StoreVerdict, At, Active
  <2>2. req[c].new \in Drafts /\ req[c].new.status \in FindingStatuses
    BY <1>7, <2>1, ActiveTyped DEF StoreVerdict, Inv
  <2>3. QED
    BY <1>7, <2>1, <2>2, CommitStep DEF StoreVerdict
<1>8. ASSUME NEW c \in Clients,
             JudgeUnavailable(c) \/ VerdictRefused(c) \/ RequestFails(c)
      PROVE  Inv'
  BY <1>8, RollBackStep DEF JudgeUnavailable, VerdictRefused, RequestFails
<1>9. CASE UNCHANGED vars \/ UpdateTarget
  BY <1>9 DEF vars, UpdateTarget, Inv, TypeOK, Fresh, Drafted, Agree, Active, At, Scores
<1>10. QED
  BY <1>1, <1>2, <1>3, <1>4, <1>6, <1>7, <1>8, <1>9 DEF Next, Begin, Patch, Validate

\* The invariant holds at the start.
LEMMA InvInit == Init => Inv
  BY DEF Init, Inv, InitialRows, TypeOK, Requests, Fresh, Drafted, Active, At, Quiet

(* No request, whatever the LLM answered and however the target changed,   *)
(* stores a status outside the enum or a score outside 0 to 100.           *)
THEOREM TypeCorrect == Spec => []TypeOK
<1>1. Inv => TypeOK
  BY DEF Inv
<1>2. QED
  BY <1>1, InvInit, InvStep, PTL DEF Spec
-----------------------------------------------------------------------------
\* A draft that agrees and is scored for its status is a coherent row.
LEMMA DraftCoherent ==
  ASSUME NEW new, Agree(new), NEW risk \in Int, NEW asset \in Int,
         new.srs \in Scores(risk, asset, new.status)
  PROVE  Coherent(new, asset)
<1>1. new.srs \in Scores(Clamp(risk), asset, new.status)
  BY SrsClamped DEF Scores
<1>2. Clamp(risk) \in 0 .. 100
  BY ClampRange
<1>3. QED
  BY <1>1, <1>2 DEF Coherent, Agree

\* The only steps that change the row commit a draft of the request they end.
LEMMA RowChanges ==
  ASSUME Inv, [Next]_vars, row' /= row
  PROVE  \E c \in Clients, new \in Drafts :
            /\ CommitDraft(c, new)
            /\ Active(c)
            /\ \/ /\ At(c, "rescore")
                  /\ \E srs \in Scores(0, req[c].on.asset, req[c].new.status) :
                        new = [req[c].new EXCEPT !.srs = srs]
               \/ At(c, "store") /\ new = req[c].new
<1>1. PICK c \in Clients : CommitPatch(c) \/ StoreVerdict(c)
  BY DEF Next, vars, Begin, Patch, Validate, BeginPatch, BeginValidate, FlushPatch, FetchTarget,
     UpdateTarget, Judge, JudgeUnavailable, VerdictRefused, RequestFails, RollBack
<1>2. Active(c)
  BY <1>1 DEF CommitPatch, StoreVerdict, Active, At
<1>3. req[c].new \in Drafts /\ (At(c, "rescore") => req[c].on.asset \in Int)
  BY <1>2, ActiveTyped DEF Inv, At
<1>4. CASE CommitPatch(c)
  <2>1. PICK srs \in Scores(0, req[c].on.asset, req[c].new.status) :
           CommitDraft(c, [req[c].new EXCEPT !.srs = srs])
    BY <1>4 DEF CommitPatch
  <2>2. srs \in 0 .. 100
    <3>1. req[c].on.asset \in Int
      BY <1>3, <1>4 DEF CommitPatch
    <3> QED BY <3>1, ScoreTyped
  <2>3. [req[c].new EXCEPT !.srs = srs] \in Drafts
    BY <1>3, <2>2 DEF Drafts
  <2>4. QED
    BY <1>2, <1>4, <2>1, <2>3 DEF CommitPatch
<1>5. CASE StoreVerdict(c)
  BY <1>2, <1>3, <1>5 DEF StoreVerdict
<1>6. QED
  BY <1>1, <1>4, <1>5

\* Every step keeps LockIsShort: who holds the lock and leaves "rescore" ends.
LEMMA LockStep == ASSUME Inv, LockIsShort, [Next]_vars PROVE LockIsShort'
<1>1. ASSUME NEW c \in Clients, \/ BeginPatch(c) \/ BeginValidate(c)
                                \/ FetchTarget(c) \/ Judge(c)
      PROVE  LockIsShort'
  BY <1>1 DEF BeginPatch, BeginValidate, FetchTarget, ReadTarget, Judge, Judged, Inv, TypeOK,
     LockIsShort, At
<1>2. ASSUME NEW c \in Clients, FlushPatch(c) PROVE LockIsShort'
  BY <1>2 DEF FlushPatch, ReadTarget, Inv, TypeOK, LockIsShort, At
<1>3. ASSUME NEW c \in Clients, Leave(c) PROVE LockIsShort'
  BY <1>3 DEF Leave, Inv, TypeOK, LockIsShort, At
<1>4. ASSUME NEW c \in Clients,
             \/ CommitPatch(c) \/ StoreVerdict(c)
             \/ JudgeUnavailable(c) \/ VerdictRefused(c) \/ RequestFails(c)
      PROVE  LockIsShort'
  <2>1. Leave(c)
    BY <1>4 DEF CommitPatch, StoreVerdict, JudgeUnavailable, VerdictRefused, RequestFails,
       CommitDraft, RollBack
  <2>2. QED
    BY <1>3, <2>1
<1>5. CASE UNCHANGED vars \/ UpdateTarget
  BY <1>5 DEF vars, UpdateTarget, LockIsShort, At
<1>6. QED
  BY <1>1, <1>2, <1>4, <1>5 DEF Next, Begin, Patch, Validate

(* The row lock is held between the flush and the commit of a PATCH only:  *)
(* no request keeps it while it waits for the LLM, and none that has ended *)
(* (get_db closes the session) holds it.                                   *)
THEOREM LockShort == Spec => []LockIsShort
<1>1. Init => LockIsShort
  BY DEF Init, LockIsShort
<1>2. QED
  BY <1>1, InvInit, InvStep, LockStep, PTL DEF Spec

(* A request that sets the status and that no other request disturbed      *)
(* leaves status, confirmed and srs_score in agreement, even if earlier    *)
(* concurrent requests had set them apart: comparing with the snapshot     *)
(* loses nothing as long as the snapshot is the row.                       *)
THEOREM UndisturbedCoherent == Spec => UndisturbedIsCoherent
<1>1. ASSUME Inv, [Next]_vars
      PROVE  [\A c \in Clients :
                 /\ ~At(c, "idle") /\ req[c].sets
                 /\ c \notin disturbed
                 /\ row' /= row /\ req'[c] = Quiet
                 => Coherent(row', req[c].on.asset)]_vars
  <2> SUFFICES ASSUME NEW c \in Clients, ~At(c, "idle"), req[c].sets, c \notin disturbed,
                      row' /= row, req'[c] = Quiet
               PROVE  Coherent(row', req[c].on.asset)
    OBVIOUS
  <2>1. PICK d \in Clients, new \in Drafts :
           /\ CommitDraft(d, new)
           /\ Active(d)
           /\ \/ /\ At(d, "rescore")
                 /\ \E srs \in Scores(0, req[d].on.asset, req[d].new.status) :
                       new = [req[d].new EXCEPT !.srs = srs]
              \/ At(d, "store") /\ new = req[d].new
    BY <1>1, RowChanges
  <2>2. d = c
    BY <1>1, <2>1 DEF CommitDraft, Leave, Inv, TypeOK, At, Quiet
  <2>3. row' = new
    <3>1. req[c].snap = row
      BY <1>1 DEF Inv, Fresh, Active
    <3>2. QED
      BY <1>1, <2>1, <2>2, <3>1, MergeFresh DEF CommitDraft, Inv, TypeOK
  <2>4. req[c].on.asset \in Int
    BY <1>1, <2>1, <2>2, ActiveTyped DEF Inv, At
  <2>5. Coherent(new, req[c].on.asset)
    <3>1. CASE At(c, "rescore")
      <4>1. PICK srs \in Scores(0, req[c].on.asset, req[c].new.status) :
               new = [req[c].new EXCEPT !.srs = srs]
        BY <2>1, <2>2, <3>1 DEF At
      <4>2. req[c].new \in Drafts
        BY <1>1, <2>1, <2>2, ActiveTyped DEF Inv
      <4>3. Agree(req[c].new)
        BY <1>1, <3>1 DEF Inv, Drafted
      <4>4. new.srs = srs /\ new.status = req[c].new.status /\ Agree(new)
        BY <4>1, <4>2, <4>3 DEF Drafts, Agree
      <4>5. QED
        BY <2>4, <4>4, DraftCoherent
    <3>2. CASE At(c, "store")
      BY <1>1, <2>1, <2>2, <2>4, <3>2, DraftCoherent DEF Inv, Drafted, At
    <3>3. QED
      BY <2>1, <2>2, <3>1, <3>2
  <2>6. Coherent(new, req[c].on.asset) => Coherent(row', req[c].on.asset)
    BY <2>3
  <2>7. QED
    BY <2>5, <2>6
<1>2. QED
  BY <1>1, InvInit, InvStep, PTL DEF Spec, UndisturbedIsCoherent
=============================================================================
