------------------------ MODULE ValidationAgentProofs -----------------------
(***************************************************************************)
(* For any number of findings, any chunk size and any answers of the LLM:  *)
(* the validator keeps its types, no answer changes the verdict of a rule, *)
(* and what an LLM that numbers from 0 says reaches the finding it means.  *)
(***************************************************************************)
EXTENDS ValidationAgent, FiniteSetTheorems, TLAPS

-----------------------------------------------------------------------------
(* The list of open positions and the chunks of it                         *)

\* Some positions are at most Count many, and a list of them is as long.
LEMMA PositionsCount ==
    ASSUME NEW open \in SUBSET Positions
    PROVE  Cardinality(open) \in 0 .. Count
<1>1. IsFiniteSet(Positions) /\ Cardinality(Positions) = Count
  BY FS_Interval, SizesAssumption DEF Positions
<1>2. Cardinality(open) <= Cardinality(Positions) /\ IsFiniteSet(open)
  BY <1>1, FS_Subset
<1>3. Cardinality(open) \in Nat
  BY <1>2, FS_CardinalityType
<1> QED BY <1>1, <1>2, <1>3, SizesAssumption

\* Total is the length of todo.
LEMMA TotalIsLength ==
    ASSUME NEW n \in 0 .. Count, todo \in [0 .. n - 1 -> Positions]
    PROVE  Total = n
<1>1. DOMAIN todo = 0 .. n - 1
  OBVIOUS
<1>2. n \in Nat
  BY SizesAssumption
<1> QED BY <1>1, <1>2, FS_Interval, SizesAssumption DEF Total

\* The chunks do not go beyond the list.
LEMMA ChunkFits ==
    ASSUME TypeOK, offset < Total
    PROVE  offset + ChunkLength \in 0 .. Count
<1>1. PICK n \in 0 .. Count : todo \in [0 .. n - 1 -> Positions]
  BY DEF TypeOK
<1>2. Total = n
  BY <1>1, TotalIsLength
<1> QED BY <1>1, <1>2, SizesAssumption DEF TypeOK, ChunkLength

-----------------------------------------------------------------------------
(* Types                                                                   *)

\* While an answer is applied there is a chunk to apply it to.
ChunkOpen == pc = "apply" => offset < Total

TypeInv == TypeOK /\ ChunkOpen

LEMMA TypeStep == TypeInv /\ [Next]_vars => TypeInv'
<1> SUFFICES ASSUME TypeInv, [Next]_vars PROVE TypeInv'
  OBVIOUS
<1> USE DEF TypeInv
<1>1. CASE ConfirmAll
  <2>1. status' \in [Positions -> Verdicts]
    BY <1>1 DEF ConfirmAll, TypeOK, Verdicts
  <2> QED BY <1>1, <2>1 DEF ConfirmAll, TypeOK, ChunkOpen
<1>2. CASE Prefilter
  <2> DEFINE open == {p \in Positions : status'[p] = "open"}
  <2>1. PICK list \in [0 .. Cardinality(open) - 1 -> open] : todo' = list
    BY <1>2 DEF Prefilter
  <2>2. Cardinality(open) \in 0 .. Count
    BY PositionsCount
  <2>3. todo' \in [0 .. Cardinality(open) - 1 -> Positions]
    BY <2>1
  <2>4. status' \in [Positions -> Verdicts]
    BY <1>2 DEF Prefilter, TypeOK, Verdicts
  <2>5. \E n \in 0 .. Count : todo' \in [0 .. n - 1 -> Positions]
    BY <2>2, <2>3
  <2> QED BY <1>2, <2>4, <2>5 DEF Prefilter, TypeOK, ChunkOpen
<1>3. CASE AskChunk
  BY <1>3 DEF AskChunk, TypeOK, ChunkOpen, Total
<1>4. CASE SkipChunk
  <2>1. offset' \in 0 .. Count
    BY <1>4, ChunkFits DEF SkipChunk
  <2> QED BY <1>4, <2>1 DEF SkipChunk, TypeOK, ChunkOpen
<1>5. CASE Apply
  <2>1. PICK id \in AnswerIds, verdict \in Verdicts : ApplyItem(id, verdict)
    BY <1>5 DEF Apply
  <2>2. status' \in [Positions -> Verdicts]
    BY <2>1 DEF ApplyItem, TypeOK
  <2>3. said' \in [Positions -> Verdicts \cup {"nothing"}]
    BY <2>1 DEF ApplyItem, TypeOK
  <2> QED BY <2>1, <2>2, <2>3 DEF ApplyItem, TypeOK, ChunkOpen, Total
<1>6. CASE NextChunk
  <2>1. offset' \in 0 .. Count
    BY <1>6, ChunkFits DEF NextChunk, ChunkOpen
  <2> QED BY <1>6, <2>1 DEF NextChunk, TypeOK, ChunkOpen
<1>7. CASE AnswerRaises
  BY <1>7 DEF AnswerRaises, TypeOK, ChunkOpen
<1>8. CASE Finish
  BY <1>8 DEF Finish, TypeOK, ChunkOpen
<1>9. CASE UNCHANGED vars
  BY <1>9 DEF vars, TypeOK, ChunkOpen, Total
<1> QED BY <1>1, <1>2, <1>3, <1>4, <1>5, <1>6, <1>7, <1>8, <1>9 DEF Next

LEMMA TypeInit == Init => TypeInv
<1> SUFFICES ASSUME Init PROVE TypeInv
  OBVIOUS
<1>1. todo \in [0 .. 0 - 1 -> Positions] /\ 0 \in 0 .. Count
  BY SizesAssumption DEF Init
<1>2. \E n \in 0 .. Count : todo \in [0 .. n - 1 -> Positions]
  BY <1>1
<1> QED BY <1>2, SizesAssumption DEF Init, TypeInv, TypeOK, ChunkOpen, Verdicts

\* The statuses are of their type, the offset stays within the findings.
THEOREM TypeCorrect == Spec => []TypeOK
<1>1. TypeInv => TypeOK
  BY DEF TypeInv
<1> QED BY <1>1, TypeInit, TypeStep, PTL DEF Spec

-----------------------------------------------------------------------------
(* The verdicts of the rules                                               *)

\* The list leads to findings that no rule dismissed, before and after any
\* answer.
ListsOpen == \A i \in DOMAIN todo : todo[i] \in Positions /\ ~noise[todo[i]]

Inv == TypeOK /\ ListsOpen /\ RulesVerdictsStand

LEMMA VerdictsStep == Inv /\ TypeOK' /\ [Next]_vars => Inv'
<1> SUFFICES ASSUME Inv, TypeOK', [Next]_vars PROVE ListsOpen' /\ RulesVerdictsStand'
  BY DEF Inv
<1> USE DEF Inv
<1>1. CASE ConfirmAll
  BY <1>1 DEF ConfirmAll, ListsOpen, RulesVerdictsStand
<1>2. CASE Prefilter
  <2> DEFINE open == {p \in Positions : status'[p] = "open"}
  <2>1. PICK list \in [0 .. Cardinality(open) - 1 -> open] : todo' = list
    BY <1>2 DEF Prefilter
  <2>2. \A p \in Positions : noise[p] => status'[p] = "false_positive"
    BY <1>2 DEF Prefilter
  <2>3. \A i \in DOMAIN todo' : todo'[i] \in open
    BY <2>1
  <2>4. \A p \in open : p \in Positions /\ ~noise[p]
    BY <2>2
  <2>5. noise' = noise
    BY <1>2 DEF Prefilter
  <2> QED BY <2>2, <2>3, <2>4, <2>5 DEF ListsOpen, RulesVerdictsStand
<1>3. CASE AskChunk
  BY <1>3 DEF AskChunk, ListsOpen, RulesVerdictsStand
<1>4. CASE SkipChunk
  BY <1>4 DEF SkipChunk, ListsOpen, RulesVerdictsStand
<1>5. CASE Apply
  <2>1. PICK id \in AnswerIds, verdict \in Verdicts : ApplyItem(id, verdict)
    BY <1>5 DEF Apply
  <2>2. ListsOpen'
    BY <2>1 DEF ApplyItem, ListsOpen
  <2>3. ASSUME NEW p \in Positions, noise[p] PROVE status'[p] = status[p]
    BY <2>1, <2>3 DEF ApplyItem, ListsOpen, TypeOK
  <2> QED BY <2>1, <2>2, <2>3 DEF ApplyItem, RulesVerdictsStand
<1>6. CASE NextChunk
  BY <1>6 DEF NextChunk, ListsOpen, RulesVerdictsStand
<1>7. CASE AnswerRaises
  BY <1>7 DEF AnswerRaises, ListsOpen, RulesVerdictsStand
<1>8. CASE Finish
  BY <1>8 DEF Finish, ListsOpen, RulesVerdictsStand
<1>9. CASE UNCHANGED vars
  BY <1>9 DEF vars, ListsOpen, RulesVerdictsStand
<1> QED BY <1>1, <1>2, <1>3, <1>4, <1>5, <1>6, <1>7, <1>8, <1>9 DEF Next

\* A finding dismissed by a rule stays a false positive, for every answer of
\* the LLM: its ids reach listed findings only.
THEOREM RulesPrevail == Spec => []RulesVerdictsStand
<1>1. Init => Inv
  <2>1. Init => ListsOpen /\ RulesVerdictsStand
    BY DEF Init, ListsOpen, RulesVerdictsStand
  <2>2. Init => TypeOK
    BY TypeInit DEF TypeInv
  <2> QED BY <2>1, <2>2 DEF Inv
<1>2. Inv => RulesVerdictsStand
  BY DEF Inv
<1> QED BY <1>1, <1>2, TypeCorrect, VerdictsStep, PTL DEF Spec

-----------------------------------------------------------------------------
(* The verdicts of an LLM that numbers the items in one of two ways        *)

\* Findings that fit in one chunk are asked about once, at offset 0.
OneChunk ==
    Count <= ChunkSize => /\ pc = "rules" => offset = 0
                          /\ offset = 0 \/ offset >= Total

LEMMA OneChunkStep == TypeInv /\ OneChunk /\ [Next]_vars => OneChunk'
<1> SUFFICES ASSUME TypeInv, OneChunk, [Next]_vars, Count <= ChunkSize
             PROVE  (pc = "rules" => offset = 0)' /\ (offset = 0 \/ offset >= Total)'
  BY DEF OneChunk
<1>1. CASE ConfirmAll \/ Prefilter
  BY <1>1 DEF ConfirmAll, Prefilter, OneChunk
<1>2. CASE AskChunk \/ AnswerRaises \/ Finish
  BY <1>2 DEF AskChunk, AnswerRaises, Finish, OneChunk, Total
<1>3. CASE SkipChunk \/ NextChunk
  <2>1. offset < Total /\ offset' = offset + ChunkLength /\ todo' = todo /\ pc' = "chunk"
    BY <1>3 DEF SkipChunk, NextChunk, TypeInv, ChunkOpen
  <2>2. PICK n \in 0 .. Count : todo \in [0 .. n - 1 -> Positions]
    BY DEF TypeInv, TypeOK
  <2>3. Total = n /\ Total' = Total
    BY <2>1, <2>2, TotalIsLength DEF Total
  <2>4. offset = 0
    BY <2>1, <2>3, SizesAssumption DEF OneChunk, TypeInv, TypeOK
  <2>5. ChunkLength = Total
    BY <2>3, <2>4, SizesAssumption DEF ChunkLength
  <2> QED BY <2>1, <2>3, <2>4, <2>5, SizesAssumption
<1>4. CASE Apply
  BY <1>4 DEF Apply, ApplyItem, OneChunk, Total
<1>5. CASE UNCHANGED vars
  BY <1>5 DEF vars, OneChunk, Total
<1> QED BY <1>1, <1>2, <1>3, <1>4, <1>5 DEF Next

\* The code takes the ids of this LLM as they are meant.
Understood ==
    \/ convention = "from_zero"
    \/ convention = "as_asked" /\ Count <= ChunkSize

\* What became of p is what was said of it.
AsSaid(p) == status[p] = IF said[p] = "nothing" THEN "open" ELSE said[p]

\* Up to the end, too: before the rules nothing has been said, after them it
\* holds of the findings they left open.
Heard ==
    Understood /\ ~container =>
        \A p \in Positions : pc = "rules" \/ ~noise[p] => AsSaid(p)

HeardInv == TypeInv /\ OneChunk /\ Heard

LEMMA HeardStep == HeardInv /\ [Next]_vars => Heard'
<1> SUFFICES ASSUME TypeInv, TypeOK, OneChunk, Heard, [Next]_vars PROVE Heard'
  BY DEF HeardInv, TypeInv
<1> USE DEF Understood
<1>1. CASE ConfirmAll
  BY <1>1 DEF ConfirmAll, Heard
<1>2. CASE Prefilter
  BY <1>2 DEF Prefilter, Heard, AsSaid
<1>3. CASE Apply
  <2> SUFFICES ASSUME Understood, ~container, NEW p \in Positions, ~noise[p]
               PROVE  AsSaid(p)'
    BY <1>3 DEF Apply, ApplyItem, Heard
  <2>1. PICK id \in AnswerIds, verdict \in Verdicts : ApplyItem(id, verdict)
    BY <1>3 DEF Apply
  <2>2. Meant(id) = offset + id /\ AsSaid(p)
    <3>1. AsSaid(p)
      BY DEF Heard
    <3>2. CASE convention = "from_zero"
      BY <3>1, <3>2 DEF Meant
    <3>3. CASE convention = "as_asked" /\ Count <= ChunkSize
      <4>1. offset < Total
        BY <2>1 DEF ApplyItem, TypeInv, ChunkOpen
      <4>2. PICK n \in 0 .. Count : todo \in [0 .. n - 1 -> Positions]
        BY DEF TypeOK
      <4>3. Total = n
        BY <4>2, TotalIsLength
      <4>4. offset = 0
        BY <3>3, <4>1, <4>3, SizesAssumption DEF OneChunk, TypeOK
      <4>5. id \in offset .. offset + ChunkLength - 1
        BY <3>3 DEF AnswerIds, AskedIds
      <4>6. id \in Int
        BY <4>5
      <4> QED BY <3>1, <3>3, <4>4, <4>6 DEF Meant
    <3> QED BY <3>2, <3>3
  <2>3. CASE offset + id \in DOMAIN todo
    <3>1. /\ status' = [status EXCEPT ![todo[offset + id]] = verdict]
          /\ said' = [said EXCEPT ![todo[offset + id]] = verdict]
      BY <2>1, <2>2, <2>3 DEF ApplyItem
    <3>2. verdict /= "nothing"
      BY DEF Verdicts
    <3>3. /\ status'[p] = IF p = todo[offset + id] THEN verdict ELSE status[p]
          /\ said'[p] = IF p = todo[offset + id] THEN verdict ELSE said[p]
      BY <3>1 DEF TypeOK
    <3> QED BY <3>2, <3>3, <2>2 DEF AsSaid
  <2>4. CASE offset + id \notin DOMAIN todo
    BY <2>1, <2>2, <2>4 DEF ApplyItem, AsSaid
  <2> QED BY <2>3, <2>4
<1>4. CASE AskChunk \/ SkipChunk \/ NextChunk \/ AnswerRaises \/ Finish
  BY <1>4 DEF AskChunk, SkipChunk, NextChunk, AnswerRaises, Finish, Heard, AsSaid
<1>5. CASE UNCHANGED vars
  BY <1>5 DEF vars, Heard, AsSaid
<1> QED BY <1>1, <1>2, <1>3, <1>4, <1>5 DEF Next

\* All of this holds from the first step on.
LEMMA HeardAlways == Spec => []HeardInv
<1>1. Init => HeardInv
  <2>1. Init => Heard /\ OneChunk
    BY DEF Init, Heard, AsSaid, OneChunk
  <2> QED BY <2>1, TypeInit DEF HeardInv
<1>2. HeardInv /\ [Next]_vars => HeardInv'
  BY HeardStep, TypeStep, OneChunkStep DEF HeardInv
<1> QED BY <1>1, <1>2, PTL DEF Spec

\* An LLM that numbers every answer from 0, as the code expects, is heard: each
\* finding left open gets the verdict meant for it, and keeps its status if
\* none is, for any number of chunks and any order of the items.
THEOREM VerdictsFromZeroHeard == Spec => []VerdictFromZeroReachesItsFinding
<1>1. HeardInv => VerdictFromZeroReachesItsFinding
  BY DEF HeardInv, Heard, Understood, AsSaid, VerdictFromZeroReachesItsFinding,
         VerdictReachesItsFinding
<1> QED BY <1>1, HeardAlways, PTL

\* With no more findings than a chunk holds, the LLM that repeats the ids it was
\* shown is heard as well: what goes wrong needs a second chunk.
THEOREM OneChunkHeard == Spec => [](Count <= ChunkSize /\ convention = "as_asked"
                                       => VerdictReachesItsFinding)
<1>1. HeardInv => (Count <= ChunkSize /\ convention = "as_asked" => VerdictReachesItsFinding)
  BY DEF HeardInv, Heard, Understood, AsSaid, VerdictReachesItsFinding
<1> QED BY <1>1, HeardAlways, PTL
=============================================================================
