--------------------------- MODULE ValidationAgent --------------------------
(***************************************************************************)
(* The validator node of the agent graph                                   *)
(* (backend/agents/validation_agent.py): which status each finding of a    *)
(* scan gets.                                                              *)
(*                                                                         *)
(* classify_finding dismisses noise.  The findings still open are shown to *)
(* the LLM in chunks, each with an id, and the items of its answer name    *)
(* the finding they are about by that id.  An LLMError leaves a chunk as   *)
(* it is, any other error ends the scan.  Nothing is awaited between the   *)
(* items of an answer, which are steps here only to keep the steps small.  *)
(*                                                                         *)
(* Positions and ids count from 0, as in the code.                         *)
(***************************************************************************)
EXTENDS Integers, FiniteSets

CONSTANTS
    Count,      \* number of findings of the scan
    ChunkSize,  \* _CHUNK_SIZE
    Conventions \* the ways an LLM may number its items, see AnswerIds

ASSUME SizesAssumption == Count \in Nat /\ ChunkSize \in Nat \ {0}
ASSUME ConventionsAssumption == Conventions \subseteq {"as_asked", "from_zero", "any"}

VARIABLES
    convention, \* the way of this LLM
    container,  \* is target_type "container"?
    noise,      \* per finding: does classify_finding dismiss it?
    status,     \* FindingData.status
    todo,       \* to_validate_indices: from 0 to its length, the open positions
    offset,     \* the findings of todo before this chunk
    pc,         \* "rules", "chunk", "apply", "done", "failed"
    said        \* per finding: what the LLM last said of it (history)

vars == <<convention, container, noise, status, todo, offset, pc, said>>

Positions == 0 .. Count - 1

\* "odd" is any string the LLM makes up.
Verdicts == {"open", "confirmed", "false_positive", "odd"}

Ids == -Count .. 2 * Count

Total == Cardinality(DOMAIN todo)

TypeOK ==
    /\ convention \in Conventions
    /\ container \in BOOLEAN
    /\ noise \in [Positions -> BOOLEAN]
    /\ status \in [Positions -> Verdicts]
    /\ \E n \in 0 .. Count : todo \in [0 .. n - 1 -> Positions]
    /\ offset \in 0 .. Count
    /\ pc \in {"rules", "chunk", "apply", "done", "failed"}
    /\ said \in [Positions -> Verdicts \cup {"nothing"}]

Init ==
    /\ convention \in Conventions
    /\ container \in BOOLEAN
    /\ noise \in [Positions -> BOOLEAN]
    /\ status = [p \in Positions |-> "open"]
    /\ todo = [i \in {} |-> 0]
    /\ offset = 0
    /\ pc = "rules"
    /\ said = [p \in Positions |-> "nothing"]

-----------------------------------------------------------------------------
\* A container scan: every finding is a CVE with a score, confirm them all.
ConfirmAll ==
    /\ pc = "rules"
    /\ container
    /\ status' = [p \in Positions |-> IF status[p] = "open" THEN "confirmed" ELSE status[p]]
    /\ pc' = "done"
    /\ UNCHANGED <<convention, container, noise, todo, offset, said>>

Increasing(list) == \A i, j \in DOMAIN list : i < j => list[i] < list[j]

\* Mutant: all findings are shown to the LLM, the dismissed ones too.
Prefilter_ListsAll ==
    /\ pc = "rules"
    /\ ~container
    /\ status' = [p \in Positions |-> IF noise[p] THEN "false_positive" ELSE status[p]]
    /\ todo' = [i \in Positions |-> i]
    /\ pc' = "chunk"
    /\ UNCHANGED <<convention, container, noise, offset, said>>

\* The rules, then to_validate_indices.
Prefilter ==
    /\ pc = "rules"
    /\ ~container
    /\ status' = [p \in Positions |-> IF noise[p] THEN "false_positive" ELSE status[p]]
    /\ LET open == {p \in Positions : status'[p] = "open"}
       IN  \E list \in [0 .. Cardinality(open) - 1 -> open] :
              Increasing(list) /\ todo' = list
    /\ pc' = "chunk"
    /\ UNCHANGED <<convention, container, noise, offset, said>>

ChunkLength == IF Total - offset < ChunkSize THEN Total - offset ELSE ChunkSize

\* The ids shown with the findings of this chunk.
AskedIds == offset .. offset + ChunkLength - 1

\* The LLM may repeat the ids it was shown, number each answer from 0, or
\* write any integers.
AnswerIds ==
    CASE convention = "as_asked"  -> AskedIds
      [] convention = "from_zero" -> 0 .. ChunkLength - 1
      [] OTHER                    -> Ids

\* The finding an item with this id speaks of, according to the prompt.
Meant(id) == IF convention = "from_zero" THEN offset + id ELSE id

\* _validate_chunk: llm_complete answers with a JSON array.
AskChunk ==
    /\ pc = "chunk"
    /\ offset < Total
    /\ pc' = "apply"
    /\ UNCHANGED <<convention, container, noise, status, todo, offset, said>>

\* LLMError: unavailable, timed out twice, or no array in the answer.
SkipChunk ==
    /\ pc = "chunk"
    /\ offset < Total
    /\ offset' = offset + ChunkLength
    /\ UNCHANGED <<convention, container, noise, status, todo, pc, said>>

\* Mutant: the position in the chunk is taken for that in the findings.
ApplyItem_NoMapping(id, verdict) ==
    /\ pc = "apply"
    /\ said' = IF Meant(id) \in DOMAIN todo
               THEN [said EXCEPT ![todo[Meant(id)]] = verdict] ELSE said
    /\ status' = IF offset + id \in Positions
                 THEN [status EXCEPT ![offset + id] = verdict] ELSE status
    /\ UNCHANGED <<convention, container, noise, todo, offset, pc>>

\* One item of the answer; an id out of range is logged and skipped.
ApplyItem(id, verdict) ==
    /\ pc = "apply"
    /\ said' = IF Meant(id) \in DOMAIN todo
               THEN [said EXCEPT ![todo[Meant(id)]] = verdict] ELSE said
    /\ status' = IF offset + id \in DOMAIN todo
                 THEN [status EXCEPT ![todo[offset + id]] = verdict] ELSE status
    /\ UNCHANGED <<convention, container, noise, todo, offset, pc>>

\* The answer is over: some findings may have no item, some several.
NextChunk ==
    /\ pc = "apply"
    /\ offset' = offset + ChunkLength
    /\ pc' = "chunk"
    /\ UNCHANGED <<convention, container, noise, status, todo, said>>

\* Malformed JSON, an item that is no object, an id or a risk_score that is
\* no number: the error leaves the node and the scan fails.
AnswerRaises ==
    /\ pc = "apply"
    /\ pc' = "failed"
    /\ UNCHANGED <<convention, container, noise, status, todo, offset, said>>

Finish ==
    /\ pc = "chunk"
    /\ offset >= Total
    /\ pc' = "done"
    /\ UNCHANGED <<convention, container, noise, status, todo, offset, said>>

-----------------------------------------------------------------------------
Apply == \E id \in AnswerIds, verdict \in Verdicts : ApplyItem(id, verdict)

Next == \/ ConfirmAll \/ Prefilter \/ AskChunk \/ SkipChunk \/ Apply
        \/ NextChunk \/ AnswerRaises \/ Finish

Spec == Init /\ [][Next]_vars

-----------------------------------------------------------------------------
(* Properties                                                              *)

\* Whatever the LLM answers, it never speaks for a finding that the rules
\* dismissed: no id of it, in range or not, reaches one.
RulesVerdictsStand ==
    pc \notin {"rules"} /\ ~container =>
        \A p \in Positions : noise[p] => status[p] = "false_positive"

\* "Return a JSON array with one object per finding ... id: original index":
\* what the LLM says of a finding becomes its status, and a finding it says
\* nothing of stays open.
VerdictReachesItsFinding ==
    pc = "done" /\ ~container =>
        \A p \in Positions : ~noise[p] =>
            status[p] = IF said[p] = "nothing" THEN "open" ELSE said[p]

\* The same of an LLM that numbers each answer from 0, as the code expects it
\* to when it adds the offset of the chunk.
VerdictFromZeroReachesItsFinding == convention = "from_zero" => VerdictReachesItsFinding
=============================================================================
