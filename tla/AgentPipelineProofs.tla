------------------------- MODULE AgentPipelineProofs ------------------------
(***************************************************************************)
(* For any scans, runs, findings and answers of the LLM: whatever runs     *)
(* write the attack graph, stop half-way or are repeated, the endpoints    *)
(* answer with well-formed graphs, and with all of a run that completed;   *)
(* and the agents hand the graph node only what AttackGraph expects.       *)
(***************************************************************************)
EXTENDS AgentPipeline, TLAPS

-----------------------------------------------------------------------------
(* The inductive invariant                                                 *)

Writing == {"uses", "steps", "exploits", "next"}
OnStep == {"exploits", "next"}

\* An edge joins two nodes of one scan; the edges the views start from name
\* it, and a link between steps stays in its chain and ascends.
WellFormed(e) ==
    \/ e[1] = "HAS_FINDING" /\ e[3] \in FindingIds /\ e[2] = Owner(e[3])
    \/ e[1] = "HAS_CHAIN" /\ e[3] \in ChainIds /\ e[2] = e[3][1]
    \/ e[1] = "HAS_STEP" /\ e[3] \in StepIds /\ e[2] = e[3][1]
    \/ /\ e[1] = "USES_FINDING" /\ e[2] \in ChainIds
       /\ <<"Finding", e[3]>> \in nodes /\ e[3] \in FindingIds /\ Owner(e[3]) = e[2][1]
    \/ /\ e[1] = "EXPLOITS" /\ e[2] \in StepIds
       /\ <<"Finding", e[3]>> \in nodes /\ e[3] \in FindingIds /\ Owner(e[3]) = e[2][1][1]
    \/ /\ e[1] = "NEXT_STEP" /\ e[2] \in StepIds
       /\ <<"Step", e[3]>> \in nodes /\ e[3] \in StepIds
       /\ e[2][1] = e[3][1] /\ e[2][2] <= e[3][2]

EdgesWellFormed == \A e \in edges : WellFormed(e)

\* Every node can be reached from its scan.
RootedNode(n) ==
    /\ n[1] = "Finding" => <<"HAS_FINDING", Owner(n[2]), n[2]>> \in edges
    /\ n[1] = "Chain" => <<"HAS_CHAIN", n[2][1], n[2]>> \in edges
    /\ n[1] = "Step" => <<"HAS_STEP", n[2][1], n[2]>> \in edges

Rooted == \A n \in nodes : RootedNode(n)

\* A run was handed findings of its own, and chains about them.
HandedOwn(r) ==
    /\ handed[r].findings \subseteq OwnFindings(r)
    /\ handed[r].chains \in Seq(ChainsOver(OwnFindings(r)))
    /\ ingest[r].findings \subseteq OwnFindings(r)

\* The scan is there before anything is linked to it, and so is the chain.
ScanThere(r) ==
    ingest[r].pc \in Writing \cup {"findings"} => <<"Scan", scanOf[r]>> \in nodes

ChainThere(r) ==
    ingest[r].pc \in Writing =>
        /\ ingest[r].chain \in 1 .. Len(handed[r].chains)
        /\ <<"Chain", ChainOf(r)>> \in nodes
        /\ ingest[r].uses \subseteq Handed(r).uses
        /\ ingest[r].steps \subseteq DOMAIN Handed(r).steps

\* The steps still to be written come after the one at hand, and this after
\* the one before.
InOrder(r) ==
    /\ ingest[r].pc \in Writing =>
          \A q \in ingest[r].steps : ingest[r].prev <= StepAt(r, q).n
    /\ ingest[r].pc \in OnStep =>
          /\ ingest[r].cur \in DOMAIN Handed(r).steps
          /\ ingest[r].prev <= StepAt(r, ingest[r].cur).n
          /\ \A q \in ingest[r].steps : StepAt(r, ingest[r].cur).n <= StepAt(r, q).n

RunWell(r) == HandedOwn(r) /\ ScanThere(r) /\ ChainThere(r) /\ InOrder(r)

RunsWell == \A r \in Runs : RunWell(r)

GraphInv == GraphTypeOK /\ EdgesWellFormed /\ Rooted /\ RunsWell

-----------------------------------------------------------------------------
(* What follows from it                                                    *)

LEMMA ViewFollows == EdgesWellFormed /\ Rooted => ViewIsClosed
<1> SUFFICES ASSUME EdgesWellFormed, Rooted, NEW s \in Scans
             PROVE  /\ View(s).edge \subseteq View(s).node \X View(s).node
                    /\ BlastRadius(s) \subseteq FindingsOf(s)
  BY DEF ViewIsClosed
<1>1. \A e \in edges : e[1] = "HAS_CHAIN" /\ e[2] = s => e[3] \in ChainIds /\ e[3][1] = s
  BY DEF EdgesWellFormed, WellFormed
<1>2. \A c \in ChainsOf(s) : c \in ChainIds /\ c[1] = s
  BY <1>1 DEF ChainsOf
<1>3. \A e \in edges : e[1] = "HAS_STEP" => e[3] \in StepIds /\ e[2] = e[3][1]
  BY DEF EdgesWellFormed, WellFormed
<1>4. \A t \in AllStepsOf(s) : t[1] \in ChainsOf(s)
  BY <1>3 DEF AllStepsOf, StepsOf
<1>5. ASSUME NEW f \in FindingIds, <<"Finding", f>> \in nodes, Owner(f) = s
      PROVE  f \in FindingsOf(s)
  <2>1. <<"HAS_FINDING", s, f>> \in edges
    BY <1>5 DEF Rooted, RootedNode
  <2> QED BY <2>1 DEF FindingsOf
<1>6. ASSUME NEW t \in StepIds, <<"Step", t>> \in nodes, t[1] \in ChainsOf(s)
      PROVE  t \in AllStepsOf(s)
  <2>1. <<"HAS_STEP", t[1], t>> \in edges
    BY <1>6 DEF Rooted, RootedNode
  <2>2. t \in StepsOf(t[1])
    BY <2>1 DEF StepsOf
  <2> QED BY <2>2, <1>6 DEF AllStepsOf
<1>7. ASSUME NEW e \in edges, e[1] \in {"NEXT_STEP", "EXPLOITS"}, e[2] \in AllStepsOf(s)
      PROVE  e[3] \in ViewNodes(s)
  <2>1. e[2][1] \in ChainsOf(s) /\ e[2][1][1] = s
    BY <1>7, <1>4, <1>2
  <2>2. CASE e[1] = "NEXT_STEP"
    <3>1. e[3] \in StepIds /\ <<"Step", e[3]>> \in nodes /\ e[2][1] = e[3][1]
      BY <2>2 DEF EdgesWellFormed, WellFormed
    <3> QED BY <3>1, <2>1, <1>6 DEF ViewNodes
  <2>3. CASE e[1] = "EXPLOITS"
    <3>1. e[3] \in FindingIds /\ <<"Finding", e[3]>> \in nodes /\ Owner(e[3]) = e[2][1][1]
      BY <2>3 DEF EdgesWellFormed, WellFormed
    <3> QED BY <3>1, <2>1, <1>5 DEF ViewNodes
  <2> QED BY <1>7, <2>2, <2>3
<1>8. ASSUME NEW e \in edges, e[1] = "HAS_STEP", e[2] \in ChainsOf(s)
      PROVE  e[3] \in ViewNodes(s)
  <2>1. e[3] \in StepsOf(e[2])
    BY <1>8 DEF StepsOf
  <2> QED BY <2>1, <1>8 DEF ViewNodes, AllStepsOf
<1>9. ViewEdges(s) \subseteq ViewNodes(s) \X ViewNodes(s)
  <2> SUFFICES ASSUME NEW e \in edges,
                      \/ e[1] \in {"NEXT_STEP", "EXPLOITS"} /\ e[2] \in AllStepsOf(s)
                      \/ e[1] = "HAS_STEP" /\ e[2] \in ChainsOf(s)
               PROVE  e[2] \in ViewNodes(s) /\ e[3] \in ViewNodes(s)
    BY DEF ViewEdges
  <2> QED BY <1>7, <1>8 DEF ViewNodes
<1>10. BlastRadius(s) \subseteq FindingsOf(s)
  <2> SUFFICES ASSUME NEW e \in edges, e[1] = "USES_FINDING", e[2] \in ChainsOf(s)
               PROVE  e[3] \in FindingsOf(s)
    BY DEF BlastRadius
  <2>1. e[3] \in FindingIds /\ <<"Finding", e[3]>> \in nodes /\ Owner(e[3]) = e[2][1]
    BY DEF EdgesWellFormed, WellFormed
  <2> QED BY <2>1, <1>2, <1>5
<1> QED BY <1>9, <1>10 DEF View

LEMMA AscentFollows == EdgesWellFormed => NextStepAscends
BY DEF EdgesWellFormed, WellFormed, NextStepAscends

-----------------------------------------------------------------------------
(* The writes keep it                                                      *)

\* A run is not disturbed by another one, which only adds.
LEMMA OthersWell ==
    ASSUME NEW q \in Runs, RunWell(q), nodes \subseteq nodes', scanOf' = scanOf,
           ingest'[q] = ingest[q], handed'[q] = handed[q]
    PROVE  RunWell(q)'
<1>1. HandedOwn(q)' /\ ScanThere(q)'
  BY DEF RunWell, HandedOwn, ScanThere
<1>2. ChainThere(q)'
  BY DEF RunWell, ChainThere, ChainOf, Handed
<1>3. InOrder(q)'
  BY DEF RunWell, InOrder, Handed, StepAt
<1> QED BY <1>1, <1>2, <1>3 DEF RunWell

\* An action of a run keeps the invariant if what it adds and where it leaves
\* the run are in order: nothing else changes.
LEMMA StepFollows ==
    ASSUME GraphInv, NEW r \in Runs, NEW i \in Ingests, Continue(r, i),
           nodes \subseteq nodes', edges \subseteq edges',
           \A n \in nodes' \ nodes : n \in GraphNodes /\ RootedNode(n)',
           \A e \in edges' \ edges : WellFormed(e)',
           RunWell(r)'
    PROVE  GraphInv'
<1>1. GraphTypeOK'
  BY DEF GraphInv, GraphTypeOK, Continue
<1>2. EdgesWellFormed'
  <2>1. \A f : Owner(f)' = Owner(f)
    BY DEF Owner, Continue
  <2>2. \A e \in edges : WellFormed(e)
    BY DEF GraphInv, EdgesWellFormed
  <2>3. ASSUME NEW e \in edges PROVE WellFormed(e)'
    <3>1. WellFormed(e) /\ Owner(e[3])' = Owner(e[3])
      BY <2>1, <2>2
    <3>2. \A x : x \in nodes => x \in nodes'
      OBVIOUS
    <3> QED BY <3>1, <3>2 DEF WellFormed
  <2> QED BY <2>3 DEF EdgesWellFormed
<1>3. Rooted'
  <2>1. \A n \in nodes : RootedNode(n)'
    BY DEF GraphInv, Rooted, RootedNode, Owner, Continue
  <2> QED BY <2>1 DEF Rooted
<1>4. ASSUME NEW q \in Runs, q /= r
      PROVE  RunWell(q)'
  BY <1>4, OthersWell DEF Continue, GraphInv, GraphTypeOK, RunsWell
<1>5. RunsWell'
  BY <1>4 DEF RunsWell
<1> QED BY <1>1, <1>2, <1>3, <1>5 DEF GraphInv

\* Findings of a run belong to its scan.
LEMMA OwnIds ==
    ASSUME GraphTypeOK, NEW r \in Runs, NEW f \in OwnFindings(r)
    PROVE  f \in FindingIds /\ Owner(f) = scanOf[r]
BY DEF OwnFindings, FindingIds, Owner

LEMMA UnknownIsNone == Unknown \notin FindingIds /\ NoRef \notin FindingIds
BY DEF Unknown, NoRef, FindingIds

LEMMA NodeIds ==
    ASSUME GraphTypeOK
    PROVE  /\ \A x : <<"Finding", x>> \in nodes => x \in FindingIds
           /\ \A x : <<"Step", x>> \in nodes => x \in StepIds
           /\ \A x : <<"Chain", x>> \in nodes => x \in ChainIds
BY DEF GraphTypeOK, GraphNodes

LEMMA InSequence ==
    ASSUME NEW S, NEW t \in Seq(S), NEW p \in DOMAIN t
    PROVE  p \in Nat /\ t[p] \in S
OBVIOUS

LEMMA BuiltSeq ==
    ASSUME NEW S, NEW m \in Nat, NEW t, t = [p \in 1 .. m |-> t[p]], \A p \in 1 .. m : t[p] \in S
    PROVE  t \in Seq(S)
OBVIOUS

LEMMA WiderSeq ==
    ASSUME NEW S, NEW T, S \subseteq T
    PROVE  Seq(S) \subseteq Seq(T)
OBVIOUS

\* Chains about findings of a run are chains about its findings.
LEMMA ChainsTyped ==
    ASSUME NEW r \in Runs, NEW findings \in SUBSET OwnFindings(r), NEW chains \in Seq(ChainsOver(findings))
    PROVE  chains \in Seq(Chains) /\ chains \in Seq(ChainsOver(OwnFindings(r)))
<1>1. findings \subseteq FindingIds
  BY DEF OwnFindings, FindingIds
<1> DEFINE StepsOn(A) == [n : StepNumbers, on : A]
           of == StepsOn(findings \cup {Unknown, NoRef})
           own == StepsOn(OwnFindings(r) \cup {Unknown, NoRef})
           any == StepsOn(Refs \cup {NoRef})
<1>2. of \subseteq own /\ of \subseteq any
  BY <1>1 DEF Refs
<1>3. Seq(of) \subseteq Seq(own) /\ Seq(of) \subseteq Seq(any)
  <2> HIDE DEF of, own, any
  <2> QED BY <1>2, WiderSeq
<1>4. ASSUME NEW c \in ChainsOver(findings)
      PROVE  c \in Chains /\ c \in ChainsOver(OwnFindings(r))
  <2>1. /\ c = [uses |-> c.uses, steps |-> c.steps]
        /\ c.uses \subseteq findings \cup {Unknown} /\ c.steps \in Seq(of)
    BY DEF ChainsOver
  <2>2. c.steps \in Seq(own) /\ c.steps \in Seq(any)
    <3> HIDE DEF of, own, any
    <3> QED BY <2>1, <1>3, Zenon
  <2> QED BY <2>1, <2>2, <1>1 DEF Chains, ChainsOver, Refs
<1> QED BY <1>4, WiderSeq

\* What a run is at when it writes a chain.
LEMMA ChainAtHand ==
    ASSUME GraphInv, NEW r \in Runs, ingest[r].pc \in Writing
    PROVE  /\ ChainOf(r) \in ChainIds /\ ChainOf(r)[1] = scanOf[r]
           /\ ingest[r].uses \subseteq OwnFindings(r) \cup {Unknown}
           /\ \A p \in DOMAIN Handed(r).steps :
                 /\ p \in Nat /\ StepAt(r, p).n \in StepNumbers /\ StepAt(r, p).n \in Nat
                 /\ StepAt(r, p).on \in OwnFindings(r) \cup {Unknown, NoRef}
<1>1. RunWell(r) /\ ingest[r] \in Ingests /\ scanOf[r] \in Scans
  BY DEF GraphInv, RunsWell, GraphTypeOK
<1>2. handed[r].chains \in Seq(ChainsOver(OwnFindings(r)))
      /\ ingest[r].chain \in 1 .. Len(handed[r].chains)
  BY <1>1 DEF RunWell, HandedOwn, ChainThere
<1>3. Handed(r) \in ChainsOver(OwnFindings(r))
  BY <1>2 DEF Handed
<1>4. Handed(r).uses \subseteq OwnFindings(r) \cup {Unknown}
      /\ Handed(r).steps \in Seq([n : StepNumbers, on : OwnFindings(r) \cup {Unknown, NoRef}])
  BY <1>3 DEF ChainsOver
<1>5. ASSUME NEW p \in DOMAIN Handed(r).steps
      PROVE  /\ p \in Nat /\ StepAt(r, p).n \in StepNumbers /\ StepAt(r, p).n \in Nat
             /\ StepAt(r, p).on \in OwnFindings(r) \cup {Unknown, NoRef}
  <2>1. p \in Nat /\ Handed(r).steps[p] \in [n : StepNumbers, on : OwnFindings(r) \cup {Unknown, NoRef}]
    BY <1>4, InSequence
  <2> QED BY <2>1, StepNumbersAssumption DEF StepAt
<1>6. ChainOf(r) \in ChainIds /\ ChainOf(r)[1] = scanOf[r]
  BY <1>1, <1>2 DEF ChainOf, ChainId, ChainIds
<1>7. ingest[r].uses \subseteq OwnFindings(r) \cup {Unknown}
  BY <1>1, <1>4 DEF RunWell, ChainThere
<1> QED BY <1>5, <1>6, <1>7

LEMMA IngestScanKeeps ==
    ASSUME GraphInv, NEW r \in Runs, IngestScan(r)
    PROVE  GraphInv'
<1> DEFINE i == [ingest[r] EXCEPT !.pc = "findings"]
<1>1. ingest[r] \in Ingests /\ scanOf[r] \in Scans /\ ingest'[r] = i
  BY DEF GraphInv, GraphTypeOK, IngestScan, Continue
<1>2. i \in Ingests
  BY <1>1 DEF Ingests, Stages
<1>3. nodes' = nodes \cup {<<"Scan", scanOf[r]>>} /\ edges' = edges /\ Continue(r, i)
  BY DEF IngestScan, Merge
<1>4. \A n \in nodes' \ nodes : n \in GraphNodes /\ RootedNode(n)'
  BY <1>1, <1>3 DEF GraphNodes, RootedNode
<1>5. RunWell(r)'
  <2>1. RunWell(r)
    BY DEF GraphInv, RunsWell
  <2>2. i.pc = "findings" /\ i.findings = ingest[r].findings
    BY <1>1 DEF Ingests
  <2>3. ScanThere(r)'
    BY <1>3 DEF ScanThere, Continue
  <2>4. ChainThere(r)' /\ InOrder(r)'
    BY <1>1, <2>2 DEF ChainThere, InOrder, Writing, OnStep
  <2>5. HandedOwn(r)'
    BY <1>1, <1>3, <2>1, <2>2 DEF RunWell, HandedOwn, Continue
  <2> QED BY <2>3, <2>4, <2>5 DEF RunWell
<1> QED BY <1>2, <1>3, <1>4, <1>5, StepFollows

LEMMA IngestFindingKeeps ==
    ASSUME GraphInv, NEW r \in Runs, IngestFinding(r)
    PROVE  GraphInv'
<1>1. PICK f \in ingest[r].findings :
          /\ Merge("Finding", f)
          /\ Link(<<"Scan", scanOf[r]>>, "HAS_FINDING", <<"Finding", f>>)
          /\ Continue(r, [ingest[r] EXCEPT !.findings = @ \ {f}])
  BY DEF IngestFinding
<1> DEFINE i == [ingest[r] EXCEPT !.findings = @ \ {f}]
<1>2. ingest[r] \in Ingests /\ ingest'[r] = i /\ RunWell(r) /\ ingest[r].pc = "findings"
  BY <1>1 DEF GraphInv, RunsWell, GraphTypeOK, IngestFinding, Stage, Continue
<1>3. i \in Ingests /\ i.pc = "findings" /\ i.findings = ingest[r].findings \ {f}
  BY <1>2 DEF Ingests
<1>4. f \in FindingIds /\ Owner(f) = scanOf[r]
  BY <1>2, OwnIds DEF RunWell, HandedOwn, GraphInv
<1>5. <<"Scan", scanOf[r]>> \in nodes
  BY <1>2 DEF RunWell, ScanThere
<1>6. nodes' = nodes \cup {<<"Finding", f>>}
  BY <1>1 DEF Merge
<1>7. edges' = edges \cup {<<"HAS_FINDING", scanOf[r], f>>}
  BY <1>1, <1>5, <1>6 DEF Link, Joined
<1>8. \A n \in nodes' \ nodes : n \in GraphNodes /\ RootedNode(n)'
  BY <1>1, <1>4, <1>6, <1>7 DEF GraphNodes, RootedNode, Owner, Continue
<1>9. \A e \in edges' \ edges : WellFormed(e)'
  BY <1>1, <1>4, <1>7 DEF WellFormed, Owner, Continue
<1>10. RunWell(r)'
  <2>1. ScanThere(r)'
    BY <1>1, <1>5, <1>6 DEF ScanThere, Continue
  <2>2. ChainThere(r)' /\ InOrder(r)'
    BY <1>2, <1>3 DEF ChainThere, InOrder, Writing, OnStep
  <2>3. HandedOwn(r)'
    BY <1>1, <1>2, <1>3 DEF RunWell, HandedOwn, Continue
  <2> QED BY <2>1, <2>2, <2>3 DEF RunWell
<1> QED BY <1>1, <1>3, <1>6, <1>7, <1>8, <1>9, <1>10, StepFollows

LEMMA IngestChainKeeps ==
    ASSUME GraphInv, NEW r \in Runs, IngestChain(r)
    PROVE  GraphInv'
<1> DEFINE k == ingest[r].chain + 1
           c == ChainId(scanOf[r], k)
           i == [ingest[r] EXCEPT !.pc = "uses", !.chain = k, !.prev = 0,
                                  !.uses = handed[r].chains[k].uses,
                                  !.steps = DOMAIN handed[r].chains[k].steps]
<1>1. /\ ListWritten(r) /\ k <= Len(handed[r].chains)
      /\ Merge("Chain", c) /\ Continue(r, i)
      /\ Link(<<"Scan", scanOf[r]>>, "HAS_CHAIN", <<"Chain", c>>)
  BY DEF IngestChain
<1>2. ingest[r] \in Ingests /\ ingest'[r] = i /\ RunWell(r) /\ scanOf[r] \in Scans
  BY <1>1 DEF GraphInv, RunsWell, GraphTypeOK, Continue
<1>3. k \in Nat /\ k \in 1 .. Len(handed[r].chains)
  BY <1>1, <1>2 DEF Ingests, RunWell, HandedOwn
<1>4. handed[r].chains[k] \in ChainsOver(OwnFindings(r))
  BY <1>2, <1>3 DEF RunWell, HandedOwn
<1>5. /\ handed[r].chains[k].uses \subseteq Refs
      /\ handed[r].chains[k].steps \in Seq([n : StepNumbers, on : OwnFindings(r) \cup {Unknown, NoRef}])
  BY <1>4 DEF ChainsOver, Refs, FindingIds, OwnFindings
<1>6. \A p \in DOMAIN handed[r].chains[k].steps :
          p \in Nat /\ handed[r].chains[k].steps[p].n \in Nat
  <2> SUFFICES ASSUME NEW p \in DOMAIN handed[r].chains[k].steps
               PROVE  p \in Nat /\ handed[r].chains[k].steps[p].n \in Nat
    OBVIOUS
  <2>1. p \in Nat /\ handed[r].chains[k].steps[p]
                       \in [n : StepNumbers, on : OwnFindings(r) \cup {Unknown, NoRef}]
    BY <1>5, InSequence
  <2> QED BY <2>1, StepNumbersAssumption
<1>7. /\ i \in Ingests /\ i.pc = "uses" /\ i.chain = k /\ i.prev = 0
      /\ i.findings = ingest[r].findings
      /\ i.uses = handed[r].chains[k].uses
      /\ i.steps = DOMAIN handed[r].chains[k].steps
  BY <1>2, <1>3, <1>5, <1>6 DEF Ingests, Stages
<1>8. <<"Scan", scanOf[r]>> \in nodes
  BY <1>1, <1>2 DEF RunWell, ScanThere, ListWritten, Writing
<1>9. c \in ChainIds /\ c[1] = scanOf[r]
  BY <1>2, <1>3 DEF ChainId, ChainIds
<1>10. nodes' = nodes \cup {<<"Chain", c>>}
  BY <1>1 DEF Merge
<1>11. edges' = edges \cup {<<"HAS_CHAIN", scanOf[r], c>>}
  BY <1>1, <1>8, <1>10 DEF Link, Joined
<1>12. \A n \in nodes' \ nodes : n \in GraphNodes /\ RootedNode(n)'
  BY <1>9, <1>10, <1>11 DEF GraphNodes, RootedNode
<1>13. \A e \in edges' \ edges : WellFormed(e)'
  BY <1>9, <1>11 DEF WellFormed
<1>14. RunWell(r)'
  <2>1. scanOf' = scanOf /\ handed' = handed
    BY <1>1 DEF Continue
  <2>2. ScanThere(r)'
    BY <2>1, <1>8, <1>10 DEF ScanThere
  <2>3. Handed(r)' = handed[r].chains[k] /\ ChainOf(r)' = c
    BY <2>1, <1>2, <1>7 DEF Handed, ChainOf
  <2>4. ChainThere(r)'
    BY <2>1, <2>3, <1>2, <1>3, <1>7, <1>10 DEF ChainThere
  <2>5. InOrder(r)'
    <3>1. /\ ingest'[r].pc = "uses" /\ ingest'[r].prev = 0
          /\ ingest'[r].steps = DOMAIN handed[r].chains[k].steps
      BY <1>2, <1>7
    <3>2. \A q \in ingest'[r].steps : StepAt(r, q)'.n \in Nat
      BY <3>1, <2>3, <1>6 DEF StepAt
    <3> HIDE DEF k, i, c
    <3> QED BY <3>1, <3>2 DEF InOrder, OnStep
  <2>6. HandedOwn(r)'
    BY <2>1, <1>2, <1>7 DEF RunWell, HandedOwn
  <2> QED BY <2>2, <2>4, <2>5, <2>6 DEF RunWell
<1> QED BY <1>1, <1>7, <1>10, <1>11, <1>12, <1>13, <1>14, StepFollows

LEMMA LinkFindingKeeps ==
    ASSUME GraphInv, NEW r \in Runs, LinkFinding(r)
    PROVE  GraphInv'
<1>1. PICK f \in ingest[r].uses :
          /\ Link(<<"Chain", ChainOf(r)>>, "USES_FINDING", <<"Finding", f>>)
          /\ Continue(r, [ingest[r] EXCEPT !.uses = @ \ {f}])
  BY DEF LinkFinding
<1> DEFINE i == [ingest[r] EXCEPT !.uses = @ \ {f}]
<1>2. /\ ingest[r] \in Ingests /\ ingest'[r] = i /\ RunWell(r) /\ ingest[r].pc = "uses"
      /\ nodes' = nodes
  BY <1>1 DEF GraphInv, RunsWell, GraphTypeOK, LinkFinding, Stage, Continue
<1>3. /\ i \in Ingests /\ i.pc = "uses" /\ i.findings = ingest[r].findings
      /\ i.chain = ingest[r].chain /\ i.uses \subseteq ingest[r].uses
      /\ i.steps = ingest[r].steps /\ i.prev = ingest[r].prev
  BY <1>2 DEF Ingests
<1>4. /\ ChainOf(r) \in ChainIds /\ ChainOf(r)[1] = scanOf[r]
      /\ f \in OwnFindings(r) \cup {Unknown}
  BY <1>1, <1>2, ChainAtHand DEF Writing
<1>5. edges \subseteq edges'
      /\ \A e \in edges' \ edges : e = <<"USES_FINDING", ChainOf(r), f>> /\ <<"Finding", f>> \in nodes
  BY <1>1, <1>2 DEF Link, Joined
<1>6. \A e \in edges' \ edges : WellFormed(e)'
  <2> SUFFICES ASSUME NEW e \in edges' \ edges PROVE WellFormed(e)'
    OBVIOUS
  <2>1. f \in OwnFindings(r)
    BY <1>4, <1>5, NodeIds, UnknownIsNone DEF GraphInv
  <2>2. f \in FindingIds /\ Owner(f) = scanOf[r]
    BY <2>1, OwnIds DEF GraphInv
  <2> QED BY <2>2, <1>1, <1>2, <1>4, <1>5 DEF WellFormed, Owner, Continue
<1>7. RunWell(r)'
  <2>1. scanOf' = scanOf /\ handed' = handed
    BY <1>1 DEF Continue
  <2>2. ScanThere(r)' /\ HandedOwn(r)'
    BY <2>1, <1>2, <1>3 DEF RunWell, ScanThere, HandedOwn, Writing
  <2>3. Handed(r)' = Handed(r) /\ ChainOf(r)' = ChainOf(r)
    BY <2>1, <1>2, <1>3 DEF Handed, ChainOf
  <2>4. ChainThere(r)'
    BY <2>1, <2>3, <1>2, <1>3 DEF RunWell, ChainThere, Writing
  <2>5. InOrder(r)'
    BY <2>3, <1>2, <1>3 DEF RunWell, InOrder, StepAt, OnStep, Writing
  <2> QED BY <2>2, <2>4, <2>5 DEF RunWell
<1> QED BY <1>1, <1>2, <1>3, <1>5, <1>6, <1>7, StepFollows

\* What becomes of a run whose step at hand is written and linked.
LEMMA ToNextStepTyped ==
    ASSUME NEW i \in Ingests, NEW n \in Nat
    PROVE  /\ ToNextStep(i, n) \in Ingests
           /\ ToNextStep(i, n).findings = i.findings
           /\ ToNextStep(i, n).chain = i.chain
           /\ ToNextStep(i, n).uses = i.uses
           /\ ToNextStep(i, n).steps = i.steps
           /\ ToNextStep(i, n).cur = i.cur
           /\ \/ ToNextStep(i, n).pc = "steps" /\ ToNextStep(i, n).prev = n
              \/ ToNextStep(i, n).pc = "next" /\ ToNextStep(i, n).prev = i.prev
BY DEF ToNextStep, Ingests, Stages

\* A run that goes on with its chain is in order if what it has still to
\* write of it is.
LEMMA SameChain ==
    ASSUME GraphInv, NEW r \in Runs, NEW i \in Ingests, Continue(r, i),
           nodes \subseteq nodes',
           ingest[r].pc \in Writing, i.pc \in Writing, i.chain = ingest[r].chain,
           i.findings = ingest[r].findings,
           i.uses \subseteq ingest[r].uses, i.steps \subseteq ingest[r].steps,
           \A q \in i.steps : i.prev <= StepAt(r, q).n,
           i.pc \in OnStep => /\ i.cur \in DOMAIN Handed(r).steps
                              /\ i.prev <= StepAt(r, i.cur).n
                              /\ \A q \in i.steps : StepAt(r, i.cur).n <= StepAt(r, q).n
    PROVE  RunWell(r)'
<1>1. scanOf' = scanOf /\ handed' = handed /\ ingest'[r] = i /\ RunWell(r)
  BY DEF GraphInv, RunsWell, GraphTypeOK, Continue
<1>2. Handed(r)' = Handed(r) /\ ChainOf(r)' = ChainOf(r)
  BY <1>1 DEF Handed, ChainOf
<1>3. ScanThere(r)' /\ HandedOwn(r)'
  BY <1>1 DEF RunWell, ScanThere, HandedOwn
<1>4. ChainThere(r)'
  BY <1>1, <1>2 DEF RunWell, ChainThere
<1>5. InOrder(r)'
  BY <1>1, <1>2 DEF InOrder, StepAt
<1> QED BY <1>3, <1>4, <1>5 DEF RunWell

LEMMA IngestStepKeeps ==
    ASSUME GraphInv, NEW r \in Runs, IngestStep(r)
    PROVE  GraphInv'
<1> DEFINE new(p) ==
      LET n == StepAt(r, p).n
          i == [ingest[r] EXCEPT !.steps = @ \ {p}, !.cur = p]
      IN  IF StepAt(r, p).on = NoRef THEN ToNextStep(i, n) ELSE [i EXCEPT !.pc = "exploits"]
<1>1. PICK p \in ingest[r].steps :
          /\ ComesFirst(r, p)
          /\ Merge("Step", StepId(ChainOf(r), StepAt(r, p).n))
          /\ Link(<<"Chain", ChainOf(r)>>, "HAS_STEP",
                  <<"Step", StepId(ChainOf(r), StepAt(r, p).n)>>)
          /\ Continue(r, new(p))
  BY DEF IngestStep
<1> DEFINE n == StepAt(r, p).n
           t == StepId(ChainOf(r), n)
<1>2. ingest[r] \in Ingests /\ RunWell(r) /\ ingest[r].pc \in {"uses", "steps"}
  BY DEF GraphInv, RunsWell, GraphTypeOK, IngestStep, LinksWritten, Stage
<1>3. ChainThere(r) /\ InOrder(r)
  BY <1>2 DEF RunWell
<1>4. p \in DOMAIN Handed(r).steps /\ ingest[r].steps \subseteq DOMAIN Handed(r).steps
  BY <1>1, <1>2, <1>3 DEF ChainThere, Writing
<1>5. /\ ChainOf(r) \in ChainIds /\ p \in Nat /\ n \in Nat /\ n \in StepNumbers
      /\ \A q \in ingest[r].steps : StepAt(r, q).n \in Nat
  BY <1>2, <1>4, ChainAtHand DEF Writing
<1>6. <<"Chain", ChainOf(r)>> \in nodes /\ \A q \in ingest[r].steps : ingest[r].prev <= StepAt(r, q).n
  BY <1>2, <1>3 DEF ChainThere, InOrder, Writing
<1>7. \A q \in ingest[r].steps : n <= StepAt(r, q).n
  BY <1>1, <1>5 DEF ComesFirst
<1>8. /\ new(p) \in Ingests
      /\ new(p).findings = ingest[r].findings /\ new(p).chain = ingest[r].chain
      /\ new(p).uses = ingest[r].uses /\ new(p).steps = ingest[r].steps \ {p}
      /\ new(p).cur = p
      /\ \/ new(p).pc = "steps" /\ new(p).prev = n
         \/ new(p).pc \in OnStep /\ new(p).prev = ingest[r].prev
  <2> DEFINE i == [ingest[r] EXCEPT !.steps = @ \ {p}, !.cur = p]
  <2>1. /\ i \in Ingests /\ i.findings = ingest[r].findings /\ i.chain = ingest[r].chain
        /\ i.uses = ingest[r].uses /\ i.steps = ingest[r].steps \ {p} /\ i.cur = p
        /\ i.prev = ingest[r].prev
    BY <1>2, <1>5 DEF Ingests
  <2>2. CASE StepAt(r, p).on = NoRef
    <3>1. new(p) = ToNextStep(i, n)
      BY <2>2
    <3> HIDE DEF new, i
    <3> QED BY <3>1, <2>1, <1>5, ToNextStepTyped DEF OnStep
  <2>3. CASE StepAt(r, p).on /= NoRef
    <3>1. new(p) = [i EXCEPT !.pc = "exploits"]
      BY <2>3
    <3> HIDE DEF new, i
    <3> QED BY <3>1, <2>1 DEF Ingests, Stages, OnStep
  <2> QED BY <2>2, <2>3
<1> HIDE DEF new
<1>9. nodes' = nodes \cup {<<"Step", t>>}
  BY <1>1 DEF Merge
<1>10. edges' = edges \cup {<<"HAS_STEP", ChainOf(r), t>>}
  BY <1>1, <1>6, <1>9 DEF Link, Joined
<1>11. t \in StepIds /\ t[1] = ChainOf(r)
  BY <1>5 DEF StepId, StepIds
<1>12. \A m \in nodes' \ nodes : m \in GraphNodes /\ RootedNode(m)'
  <2> HIDE DEF t
  <2> QED BY <1>9, <1>10, <1>11 DEF GraphNodes, RootedNode
<1>13. \A e \in edges' \ edges : WellFormed(e)'
  <2> HIDE DEF t
  <2> QED BY <1>10, <1>11 DEF WellFormed
<1>14. \A q \in new(p).steps : new(p).prev <= StepAt(r, q).n
  BY <1>6, <1>7, <1>8
<1>15. new(p).pc \in OnStep => /\ new(p).prev <= n
                               /\ \A q \in new(p).steps : n <= StepAt(r, q).n
  BY <1>1, <1>6, <1>7, <1>8 DEF OnStep
<1>16. RunWell(r)'
  BY <1>1, <1>2, <1>4, <1>8, <1>9, <1>14, <1>15, SameChain DEF Writing, OnStep
<1> QED BY <1>1, <1>8, <1>9, <1>10, <1>12, <1>13, <1>16, StepFollows

\* The step at hand is one of those handed over.
LEMMA StepAtHand ==
    ASSUME GraphInv, NEW r \in Runs, ingest[r].pc \in OnStep
    PROVE  /\ ingest[r].cur \in DOMAIN Handed(r).steps
           /\ StepAt(r, ingest[r].cur).n \in Nat
           /\ StepAt(r, ingest[r].cur).on \in OwnFindings(r) \cup {Unknown, NoRef}
           /\ ingest[r].prev <= StepAt(r, ingest[r].cur).n
           /\ \A q \in ingest[r].steps : StepAt(r, ingest[r].cur).n <= StepAt(r, q).n
           /\ \A q \in ingest[r].steps : ingest[r].prev <= StepAt(r, q).n
           /\ CurId(r) = <<ChainOf(r), StepAt(r, ingest[r].cur).n>>
<1>1. InOrder(r) /\ ingest[r].pc \in Writing
  BY DEF GraphInv, RunsWell, RunWell, OnStep, Writing
<1>2. ingest[r].cur \in DOMAIN Handed(r).steps
  BY <1>1 DEF InOrder
<1> QED BY <1>1, <1>2, ChainAtHand DEF InOrder, CurId, StepId

LEMMA LinkExploitKeeps ==
    ASSUME GraphInv, NEW r \in Runs, LinkExploit(r)
    PROVE  GraphInv'
<1> DEFINE step == StepAt(r, ingest[r].cur)
           i == ToNextStep(ingest[r], step.n)
<1>1. /\ nodes' = nodes /\ ingest[r].pc = "exploits" /\ Continue(r, i)
      /\ Link(<<"Step", CurId(r)>>, "EXPLOITS", <<"Finding", step.on>>)
  BY DEF LinkExploit, Stage
<1>2. ingest[r] \in Ingests
  BY DEF GraphInv, GraphTypeOK
<1>3. /\ ingest[r].cur \in DOMAIN Handed(r).steps /\ step.n \in Nat
      /\ step.on \in OwnFindings(r) \cup {Unknown, NoRef}
      /\ ingest[r].prev <= step.n
      /\ \A q \in ingest[r].steps : step.n <= StepAt(r, q).n
      /\ \A q \in ingest[r].steps : ingest[r].prev <= StepAt(r, q).n
      /\ CurId(r)[1] = ChainOf(r)
  BY <1>1, StepAtHand DEF OnStep
<1>4. ChainOf(r)[1] = scanOf[r]
  BY <1>1, ChainAtHand DEF Writing
<1>5. /\ edges \subseteq edges'
      /\ \A e \in edges' \ edges : /\ e = <<"EXPLOITS", CurId(r), step.on>>
                                  /\ <<"Step", CurId(r)>> \in nodes
                                  /\ <<"Finding", step.on>> \in nodes
  BY <1>1 DEF Link, Joined
<1>6. \A e \in edges' \ edges : WellFormed(e)'
  <2> SUFFICES ASSUME NEW e \in edges' \ edges PROVE WellFormed(e)'
    OBVIOUS
  <2>1. CurId(r) \in StepIds /\ step.on \in OwnFindings(r)
    BY <1>3, <1>5, NodeIds, UnknownIsNone DEF GraphInv
  <2>2. step.on \in FindingIds /\ Owner(step.on) = scanOf[r]
    BY <2>1, OwnIds DEF GraphInv
  <2> HIDE DEF step, i
  <2> QED BY <2>1, <2>2, <1>1, <1>3, <1>4, <1>5 DEF WellFormed, Owner, Continue
<1>7. /\ i \in Ingests /\ i.findings = ingest[r].findings /\ i.chain = ingest[r].chain
      /\ i.uses = ingest[r].uses /\ i.steps = ingest[r].steps /\ i.cur = ingest[r].cur
      /\ \/ i.pc = "steps" /\ i.prev = step.n
         \/ i.pc = "next" /\ i.prev = ingest[r].prev
  BY <1>2, <1>3, ToNextStepTyped
<1> HIDE DEF i
<1>8. RunWell(r)'
  BY <1>1, <1>3, <1>7, SameChain DEF Writing, OnStep
<1> QED BY <1>1, <1>5, <1>6, <1>7, <1>8, StepFollows

LEMMA LinkNextStepKeeps ==
    ASSUME GraphInv, NEW r \in Runs, LinkNextStep(r)
    PROVE  GraphInv'
<1> DEFINE step == StepAt(r, ingest[r].cur)
           before == StepId(ChainOf(r), ingest[r].prev)
           i == [ingest[r] EXCEPT !.pc = "steps", !.prev = step.n]
<1>1. /\ nodes' = nodes /\ ingest[r].pc = "next" /\ Continue(r, i)
      /\ Link(<<"Step", before>>, "NEXT_STEP", <<"Step", CurId(r)>>)
  BY DEF LinkNextStep, Stage
<1>2. ingest[r] \in Ingests
  BY DEF GraphInv, GraphTypeOK
<1>3. /\ ingest[r].cur \in DOMAIN Handed(r).steps /\ step.n \in Nat
      /\ ingest[r].prev <= step.n
      /\ \A q \in ingest[r].steps : step.n <= StepAt(r, q).n
      /\ CurId(r) = <<ChainOf(r), step.n>>
  BY <1>1, StepAtHand DEF OnStep
<1>4. /\ edges \subseteq edges'
      /\ \A e \in edges' \ edges : /\ e = <<"NEXT_STEP", before, CurId(r)>>
                                  /\ <<"Step", before>> \in nodes
                                  /\ <<"Step", CurId(r)>> \in nodes
  BY <1>1 DEF Link, Joined
<1>5. \A e \in edges' \ edges : WellFormed(e)'
  <2> SUFFICES ASSUME NEW e \in edges' \ edges PROVE WellFormed(e)'
    OBVIOUS
  <2>1. before \in StepIds /\ CurId(r) \in StepIds
    BY <1>4, NodeIds DEF GraphInv
  <2>2. before[1] = CurId(r)[1] /\ before[2] <= CurId(r)[2]
    BY <1>3 DEF StepId
  <2> HIDE DEF before, step
  <2> QED BY <2>1, <2>2, <1>1, <1>4 DEF WellFormed
<1>6. /\ i \in Ingests /\ i.findings = ingest[r].findings /\ i.chain = ingest[r].chain
      /\ i.uses = ingest[r].uses /\ i.steps = ingest[r].steps
      /\ i.pc = "steps" /\ i.prev = step.n
  BY <1>2, <1>3 DEF Ingests, Stages
<1> HIDE DEF i
<1>7. RunWell(r)'
  BY <1>1, <1>3, <1>6, SameChain DEF Writing, OnStep
<1> QED BY <1>1, <1>4, <1>5, <1>6, <1>7, StepFollows

LEMMA IngestEndKeeps ==
    ASSUME GraphInv, NEW r \in Runs, IngestCompletes(r) \/ IngestFails(r)
    PROVE  GraphInv'
<1>1. PICK pc \in {"completed", "failed"} : Continue(r, [NotBegun EXCEPT !.pc = pc])
  BY DEF IngestCompletes, IngestFails
<1> DEFINE i == [NotBegun EXCEPT !.pc = pc]
<1>2. i \in Ingests /\ i.findings = {} /\ i.pc = pc
  BY DEF NotBegun, Ingests, Stages
<1>3. UNCHANGED <<nodes, edges>>
  BY DEF IngestCompletes, IngestFails
<1>4. RunWell(r)'
  <2>1. RunWell(r) /\ ingest'[r] = i /\ handed' = handed
    BY <1>1 DEF GraphInv, RunsWell, GraphTypeOK, Continue
  <2> HIDE DEF i
  <2> QED BY <2>1, <1>2 DEF RunWell, HandedOwn, ScanThere, ChainThere, InOrder, Writing, OnStep
<1> QED BY <1>1, <1>2, <1>3, <1>4, StepFollows

LEMMA StartIngestKeeps ==
    ASSUME GraphInv, NEW r \in Runs, NEW findings \in SUBSET OwnFindings(r),
           NEW chains \in Seq(ChainsOver(findings)), StartIngest(r, findings, chains)
    PROVE  GraphInv'
<1> DEFINE i == [NotBegun EXCEPT !.pc = "scan", !.findings = findings]
<1>1. /\ UNCHANGED <<scanOf, nodes, edges>> /\ ingest' = [ingest EXCEPT ![r] = i]
      /\ handed' = [handed EXCEPT ![r] = [findings |-> findings, chains |-> chains]]
  BY DEF StartIngest
<1>2. findings \subseteq FindingIds
  BY DEF OwnFindings, FindingIds
<1>3. i \in Ingests /\ i.findings = findings /\ i.pc = "scan"
  BY <1>2 DEF NotBegun, Ingests, Stages
<1> HIDE DEF i
<1>5. chains \in Seq(Chains) /\ chains \in Seq(ChainsOver(OwnFindings(r)))
  BY ChainsTyped
<1>6. GraphTypeOK'
  BY <1>1, <1>2, <1>3, <1>5 DEF GraphInv, GraphTypeOK
<1>7. EdgesWellFormed' /\ Rooted'
  BY <1>1 DEF GraphInv, EdgesWellFormed, WellFormed, Owner, Rooted, RootedNode
<1>8. ASSUME NEW q \in Runs PROVE RunWell(q)'
  <2>1. CASE q = r
    <3>1. ingest'[q] = i /\ handed'[q] = [findings |-> findings, chains |-> chains]
      BY <2>1, <1>1 DEF GraphInv, GraphTypeOK
    <3>2. HandedOwn(q)'
      BY <3>1, <2>1, <1>3, <1>5 DEF HandedOwn
    <3> QED BY <3>1, <3>2, <1>3 DEF RunWell, ScanThere, ChainThere, InOrder, Writing, OnStep
  <2>2. CASE q /= r
    BY <2>2, <1>1, OthersWell DEF GraphInv, GraphTypeOK, RunsWell
  <2> QED BY <2>1, <2>2
<1> QED BY <1>6, <1>7, <1>8 DEF GraphInv, RunsWell

LEMMA GraphInitInv == GraphInit => GraphInv
<1> SUFFICES ASSUME GraphInit PROVE GraphInv
  OBVIOUS
<1>1. NotBegun \in Ingests /\ NotBegun.pc = "idle" /\ NotBegun.findings = {}
  BY DEF NotBegun, Ingests, Stages
<1>2. GraphTypeOK
  BY <1>1 DEF GraphInit, GraphTypeOK, NothingHanded
<1>3. EdgesWellFormed /\ Rooted
  BY DEF GraphInit, EdgesWellFormed, Rooted
<1>4. ASSUME NEW r \in Runs PROVE RunWell(r)
  <2>1. ingest[r] = NotBegun /\ handed[r] = NothingHanded
    BY DEF GraphInit
  <2>2. HandedOwn(r)
    BY <2>1, <1>1 DEF HandedOwn, NothingHanded
  <2> QED BY <2>1, <2>2, <1>1 DEF RunWell, ScanThere, ChainThere, InOrder, Writing, OnStep
<1> QED BY <1>2, <1>3, <1>4 DEF GraphInv, RunsWell

LEMMA GraphStep == GraphInv /\ [GraphNext]_graphVars => GraphInv'
<1> SUFFICES ASSUME GraphInv, [GraphNext]_graphVars PROVE GraphInv'
  OBVIOUS
<1>1. ASSUME NEW r \in Runs, Ingest(r) PROVE GraphInv'
  BY <1>1, IngestScanKeeps, IngestFindingKeeps, IngestChainKeeps, LinkFindingKeeps,
     IngestStepKeeps, LinkExploitKeeps, LinkNextStepKeeps, IngestEndKeeps DEF Ingest
<1>2. CASE GraphNext
  BY <1>1, <1>2, StartIngestKeeps DEF GraphNext
<1>3. CASE UNCHANGED graphVars
  <2>1. GraphTypeOK'
    BY <1>3 DEF graphVars, GraphInv, GraphTypeOK
  <2>2. EdgesWellFormed' /\ Rooted'
    BY <1>3 DEF graphVars, GraphInv, EdgesWellFormed, WellFormed, Owner, Rooted, RootedNode
  <2>3. RunsWell'
    BY <1>3, OthersWell DEF graphVars, GraphInv, RunsWell
  <2> QED BY <2>1, <2>2, <2>3 DEF GraphInv
<1> QED BY <1>2, <1>3

\* The graph writer by itself, whoever hands it findings of a run and chains
\* about them, keeps the invariant.
THEOREM GraphIsSound == GraphSpec => []GraphInv
<1> QED BY GraphInitInv, GraphStep, PTL DEF GraphSpec

-----------------------------------------------------------------------------
(* What a run has written, and nothing else                                *)

Parts(r, i) == DOMAIN handed[r].chains[i].steps
Part(r, i, p) == handed[r].chains[i].steps[p]
PartId(r, i, p) == StepId(ChainId(scanOf[r], i), Part(r, i, p).n)

\* An edge that a run means to draw.
DrawnBy(r, e) ==
    \/ e[1] = "USES_FINDING"
    \/ e[1] = "HAS_FINDING" /\ e[2] = scanOf[r] /\ e[3] \in handed[r].findings
    \/ /\ e[1] = "HAS_CHAIN" /\ e[2] = scanOf[r]
       /\ \E i \in DOMAIN handed[r].chains : e[3] = ChainId(scanOf[r], i)
    \/ \E i \in DOMAIN handed[r].chains : \E p \in Parts(r, i) :
          \/ /\ e[1] = "HAS_STEP"
             /\ e[2] = ChainId(scanOf[r], i) /\ e[3] = PartId(r, i, p)
          \/ /\ e[1] = "EXPLOITS"
             /\ e[2] = PartId(r, i, p) /\ e[3] = Part(r, i, p).on
             /\ e[3] \in handed[r].findings
          \/ /\ e[1] = "NEXT_STEP" /\ e[2] = PartId(r, i, p)
             /\ \E q \in Parts(r, i) : /\ Consecutive(handed[r].chains[i], p, q)
                                       /\ e[3] = PartId(r, i, q)

\* Every edge is one that a run which has begun means to draw.
AllDrawn == \A e \in edges : \E r \in Runs : ~Stage(r, "idle") /\ DrawnBy(r, e)

StepWritten(r, i, p) ==
    /\ <<"Step", PartId(r, i, p)>> \in nodes
    /\ Part(r, i, p).on \in handed[r].findings =>
          <<"EXPLOITS", PartId(r, i, p), Part(r, i, p).on>> \in edges

LinkWritten(r, i, p, q) ==
    Consecutive(handed[r].chains[i], p, q) =>
        <<"NEXT_STEP", PartId(r, i, p), PartId(r, i, q)>> \in edges

StepsWritten(r, i, S) ==
    /\ \A p \in S : StepWritten(r, i, p)
    /\ \A p, q \in S : LinkWritten(r, i, p, q)

ChainWritten(r, i) ==
    <<"Chain", ChainId(scanOf[r], i)>> \in nodes /\ StepsWritten(r, i, Parts(r, i))

\* The steps of the chain at hand that the run is done with.
DoneSteps(r) ==
    DOMAIN Handed(r).steps
        \ (ingest[r].steps \cup IF ingest[r].pc \in OnStep THEN {ingest[r].cur} ELSE {})

FindingsDone(r) ==
    /\ handed[r].chains \in Seq(ChainsOver(handed[r].findings))
    /\ ingest[r].findings \subseteq handed[r].findings
    /\ ingest[r].pc = "scan" => ingest[r].findings = handed[r].findings
    /\ ingest[r].pc \in {"scan", "findings"} =>
          ingest[r].chain = 0 /\ ingest[r].uses = {} /\ ingest[r].steps = {}
    /\ ingest[r].pc \in Writing \cup {"findings", "completed"} =>
          \A f \in handed[r].findings \ ingest[r].findings : <<"Finding", f>> \in nodes
    /\ ingest[r].pc \in Writing \cup {"completed"} => ingest[r].findings = {}

ChainsDone(r) ==
    /\ ingest[r].pc \in Writing => \A i \in 1 .. ingest[r].chain - 1 : ChainWritten(r, i)
    /\ ingest[r].pc = "completed" => \A i \in DOMAIN handed[r].chains : ChainWritten(r, i)

StepsDone(r) ==
    ingest[r].pc \in Writing => StepsWritten(r, ingest[r].chain, DoneSteps(r))

Last(r, p) ==
    /\ p \in DoneSteps(r) /\ StepAt(r, p).n = ingest[r].prev
    /\ \A m \in DoneSteps(r) : m = p \/ Before(Handed(r), m, p)

\* The steps are done in order, and the one before is the last of them.
DoneInOrder(r) ==
    /\ ingest[r].pc \in Writing =>
          /\ \A p \in DoneSteps(r), q \in ingest[r].steps : Before(Handed(r), p, q)
          /\ IF ingest[r].prev = 0 THEN DoneSteps(r) = {} ELSE \E p \in DoneSteps(r) : Last(r, p)
    /\ ingest[r].pc \in OnStep =>
          /\ ingest[r].cur \notin ingest[r].steps
          /\ <<"Step", CurId(r)>> \in nodes
          /\ \A p \in DoneSteps(r) : Before(Handed(r), p, ingest[r].cur)
          /\ \A q \in ingest[r].steps : Before(Handed(r), ingest[r].cur, q)
    /\ ingest[r].pc = "next" =>
          ingest[r].prev /= 0 /\ StepWritten(r, ingest[r].chain, ingest[r].cur)

RunDone(r) == FindingsDone(r) /\ ChainsDone(r) /\ StepsDone(r) /\ DoneInOrder(r)

MirrorInv == AllDrawn /\ \A r \in Runs : RunDone(r)

\* What the view of a run consists of, part by part.
LEMMA DrawnParts ==
    ASSUME NEW r \in Runs
    PROVE  LET drawn == Drawn(scanOf[r], handed[r].findings, handed[r].chains) IN
           /\ \A x : x \in drawn.node <=>
                 \/ x \in handed[r].findings
                 \/ \E i \in DOMAIN handed[r].chains :
                       \/ x = ChainId(scanOf[r], i)
                       \/ \E p \in Parts(r, i) : x = PartId(r, i, p)
           /\ \A z : z \in drawn.edge <=>
                 \E i \in DOMAIN handed[r].chains : \E p \in Parts(r, i) :
                    \/ z = <<ChainId(scanOf[r], i), PartId(r, i, p)>>
                    \/ /\ Part(r, i, p).on \in handed[r].findings
                       /\ z = <<PartId(r, i, p), Part(r, i, p).on>>
                    \/ \E q \in Parts(r, i) : /\ Consecutive(handed[r].chains[i], p, q)
                                              /\ z = <<PartId(r, i, p), PartId(r, i, q)>>
<1> DEFINE s == scanOf[r]
           fs == handed[r].findings
           cs == handed[r].chains
           parts == UNION {{i} \X Steps(cs[i]) : i \in DOMAIN cs}
           step(x) == cs[x[1]].steps[x[2]]
           id(x) == StepId(ChainId(s, x[1]), step(x).n)
           follows(x, y) == x[1] = y[1] /\ Consecutive(cs[x[1]], x[2], y[2])
           node == fs \cup {ChainId(s, i) : i \in DOMAIN cs} \cup {id(x) : x \in parts}
           edge == {<<ChainId(s, x[1]), id(x)>> : x \in parts}
                   \cup {<<id(x), step(x).on>> : x \in {x \in parts : step(x).on \in fs}}
                   \cup {<<id(z[1]), id(z[2])>> :
                            z \in {z \in parts \X parts : follows(z[1], z[2])}}
<1>1. Drawn(s, fs, cs) = [node |-> node, edge |-> edge]
  BY DEF Drawn
<1>2. \A x : x \in parts <=> \E i \in DOMAIN cs : \E p \in Steps(cs[i]) : x = <<i, p>>
  OBVIOUS
<1>3. \A i, p : step(<<i, p>>) = Part(r, i, p) /\ id(<<i, p>>) = PartId(r, i, p)
  BY DEF Part, PartId
<1>4. \A i : Steps(cs[i]) = Parts(r, i)
  BY DEF Steps, Parts
<1> HIDE DEF parts
<1>5. \A x : x \in node <=>
         \/ x \in fs
         \/ \E i \in DOMAIN cs : x = ChainId(s, i) \/ \E p \in Parts(r, i) : x = PartId(r, i, p)
  <2>1. \A x : x \in {id(y) : y \in parts} <=>
           \E i \in DOMAIN cs : \E p \in Parts(r, i) : x = PartId(r, i, p)
    <3> HIDE DEF id, step
    <3>1. ASSUME NEW y \in parts
          PROVE  \E i \in DOMAIN cs : \E p \in Parts(r, i) : id(y) = PartId(r, i, p)
      BY <1>2, <1>3, <1>4
    <3>2. ASSUME NEW i \in DOMAIN cs, NEW p \in Parts(r, i)
          PROVE  \E y \in parts : PartId(r, i, p) = id(y)
      <4>1. <<i, p>> \in parts
        BY <1>2, <1>4
      <4> QED BY <1>3, <4>1
    <3> QED BY <3>1, <3>2
  <2> HIDE DEF id
  <2> QED BY <2>1
<1> DEFINE E1 == {<<ChainId(s, x[1]), id(x)>> : x \in parts}
           E2 == {<<id(x), step(x).on>> : x \in {x \in parts : step(x).on \in fs}}
           E3 == {<<id(z[1]), id(z[2])>> : z \in {z \in parts \X parts : follows(z[1], z[2])}}
<1>6. \A z : z \in E1 <=> \E i \in DOMAIN cs : \E p \in Parts(r, i) :
                             z = <<ChainId(s, i), PartId(r, i, p)>>
  <2> HIDE DEF id, step
  <2>1. ASSUME NEW x \in parts
        PROVE  \E i \in DOMAIN cs : \E p \in Parts(r, i) :
                  <<ChainId(s, x[1]), id(x)>> = <<ChainId(s, i), PartId(r, i, p)>>
    <3>1. PICK i \in DOMAIN cs : \E p \in Parts(r, i) : x = <<i, p>>
      BY <1>2, <1>4
    <3>2. PICK p \in Parts(r, i) : x = <<i, p>>
      BY <3>1
    <3> QED BY <1>3, <3>2
  <2>2. ASSUME NEW i \in DOMAIN cs, NEW p \in Parts(r, i)
        PROVE  \E x \in parts :
                  <<ChainId(s, x[1]), id(x)>> = <<ChainId(s, i), PartId(r, i, p)>>
    <3>1. <<i, p>> \in parts /\ <<i, p>>[1] = i
      BY <1>2, <1>4
    <3> QED BY <1>3, <3>1
  <2> QED BY <2>1, <2>2
<1>7. \A z : z \in E2 <=> \E i \in DOMAIN cs : \E p \in Parts(r, i) :
                             Part(r, i, p).on \in fs /\ z = <<PartId(r, i, p), Part(r, i, p).on>>
  <2> HIDE DEF id, step
  <2>1. ASSUME NEW x \in parts, step(x).on \in fs
        PROVE  \E i \in DOMAIN cs : \E p \in Parts(r, i) :
                  /\ Part(r, i, p).on \in fs
                  /\ <<id(x), step(x).on>> = <<PartId(r, i, p), Part(r, i, p).on>>
    <3>1. PICK i \in DOMAIN cs : \E p \in Parts(r, i) : x = <<i, p>>
      BY <1>2, <1>4
    <3>2. PICK p \in Parts(r, i) : x = <<i, p>>
      BY <3>1
    <3> QED BY <1>3, <2>1, <3>2
  <2>2. ASSUME NEW i \in DOMAIN cs, NEW p \in Parts(r, i), Part(r, i, p).on \in fs
        PROVE  \E x \in {x \in parts : step(x).on \in fs} :
                  <<id(x), step(x).on>> = <<PartId(r, i, p), Part(r, i, p).on>>
    <3>1. <<i, p>> \in parts
      BY <1>2, <1>4
    <3> QED BY <1>3, <2>2, <3>1
  <2> QED BY <2>1, <2>2
<1>8. \A z : z \in E3 <=> \E i \in DOMAIN cs : \E p, q \in Parts(r, i) :
                             /\ Consecutive(cs[i], p, q)
                             /\ z = <<PartId(r, i, p), PartId(r, i, q)>>
  <2> HIDE DEF id, step
  <2>1. ASSUME NEW z \in E3
        PROVE  \E i \in DOMAIN cs : \E p, q \in Parts(r, i) :
                  /\ Consecutive(cs[i], p, q) /\ z = <<PartId(r, i, p), PartId(r, i, q)>>
    <3>1. PICK x \in parts, y \in parts : follows(x, y) /\ z = <<id(x), id(y)>>
      OBVIOUS
    <3>2. PICK i \in DOMAIN cs : \E p \in Parts(r, i) : x = <<i, p>>
      BY <1>2, <1>4
    <3>3. PICK j \in DOMAIN cs : \E q \in Parts(r, j) : y = <<j, q>>
      BY <1>2, <1>4
    <3>4. PICK p \in Parts(r, i) : x = <<i, p>>
      BY <3>2
    <3>5. PICK q \in Parts(r, j) : y = <<j, q>>
      BY <3>3
    <3>6. j = i /\ Consecutive(cs[i], p, q)
      BY <3>1, <3>4, <3>5
    <3> QED BY <1>3, <3>1, <3>4, <3>5, <3>6
  <2>2. ASSUME NEW i \in DOMAIN cs, NEW p \in Parts(r, i), NEW q \in Parts(r, i),
               Consecutive(cs[i], p, q)
        PROVE  <<PartId(r, i, p), PartId(r, i, q)>> \in E3
    <3>1. <<i, p>> \in parts /\ <<i, q>> \in parts
      BY <1>2, <1>4
    <3>2. follows(<<i, p>>, <<i, q>>)
      BY <2>2
    <3>3. <<id(<<i, p>>), id(<<i, q>>)>> \in E3
      <4> DEFINE w == <<<<i, p>>, <<i, q>>>>
      <4>1. w \in parts \X parts /\ follows(w[1], w[2])
        BY <3>1, <3>2
      <4> QED BY <4>1
    <3> QED BY <1>3, <3>3
  <2> HIDE DEF E3
  <2> QED BY <2>1, <2>2
<1>9. edge = E1 \cup E2 \cup E3
  OBVIOUS
<1> HIDE DEF E1, E2, E3, edge, node
<1>10. \A z : z \in edge <=>
          \E i \in DOMAIN cs : \E p \in Parts(r, i) :
             \/ z = <<ChainId(s, i), PartId(r, i, p)>>
             \/ Part(r, i, p).on \in fs /\ z = <<PartId(r, i, p), Part(r, i, p).on>>
             \/ \E q \in Parts(r, i) : /\ Consecutive(cs[i], p, q)
                                       /\ z = <<PartId(r, i, p), PartId(r, i, q)>>
  BY <1>6, <1>7, <1>8, <1>9
<1> QED BY <1>1, <1>5, <1>10

\* The parts of a run's chains are identified below its scan.
LEMMA PartIds ==
    ASSUME GraphInv, NEW r \in Runs, NEW i \in DOMAIN handed[r].chains
    PROVE  /\ i \in Nat /\ ChainId(scanOf[r], i) \in ChainIds
           /\ ChainId(scanOf[r], i)[1] = scanOf[r]
           /\ handed[r].chains[i].steps \in
                 Seq([n : StepNumbers, on : OwnFindings(r) \cup {Unknown, NoRef}])
           /\ \A p \in Parts(r, i) :
                 /\ p \in Nat /\ Part(r, i, p).n \in StepNumbers /\ Part(r, i, p).n \in Nat
                 /\ Part(r, i, p).on \in OwnFindings(r) \cup {Unknown, NoRef}
                 /\ PartId(r, i, p) \in StepIds
                 /\ PartId(r, i, p)[1] = ChainId(scanOf[r], i)
<1>1. handed[r].chains \in Seq(ChainsOver(OwnFindings(r))) /\ scanOf[r] \in Scans
  BY DEF GraphInv, RunsWell, RunWell, HandedOwn, GraphTypeOK
<1>2. handed[r].chains[i] \in ChainsOver(OwnFindings(r)) /\ i \in Nat
  BY <1>1, InSequence
<1>3. handed[r].chains[i].steps \in
         Seq([n : StepNumbers, on : OwnFindings(r) \cup {Unknown, NoRef}])
  BY <1>2 DEF ChainsOver
<1>4. ChainId(scanOf[r], i) \in ChainIds /\ ChainId(scanOf[r], i)[1] = scanOf[r]
  BY <1>1, <1>2 DEF ChainId, ChainIds
<1>5. ASSUME NEW p \in Parts(r, i)
      PROVE  /\ p \in Nat /\ Part(r, i, p).n \in StepNumbers /\ Part(r, i, p).n \in Nat
             /\ Part(r, i, p).on \in OwnFindings(r) \cup {Unknown, NoRef}
             /\ PartId(r, i, p) \in StepIds
             /\ PartId(r, i, p)[1] = ChainId(scanOf[r], i)
  <2>1. p \in Nat /\ handed[r].chains[i].steps[p] \in
                        [n : StepNumbers, on : OwnFindings(r) \cup {Unknown, NoRef}]
    BY <1>3, InSequence DEF Parts
  <2>2. Part(r, i, p).n \in StepNumbers /\ Part(r, i, p).n \in Nat
    BY <2>1, StepNumbersAssumption DEF Part
  <2> QED BY <1>4, <2>1, <2>2 DEF Part, PartId, StepId, StepIds
<1> QED BY <1>2, <1>3, <1>4, <1>5

\* What is in the graph is in the view of its scan.
LEMMA InView ==
    ASSUME GraphInv, NEW s \in Scans
    PROVE  /\ \A f \in FindingIds : <<"Finding", f>> \in nodes /\ Owner(f) = s => f \in FindingsOf(s)
           /\ \A c \in ChainIds : <<"Chain", c>> \in nodes /\ c[1] = s => c \in ChainsOf(s)
           /\ \A t \in StepIds : <<"Step", t>> \in nodes /\ t[1] \in ChainsOf(s) =>
                 t \in AllStepsOf(s) /\ <<t[1], t>> \in ViewEdges(s)
<1>1. ASSUME NEW f \in FindingIds, <<"Finding", f>> \in nodes, Owner(f) = s
      PROVE  f \in FindingsOf(s)
  <2>1. <<"HAS_FINDING", s, f>> \in edges
    BY <1>1 DEF GraphInv, Rooted, RootedNode
  <2> QED BY <2>1 DEF FindingsOf
<1>2. ASSUME NEW c \in ChainIds, <<"Chain", c>> \in nodes, c[1] = s
      PROVE  c \in ChainsOf(s)
  <2>1. <<"HAS_CHAIN", s, c>> \in edges
    BY <1>2 DEF GraphInv, Rooted, RootedNode
  <2> QED BY <2>1 DEF ChainsOf
<1>3. ASSUME NEW t \in StepIds, <<"Step", t>> \in nodes, t[1] \in ChainsOf(s)
      PROVE  t \in AllStepsOf(s) /\ <<t[1], t>> \in ViewEdges(s)
  <2>1. <<"HAS_STEP", t[1], t>> \in edges
    BY <1>3 DEF GraphInv, Rooted, RootedNode
  <2>2. t \in StepsOf(t[1])
    BY <2>1 DEF StepsOf
  <2>3. t \in AllStepsOf(s)
    BY <1>3, <2>2 DEF AllStepsOf
  <2>4. <<t[1], t>> \in ViewEdges(s)
    BY <1>3, <2>1 DEF ViewEdges
  <2> QED BY <2>3, <2>4
<1> QED BY <1>1, <1>2, <1>3

\* The findings a completed run was handed are in the view.
LEMMA HandedIsShown ==
    ASSUME GraphInv, NEW r \in Runs, RunDone(r), Stage(r, "completed")
    PROVE  handed[r].findings \subseteq FindingsOf(scanOf[r])
<1>1. \A f \in handed[r].findings : <<"Finding", f>> \in nodes
  BY DEF RunDone, FindingsDone, Stage
<1>2. scanOf[r] \in Scans /\ handed[r].findings \subseteq OwnFindings(r)
  BY DEF GraphInv, GraphTypeOK, RunsWell, RunWell, HandedOwn
<1> QED BY <1>1, <1>2, OwnIds, InView DEF GraphInv

\* All that a completed run was handed is in the view.
LEMMA MirrorHolds ==
    ASSUME GraphInv, NEW r \in Runs, RunDone(r), Stage(r, "completed")
    PROVE  LET drawn == Drawn(scanOf[r], handed[r].findings, handed[r].chains)
           IN  drawn.node \subseteq View(scanOf[r]).node /\ drawn.edge \subseteq View(scanOf[r]).edge
<1> DEFINE s == scanOf[r]
<1>1. /\ \A f \in handed[r].findings : <<"Finding", f>> \in nodes
      /\ \A i \in DOMAIN handed[r].chains : ChainWritten(r, i)
  BY DEF RunDone, FindingsDone, ChainsDone, Stage
<1>2. s \in Scans /\ handed[r].findings \subseteq OwnFindings(r)
  BY DEF GraphInv, GraphTypeOK, RunsWell, RunWell, HandedOwn
<1>3. handed[r].findings \subseteq FindingsOf(s)
  BY HandedIsShown
<1>4. ASSUME NEW i \in DOMAIN handed[r].chains
      PROVE  ChainId(s, i) \in ChainsOf(s)
  BY <1>1, <1>2, PartIds, InView DEF ChainWritten
<1>5. ASSUME NEW i \in DOMAIN handed[r].chains, NEW p \in Parts(r, i)
      PROVE  /\ PartId(r, i, p) \in AllStepsOf(s)
             /\ <<ChainId(s, i), PartId(r, i, p)>> \in ViewEdges(s)
             /\ StepWritten(r, i, p)
  <2>1. StepWritten(r, i, p)
    BY <1>1 DEF ChainWritten, StepsWritten
  <2>2. PartId(r, i, p) \in StepIds /\ PartId(r, i, p)[1] = ChainId(s, i)
    BY PartIds
  <2> QED BY <1>2, <1>4, <2>1, <2>2, InView DEF StepWritten
<1>6. ASSUME NEW i \in DOMAIN handed[r].chains, NEW p \in Parts(r, i),
             Part(r, i, p).on \in handed[r].findings
      PROVE  <<PartId(r, i, p), Part(r, i, p).on>> \in ViewEdges(s)
  <2>1. <<"EXPLOITS", PartId(r, i, p), Part(r, i, p).on>> \in edges
    BY <1>5, <1>6 DEF StepWritten
  <2> QED BY <1>5, <2>1 DEF ViewEdges
<1>7. ASSUME NEW i \in DOMAIN handed[r].chains, NEW p \in Parts(r, i), NEW q \in Parts(r, i),
             Consecutive(handed[r].chains[i], p, q)
      PROVE  <<PartId(r, i, p), PartId(r, i, q)>> \in ViewEdges(s)
  <2>1. <<"NEXT_STEP", PartId(r, i, p), PartId(r, i, q)>> \in edges
    BY <1>1, <1>7 DEF ChainWritten, StepsWritten, LinkWritten
  <2> QED BY <1>5, <2>1 DEF ViewEdges
<1>8. View(s).node = ViewNodes(s) /\ View(s).edge = ViewEdges(s)
  BY DEF View
<1> DEFINE drawn == Drawn(s, handed[r].findings, handed[r].chains)
<1>9. drawn.node \subseteq ViewNodes(s)
  <2> SUFFICES ASSUME NEW x \in drawn.node PROVE x \in ViewNodes(s)
    OBVIOUS
  <2>1. \/ x \in handed[r].findings
        \/ \E i \in DOMAIN handed[r].chains :
              x = ChainId(s, i) \/ \E p \in Parts(r, i) : x = PartId(r, i, p)
    BY DrawnParts
  <2> HIDE DEF s, drawn
  <2> QED BY <1>3, <1>4, <1>5, <2>1 DEF ViewNodes
<1>10. drawn.edge \subseteq ViewEdges(s)
  <2> SUFFICES ASSUME NEW z \in drawn.edge PROVE z \in ViewEdges(s)
    OBVIOUS
  <2>1. \E i \in DOMAIN handed[r].chains : \E p \in Parts(r, i) :
           \/ z = <<ChainId(s, i), PartId(r, i, p)>>
           \/ /\ Part(r, i, p).on \in handed[r].findings
              /\ z = <<PartId(r, i, p), Part(r, i, p).on>>
           \/ \E q \in Parts(r, i) : /\ Consecutive(handed[r].chains[i], p, q)
                                     /\ z = <<PartId(r, i, p), PartId(r, i, q)>>
    BY DrawnParts
  <2> HIDE DEF s, drawn
  <2> QED BY <1>5, <1>6, <1>7, <2>1
<1> QED BY <1>8, <1>9, <1>10

\* Without another run the view holds nothing else.
LEMMA MirrorOnly ==
    ASSUME GraphInv, AllDrawn, NEW r \in Runs,
           \A q \in Runs : scanOf[q] = scanOf[r] /\ ~Stage(q, "idle") => q = r
    PROVE  LET drawn == Drawn(scanOf[r], handed[r].findings, handed[r].chains)
           IN  View(scanOf[r]).node \subseteq drawn.node /\ View(scanOf[r]).edge \subseteq drawn.edge
<1> DEFINE s == scanOf[r]
           drawn == Drawn(s, handed[r].findings, handed[r].chains)
\* An edge of the scan was drawn by the run.
<1>1. ASSUME NEW e \in edges, e[1] \in {"HAS_FINDING", "HAS_CHAIN"}, e[2] = s
      PROVE  DrawnBy(r, e)
  BY <1>1 DEF AllDrawn, DrawnBy
<1>2. ASSUME NEW e \in edges, e[1] \in {"HAS_STEP"}, e[2] \in ChainIds, e[2][1] = s
      PROVE  DrawnBy(r, e)
  <2>1. PICK q \in Runs : ~Stage(q, "idle") /\ DrawnBy(q, e)
    BY DEF AllDrawn
  <2>2. PICK i \in DOMAIN handed[q].chains : e[2] = ChainId(scanOf[q], i)
    BY <1>2, <2>1 DEF DrawnBy
  <2>3. scanOf[q] = s
    BY <1>2, <2>2, PartIds
  <2> QED BY <2>1, <2>3
<1>3. ASSUME NEW e \in edges, e[1] \in {"EXPLOITS", "NEXT_STEP"}, e[2] \in StepIds, e[2][1][1] = s
      PROVE  DrawnBy(r, e)
  <2>1. PICK q \in Runs : ~Stage(q, "idle") /\ DrawnBy(q, e)
    BY DEF AllDrawn
  <2>2. PICK i \in DOMAIN handed[q].chains : \E p \in Parts(q, i) : e[2] = PartId(q, i, p)
    BY <1>3, <2>1 DEF DrawnBy
  <2>3. scanOf[q] = s
    BY <1>3, <2>2, PartIds
  <2> QED BY <2>1, <2>3
<1>4. \A f \in FindingsOf(s) : f \in handed[r].findings
  <2> SUFFICES ASSUME NEW e \in edges, e[1] = "HAS_FINDING", e[2] = s PROVE e[3] \in handed[r].findings
    BY DEF FindingsOf
  <2> QED BY <1>1 DEF DrawnBy
<1>5. \A c \in ChainsOf(s) : /\ c \in ChainIds /\ c[1] = s
                             /\ \E i \in DOMAIN handed[r].chains : c = ChainId(s, i)
  <2> SUFFICES ASSUME NEW e \in edges, e[1] = "HAS_CHAIN", e[2] = s
               PROVE  /\ e[3] \in ChainIds /\ e[3][1] = s
                      /\ \E i \in DOMAIN handed[r].chains : e[3] = ChainId(s, i)
    BY DEF ChainsOf
  <2>1. e[3] \in ChainIds /\ e[2] = e[3][1]
    BY DEF GraphInv, EdgesWellFormed, WellFormed
  <2> QED BY <1>1, <2>1 DEF DrawnBy
<1>6. ASSUME NEW e \in edges, e[1] = "HAS_STEP", e[2] \in ChainsOf(s)
      PROVE  /\ e[3] \in StepIds /\ e[3][1] = e[2]
             /\ \E i \in DOMAIN handed[r].chains : \E p \in Parts(r, i) :
                   e[2] = ChainId(s, i) /\ e[3] = PartId(r, i, p)
  <2>1. e[3] \in StepIds /\ e[2] = e[3][1]
    BY <1>6 DEF GraphInv, EdgesWellFormed, WellFormed
  <2>2. DrawnBy(r, e)
    BY <1>2, <1>5, <1>6
  <2> QED BY <1>6, <2>1, <2>2 DEF DrawnBy
<1>7. \A t \in AllStepsOf(s) : /\ t \in StepIds /\ t[1][1] = s
                               /\ \E i \in DOMAIN handed[r].chains : \E p \in Parts(r, i) :
                                     t = PartId(r, i, p)
  <2> SUFFICES ASSUME NEW e \in edges, e[1] = "HAS_STEP", e[2] \in ChainsOf(s)
               PROVE  /\ e[3] \in StepIds /\ e[3][1][1] = s
                      /\ \E i \in DOMAIN handed[r].chains : \E p \in Parts(r, i) :
                            e[3] = PartId(r, i, p)
    BY DEF AllStepsOf, StepsOf
  <2> QED BY <1>5, <1>6
<1>8. ViewNodes(s) \subseteq drawn.node
  <2> SUFFICES ASSUME NEW x \in ViewNodes(s) PROVE x \in drawn.node
    OBVIOUS
  <2>1. \/ x \in handed[r].findings
        \/ \E i \in DOMAIN handed[r].chains :
              x = ChainId(s, i) \/ \E p \in Parts(r, i) : x = PartId(r, i, p)
    <3> HIDE DEF s
    <3> QED BY <1>4, <1>5, <1>7 DEF ViewNodes
  <2> QED BY <2>1, DrawnParts
<1>9. ViewEdges(s) \subseteq drawn.edge
  <2> SUFFICES ASSUME NEW e \in edges,
                      \/ e[1] \in {"NEXT_STEP", "EXPLOITS"} /\ e[2] \in AllStepsOf(s)
                      \/ e[1] = "HAS_STEP" /\ e[2] \in ChainsOf(s)
               PROVE  <<e[2], e[3]>> \in drawn.edge
    BY DEF ViewEdges
  <2>1. \E i \in DOMAIN handed[r].chains : \E p \in Parts(r, i) :
           \/ <<e[2], e[3]>> = <<ChainId(s, i), PartId(r, i, p)>>
           \/ /\ Part(r, i, p).on \in handed[r].findings
              /\ <<e[2], e[3]>> = <<PartId(r, i, p), Part(r, i, p).on>>
           \/ \E q \in Parts(r, i) : /\ Consecutive(handed[r].chains[i], p, q)
                                     /\ <<e[2], e[3]>> = <<PartId(r, i, p), PartId(r, i, q)>>
    <3>1. CASE e[1] = "HAS_STEP" /\ e[2] \in ChainsOf(s)
      <4> HIDE DEF s
      <4> QED BY <1>6, <3>1
    <3>2. CASE e[1] \in {"NEXT_STEP", "EXPLOITS"} /\ e[2] \in AllStepsOf(s)
      <4>1. DrawnBy(r, e)
        BY <1>3, <1>7, <3>2
      <4> QED BY <3>2, <4>1 DEF DrawnBy
    <3> QED BY <3>1, <3>2
  <2> QED BY <2>1, DrawnParts
<1> QED BY <1>8, <1>9 DEF View

LEMMA MirrorFollows == GraphInv /\ MirrorInv => GraphMirrorsRun
<1> SUFFICES ASSUME GraphInv, MirrorInv, NEW r \in Runs, Stage(r, "completed")
             PROVE  LET view == View(scanOf[r])
                        drawn == Drawn(scanOf[r], handed[r].findings, handed[r].chains)
                        others == {q \in Runs \ {r} : scanOf[q] = scanOf[r] /\ ~Stage(q, "idle")}
                    IN  /\ drawn.node \subseteq view.node /\ drawn.edge \subseteq view.edge
                        /\ others = {} => view = drawn
  BY DEF GraphMirrorsRun
<1> DEFINE view == View(scanOf[r])
           drawn == Drawn(scanOf[r], handed[r].findings, handed[r].chains)
           others == {q \in Runs \ {r} : scanOf[q] = scanOf[r] /\ ~Stage(q, "idle")}
<1>1. drawn.node \subseteq view.node /\ drawn.edge \subseteq view.edge
  BY MirrorHolds DEF MirrorInv
<1>2. ASSUME others = {} PROVE view = drawn
  <2>1. \A q \in Runs : scanOf[q] = scanOf[r] /\ ~Stage(q, "idle") => q = r
    BY <1>2
  <2>2. view.node \subseteq drawn.node /\ view.edge \subseteq drawn.edge
    BY <2>1, MirrorOnly DEF MirrorInv
  <2>3. view = [node |-> view.node, edge |-> view.edge]
    BY DEF View
  <2>4. drawn = [node |-> drawn.node, edge |-> drawn.edge]
    BY DEF Drawn
  <2> HIDE DEF view, drawn
  <2>5. view.node = drawn.node /\ view.edge = drawn.edge
    BY <1>1, <2>2
  <2>6. [node |-> view.node, edge |-> view.edge] = [node |-> drawn.node, edge |-> drawn.edge]
    BY <2>5
  <2> QED BY <2>3, <2>4, <2>6
<1> QED BY <1>1, <1>2

-----------------------------------------------------------------------------
(* The writes keep that                                                    *)

\* What is written stays so: nothing is taken from the graph.
LEMMA WrittenStays ==
    ASSUME NEW r \in Runs, scanOf' = scanOf, handed'[r] = handed[r],
           nodes \subseteq nodes', edges \subseteq edges'
    PROVE  /\ \A i, p : StepWritten(r, i, p) => StepWritten(r, i, p)'
           /\ \A i, p, q : LinkWritten(r, i, p, q) => LinkWritten(r, i, p, q)'
           /\ \A i : ChainWritten(r, i) => ChainWritten(r, i)'
<1>1. \A i, p : /\ Part(r, i, p)' = Part(r, i, p) /\ PartId(r, i, p)' = PartId(r, i, p)
                /\ Parts(r, i)' = Parts(r, i)
  BY DEF Part, PartId, Parts
<1>2. \A i, p : StepWritten(r, i, p) => StepWritten(r, i, p)'
  BY <1>1 DEF StepWritten
<1>3. \A i, p, q : LinkWritten(r, i, p, q) => LinkWritten(r, i, p, q)'
  BY <1>1 DEF LinkWritten
<1>4. \A i : ChainWritten(r, i) => ChainWritten(r, i)'
  BY <1>1, <1>2, <1>3 DEF ChainWritten, StepsWritten
<1> QED BY <1>2, <1>3, <1>4

LEMMA DrawnStays ==
    ASSUME NEW r \in Runs, scanOf' = scanOf, handed'[r] = handed[r], NEW e, DrawnBy(r, e)
    PROVE  DrawnBy(r, e)'
<1>1. \A i, p : /\ Part(r, i, p)' = Part(r, i, p) /\ PartId(r, i, p)' = PartId(r, i, p)
                /\ Parts(r, i)' = Parts(r, i)
  BY DEF Part, PartId, Parts
<1> QED BY <1>1 DEF DrawnBy

LEMMA OthersDone ==
    ASSUME NEW q \in Runs, RunDone(q), scanOf' = scanOf, handed'[q] = handed[q],
           ingest'[q] = ingest[q], nodes \subseteq nodes', edges \subseteq edges'
    PROVE  RunDone(q)'
<1>1. /\ Handed(q)' = Handed(q) /\ DoneSteps(q)' = DoneSteps(q)
      /\ CurId(q)' = CurId(q)
      /\ \A p : StepAt(q, p)' = StepAt(q, p)
  BY DEF Handed, DoneSteps, StepAt, CurId, ChainOf
<1>2. FindingsDone(q)'
  BY DEF RunDone, FindingsDone
<1>3. ChainsDone(q)'
  BY WrittenStays DEF RunDone, ChainsDone
<1>4. StepsDone(q)'
  BY <1>1, WrittenStays DEF RunDone, StepsDone, StepsWritten
<1>5. DoneInOrder(q)'
  <2>1. \A p : Last(q, p)' <=> Last(q, p)
    BY <1>1 DEF Last
  <2> QED BY <1>1, <2>1, WrittenStays DEF RunDone, DoneInOrder
<1> QED BY <1>2, <1>3, <1>4, <1>5 DEF RunDone

\* A write of a run keeps the invariant if the run means to draw what it adds
\* and goes on in order.
LEMMA StepMirrors ==
    ASSUME GraphInv, MirrorInv, NEW r \in Runs, NEW i \in Ingests, Continue(r, i),
           ~Stage(r, "idle"), i.pc /= "idle",
           nodes \subseteq nodes', edges \subseteq edges',
           \A e \in edges' \ edges : DrawnBy(r, e),
           RunDone(r)'
    PROVE  MirrorInv'
<1>1. scanOf' = scanOf /\ handed' = handed /\ ingest'[r] = i
      /\ \A q \in Runs \ {r} : ingest'[q] = ingest[q]
  BY DEF GraphInv, GraphTypeOK, Continue
<1>2. AllDrawn'
  <2> SUFFICES ASSUME NEW e \in edges' PROVE \E q \in Runs : ~Stage(q, "idle")' /\ DrawnBy(q, e)'
    BY DEF AllDrawn
  <2>1. PICK q \in Runs : ~Stage(q, "idle") /\ DrawnBy(q, e)
    BY DEF MirrorInv, AllDrawn
  <2>2. ~Stage(q, "idle")'
    BY <1>1, <2>1 DEF Stage
  <2>3. DrawnBy(q, e)'
    BY <1>1, <2>1, DrawnStays
  <2> QED BY <2>2, <2>3
<1>3. \A q \in Runs \ {r} : RunDone(q)'
  BY <1>1, OthersDone DEF MirrorInv
<1> QED BY <1>2, <1>3 DEF MirrorInv

LEMMA IngestScanMirrors ==
    ASSUME GraphInv, MirrorInv, NEW r \in Runs, IngestScan(r)
    PROVE  MirrorInv'
<1> DEFINE i == [ingest[r] EXCEPT !.pc = "findings"]
<1>1. /\ ingest[r] \in Ingests /\ ingest[r].pc = "scan" /\ RunDone(r)
      /\ Continue(r, i) /\ nodes \subseteq nodes' /\ edges' = edges
  BY DEF GraphInv, GraphTypeOK, IngestScan, Merge, Stage, MirrorInv
<1>2. /\ i \in Ingests /\ i.pc = "findings" /\ i.findings = ingest[r].findings
      /\ i.chain = ingest[r].chain /\ i.uses = ingest[r].uses /\ i.steps = ingest[r].steps
  BY <1>1 DEF Ingests, Stages
<1>3. ingest'[r] = i /\ handed' = handed
  BY <1>1 DEF Continue, GraphInv, GraphTypeOK
<1> HIDE DEF i
<1>4. RunDone(r)'
  <2>1. FindingsDone(r)'
    BY <1>1, <1>2, <1>3 DEF RunDone, FindingsDone, Writing
  <2> QED BY <2>1, <1>2, <1>3 DEF RunDone, ChainsDone, StepsDone, DoneInOrder, Writing, OnStep
<1> QED BY <1>1, <1>2, <1>4, StepMirrors DEF Stage

LEMMA IngestFindingMirrors ==
    ASSUME GraphInv, MirrorInv, NEW r \in Runs, IngestFinding(r)
    PROVE  MirrorInv'
<1>1. PICK f \in ingest[r].findings :
          /\ Merge("Finding", f)
          /\ Link(<<"Scan", scanOf[r]>>, "HAS_FINDING", <<"Finding", f>>)
          /\ Continue(r, [ingest[r] EXCEPT !.findings = @ \ {f}])
  BY DEF IngestFinding
<1> DEFINE i == [ingest[r] EXCEPT !.findings = @ \ {f}]
<1>2. ingest[r] \in Ingests /\ ingest[r].pc = "findings" /\ RunDone(r)
  BY DEF GraphInv, GraphTypeOK, IngestFinding, Stage, MirrorInv
<1>3. /\ i \in Ingests /\ i.pc = "findings" /\ i.findings = ingest[r].findings \ {f}
      /\ i.chain = ingest[r].chain /\ i.uses = ingest[r].uses /\ i.steps = ingest[r].steps
  BY <1>2 DEF Ingests
<1>4. ingest'[r] = i /\ handed' = handed /\ Continue(r, i)
  BY <1>1 DEF Continue, GraphInv, GraphTypeOK
<1>5. nodes' = nodes \cup {<<"Finding", f>>} /\ edges \subseteq edges'
      /\ \A e \in edges' \ edges : e = <<"HAS_FINDING", scanOf[r], f>>
  BY <1>1 DEF Merge, Link, Joined
<1>6. \A e \in edges' \ edges : DrawnBy(r, e)
  BY <1>2, <1>5 DEF RunDone, FindingsDone, DrawnBy
<1> HIDE DEF i
<1>7. RunDone(r)'
  <2>1. FindingsDone(r)'
    BY <1>2, <1>3, <1>4, <1>5 DEF RunDone, FindingsDone, Writing
  <2> QED BY <2>1, <1>3, <1>4 DEF RunDone, ChainsDone, StepsDone, DoneInOrder, Writing, OnStep
<1> QED BY <1>2, <1>3, <1>4, <1>5, <1>6, <1>7, StepMirrors DEF Stage

\* The chain at hand is written when none of its steps is left.
LEMMA ChainAtHandWritten ==
    ASSUME GraphInv, NEW r \in Runs, RunDone(r), ListWritten(r), ingest[r].pc \in Writing
    PROVE  ChainWritten(r, ingest[r].chain)
<1>1. ingest[r].pc \notin OnStep /\ ingest[r].steps = {}
  BY DEF ListWritten, OnStep
<1>2. DoneSteps(r) = Parts(r, ingest[r].chain)
  BY <1>1 DEF DoneSteps, Parts, Handed
<1>3. <<"Chain", ChainId(scanOf[r], ingest[r].chain)>> \in nodes
  BY DEF GraphInv, RunsWell, RunWell, ChainThere, ChainOf
<1> QED BY <1>2, <1>3 DEF RunDone, StepsDone, ChainWritten

LEMMA IngestChainMirrors ==
    ASSUME GraphInv, MirrorInv, NEW r \in Runs, IngestChain(r)
    PROVE  MirrorInv'
<1> DEFINE k == ingest[r].chain + 1
           c == handed[r].chains[k]
           i == [ingest[r] EXCEPT !.pc = "uses", !.chain = k, !.prev = 0, !.uses = c.uses,
                                  !.steps = DOMAIN c.steps]
<1>1. /\ ListWritten(r) /\ k <= Len(handed[r].chains)
      /\ Merge("Chain", ChainId(scanOf[r], k))
      /\ Link(<<"Scan", scanOf[r]>>, "HAS_CHAIN", <<"Chain", ChainId(scanOf[r], k)>>)
      /\ Continue(r, i)
  BY DEF IngestChain
<1>2. ingest[r] \in Ingests /\ RunDone(r) /\ ingest[r].pc \in {"findings", "uses", "steps"}
      /\ ingest[r].findings = {} /\ ingest[r].chain \in Nat
      /\ handed[r].chains \in Seq(ChainsOver(OwnFindings(r)))
  BY <1>1 DEF GraphInv, GraphTypeOK, ListWritten, MirrorInv, Ingests, RunsWell, RunWell, HandedOwn
<1>3. k \in DOMAIN handed[r].chains
  BY <1>1, <1>2
<1>4. c \in ChainsOver(OwnFindings(r)) /\ DOMAIN c.steps \subseteq Nat
  <2>1. c \in ChainsOver(OwnFindings(r))
    BY <1>2, <1>3, InSequence
  <2>2. c.steps \in Seq([n : StepNumbers, on : OwnFindings(r) \cup {Unknown, NoRef}])
    BY <2>1 DEF ChainsOver
  <2> QED BY <2>1, <2>2
<1>5. c.uses \subseteq Refs
  BY <1>4 DEF ChainsOver, OwnFindings, Refs, FindingIds
<1>6. /\ i \in Ingests /\ i.pc = "uses" /\ i.chain = k /\ i.prev = 0
      /\ i.findings = {} /\ i.steps = DOMAIN c.steps
  <2> HIDE DEF c
  <2>1. k \in Nat
    BY <1>2
  <2> HIDE DEF k
  <2> QED BY <1>2, <1>4, <1>5, <2>1 DEF Ingests, Stages
<1>7. ingest'[r] = i /\ handed' = handed /\ scanOf' = scanOf
  BY <1>1 DEF Continue, GraphInv, GraphTypeOK
<1> HIDE DEF i
<1>8. /\ nodes \subseteq nodes' /\ edges \subseteq edges'
      /\ \A e \in edges' \ edges : e = <<"HAS_CHAIN", scanOf[r], ChainId(scanOf[r], k)>>
  BY <1>1 DEF Merge, Link, Joined
<1>9. \A e \in edges' \ edges : DrawnBy(r, e)
  <2> HIDE DEF k
  <2> QED BY <1>3, <1>8 DEF DrawnBy
<1>10. RunDone(r)'
  <2>1. FindingsDone(r)'
    BY <1>2, <1>6, <1>7, <1>8 DEF RunDone, FindingsDone, Writing
  <2>2. ASSUME NEW j \in 1 .. k - 1 PROVE ChainWritten(r, j)
    <3>1. CASE ingest[r].pc = "findings"
      BY <1>2, <2>2, <3>1 DEF RunDone, FindingsDone
    <3>2. CASE ingest[r].pc \in Writing
      <4>1. j = ingest[r].chain \/ j \in 1 .. ingest[r].chain - 1
        BY <1>2, <2>2
      <4> QED BY <1>1, <1>2, <3>2, <4>1, ChainAtHandWritten DEF RunDone, ChainsDone
    <3> QED BY <1>2, <3>1, <3>2 DEF Writing
  <2>3. ChainsDone(r)'
    BY <1>6, <1>7, <1>8, <2>2, WrittenStays DEF ChainsDone
  <2>4. Handed(r)' = c /\ DoneSteps(r)' = {}
    BY <1>6, <1>7 DEF Handed, DoneSteps
  <2>5. StepsDone(r)' /\ DoneInOrder(r)'
    BY <1>6, <1>7, <2>4 DEF StepsDone, StepsWritten, DoneInOrder, OnStep
  <2> QED BY <2>1, <2>3, <2>5 DEF RunDone
<1> QED BY <1>1, <1>2, <1>6, <1>8, <1>9, <1>10, StepMirrors DEF Stage

LEMMA IngestEndMirrors ==
    ASSUME GraphInv, MirrorInv, NEW r \in Runs, IngestCompletes(r) \/ IngestFails(r)
    PROVE  MirrorInv'
<1>1. PICK pc \in {"completed", "failed"} : /\ Continue(r, [NotBegun EXCEPT !.pc = pc])
                                            /\ pc = "completed" => IngestCompletes(r)
  BY DEF IngestCompletes, IngestFails
<1> DEFINE i == [NotBegun EXCEPT !.pc = pc]
<1>2. i \in Ingests /\ i.findings = {} /\ i.pc = pc
  BY DEF NotBegun, Ingests, Stages
<1>3. UNCHANGED <<nodes, edges>> /\ ~Stage(r, "idle")
  BY DEF IngestCompletes, IngestFails, ListWritten, Stage, Begun
<1>4. ingest'[r] = i /\ handed' = handed /\ scanOf' = scanOf /\ RunDone(r)
  BY <1>1 DEF Continue, GraphInv, GraphTypeOK, MirrorInv
<1> HIDE DEF i
<1>5. RunDone(r)'
  <2>1. ASSUME pc = "completed"
        PROVE  /\ \A f \in handed[r].findings : <<"Finding", f>> \in nodes
               /\ \A k \in DOMAIN handed[r].chains : ChainWritten(r, k)
    <3>1. ListWritten(r) /\ ingest[r].chain = Len(handed[r].chains)
      BY <1>1, <2>1 DEF IngestCompletes
    <3>2. ingest[r].pc \in {"findings", "uses", "steps"} /\ ingest[r].findings = {}
      BY <3>1 DEF ListWritten
    <3>3. \A f \in handed[r].findings : <<"Finding", f>> \in nodes
      BY <1>4, <3>2 DEF RunDone, FindingsDone, Writing
    <3>4. handed[r].chains \in Seq(ChainsOver(OwnFindings(r)))
      BY DEF GraphInv, RunsWell, RunWell, HandedOwn
    <3>5. ASSUME NEW k \in DOMAIN handed[r].chains PROVE ChainWritten(r, k)
      <4>1. k \in 1 .. ingest[r].chain /\ ingest[r].chain \in Nat
        BY <3>1, <3>4
      <4>2. ingest[r].pc \in Writing
        BY <1>4, <3>2, <4>1 DEF RunDone, FindingsDone, Writing
      <4>3. k = ingest[r].chain \/ k \in 1 .. ingest[r].chain - 1
        BY <4>1
      <4> QED BY <1>4, <3>1, <4>2, <4>3, ChainAtHandWritten DEF RunDone, ChainsDone
    <3> QED BY <3>3, <3>5
  <2>2. FindingsDone(r)'
    BY <1>2, <1>3, <1>4, <2>1 DEF RunDone, FindingsDone, Writing
  <2>3. ChainsDone(r)'
    BY <1>2, <1>3, <1>4, <2>1, WrittenStays DEF ChainsDone, Writing
  <2> QED BY <1>2, <1>4, <2>2, <2>3 DEF RunDone, StepsDone, DoneInOrder, Writing, OnStep
<1>6. Continue(r, i) /\ i.pc /= "idle"
  BY <1>1, <1>2 DEF i
<1>7. nodes \subseteq nodes' /\ edges \subseteq edges' /\ edges' \ edges = {}
  BY <1>3
<1> QED BY <1>2, <1>3, <1>5, <1>6, <1>7, StepMirrors

\* Before is a strict order of the steps of a chain.
LEMMA BeforeOrders ==
    ASSUME NEW c, \A p \in Steps(c) : p \in Nat /\ c.steps[p].n \in Nat
    PROVE  /\ \A p \in Steps(c) : ~Before(c, p, p)
           /\ \A p, q \in Steps(c) : Before(c, p, q) => ~Before(c, q, p)
BY DEF Before

\* The parts of the chain at hand.
LEMMA PartsAtHand ==
    ASSUME GraphInv, NEW r \in Runs, ingest[r].pc \in Writing
    PROVE  /\ ingest[r].chain \in DOMAIN handed[r].chains
           /\ Handed(r) = handed[r].chains[ingest[r].chain]
           /\ Parts(r, ingest[r].chain) = Steps(Handed(r))
           /\ DOMAIN Handed(r).steps = Steps(Handed(r))
           /\ \A p : Part(r, ingest[r].chain, p) = StepAt(r, p)
           /\ \A p : PartId(r, ingest[r].chain, p) = StepId(ChainOf(r), StepAt(r, p).n)
           /\ \A p \in Steps(Handed(r)) :
                 /\ p \in Nat /\ Handed(r).steps[p].n \in Nat
                 /\ StepAt(r, p).n \in Nat \ {0}
           /\ DoneSteps(r) \subseteq Steps(Handed(r))
           /\ ingest[r].steps \subseteq Steps(Handed(r))
<1>1. handed[r].chains \in Seq(ChainsOver(OwnFindings(r))) /\ ChainThere(r)
  BY DEF GraphInv, RunsWell, RunWell, HandedOwn
<1>2. ingest[r].chain \in DOMAIN handed[r].chains /\ ingest[r].steps \subseteq DOMAIN Handed(r).steps
  BY <1>1 DEF ChainThere
<1>3. \A p \in Steps(Handed(r)) : /\ p \in Nat /\ Handed(r).steps[p].n \in Nat
                                  /\ StepAt(r, p).n \in Nat \ {0}
  BY ChainAtHand, StepNumbersAssumption DEF Steps, StepAt
<1>4. \A p : /\ Part(r, ingest[r].chain, p) = StepAt(r, p)
             /\ PartId(r, ingest[r].chain, p) = StepId(ChainOf(r), StepAt(r, p).n)
  BY DEF Part, PartId, StepAt, Handed, ChainOf
<1> QED BY <1>2, <1>3, <1>4 DEF Handed, Parts, Steps, DoneSteps

\* A run that goes on with its chain has written the chains before.
LEMMA ChainGoesOn ==
    ASSUME GraphInv, MirrorInv, NEW r \in Runs, NEW i \in Ingests, Continue(r, i),
           nodes \subseteq nodes', edges \subseteq edges',
           ingest[r].pc \in Writing, i.pc \in Writing,
           i.chain = ingest[r].chain, i.findings = ingest[r].findings,
           StepsDone(r)', DoneInOrder(r)'
    PROVE  RunDone(r)'
<1>1. scanOf' = scanOf /\ handed' = handed /\ ingest'[r] = i /\ RunDone(r)
  BY DEF GraphInv, GraphTypeOK, Continue, MirrorInv
<1>2. FindingsDone(r)'
  BY <1>1 DEF RunDone, FindingsDone, Writing
<1>3. ChainsDone(r)'
  BY <1>1, WrittenStays DEF RunDone, ChainsDone, Writing
<1> QED BY <1>2, <1>3 DEF RunDone

LEMMA LinkFindingMirrors ==
    ASSUME GraphInv, MirrorInv, NEW r \in Runs, LinkFinding(r)
    PROVE  MirrorInv'
<1>1. PICK f \in ingest[r].uses :
          /\ Link(<<"Chain", ChainOf(r)>>, "USES_FINDING", <<"Finding", f>>)
          /\ Continue(r, [ingest[r] EXCEPT !.uses = @ \ {f}])
  BY DEF LinkFinding
<1> DEFINE i == [ingest[r] EXCEPT !.uses = @ \ {f}]
<1>2. ingest[r] \in Ingests /\ ingest[r].pc = "uses" /\ nodes' = nodes /\ RunDone(r)
  BY DEF GraphInv, GraphTypeOK, LinkFinding, Stage, MirrorInv
<1>3. /\ i \in Ingests /\ i.pc = "uses" /\ i.findings = ingest[r].findings
      /\ i.chain = ingest[r].chain /\ i.steps = ingest[r].steps /\ i.prev = ingest[r].prev
  BY <1>2 DEF Ingests
<1>4. ingest'[r] = i /\ handed' = handed /\ scanOf' = scanOf /\ Continue(r, i)
  BY <1>1 DEF Continue, GraphInv, GraphTypeOK
<1>5. edges \subseteq edges' /\ \A e \in edges' \ edges : DrawnBy(r, e)
  BY <1>1 DEF Link, Joined, DrawnBy
<1> HIDE DEF i
<1>6. Handed(r)' = Handed(r) /\ DoneSteps(r)' = DoneSteps(r) /\ \A p : StepAt(r, p)' = StepAt(r, p)
  BY <1>2, <1>3, <1>4 DEF Handed, DoneSteps, StepAt, OnStep
<1>7. StepsDone(r)'
  BY <1>2, <1>3, <1>4, <1>5, <1>6, WrittenStays DEF RunDone, StepsDone, StepsWritten, Writing
<1>8. DoneInOrder(r)'
  BY <1>2, <1>3, <1>4, <1>6 DEF RunDone, DoneInOrder, Last, Writing, OnStep
<1>9. RunDone(r)'
  BY <1>2, <1>3, <1>4, <1>5, <1>7, <1>8, ChainGoesOn DEF Writing
<1> QED BY <1>2, <1>3, <1>4, <1>5, <1>9, StepMirrors DEF Stage

\* A run that is done with a step of its chain is done with those before it.
LEMMA StepFinished ==
    ASSUME GraphInv, MirrorInv, NEW r \in Runs, NEW i \in Ingests, Continue(r, i),
           nodes \subseteq nodes', edges \subseteq edges', ingest[r].pc \in Writing,
           i.pc = "steps", i.findings = ingest[r].findings,
           NEW k, ingest[r].chain = k, i.chain = k,
           NEW p \in Steps(Handed(r)), p \notin i.steps,
           i.steps \subseteq ingest[r].steps,
           DoneSteps(r) \cup {p} = Steps(Handed(r)) \ i.steps,
           i.prev = StepAt(r, p).n,
           \A m \in DoneSteps(r) : Before(Handed(r), m, p),
           \A q \in i.steps : Before(Handed(r), p, q),
           StepWritten(r, k, p)',
           \A m \in DoneSteps(r) : LinkWritten(r, k, m, p)'
    PROVE  RunDone(r)'
<1>1. scanOf' = scanOf /\ handed' = handed /\ ingest'[r] = i /\ RunDone(r)
  BY DEF GraphInv, GraphTypeOK, Continue, MirrorInv
<1>2. /\ Handed(r) = handed[r].chains[k] /\ DOMAIN Handed(r).steps = Steps(Handed(r))
      /\ \A q \in Steps(Handed(r)) : q \in Nat /\ Handed(r).steps[q].n \in Nat
      /\ StepAt(r, p).n /= 0 /\ DoneSteps(r) \subseteq Steps(Handed(r))
  BY PartsAtHand
<1>3. Handed(r)' = Handed(r) /\ \A q : StepAt(r, q)' = StepAt(r, q)
  BY <1>1 DEF Handed, StepAt
<1>4. DoneSteps(r)' = DoneSteps(r) \cup {p}
  BY <1>1, <1>2, <1>3 DEF DoneSteps, OnStep
<1>5. ~Before(Handed(r), p, p) /\ \A m \in DoneSteps(r) : ~Before(Handed(r), p, m)
  BY <1>2, BeforeOrders
<1>6. ASSUME NEW m \in DoneSteps(r) \cup {p} PROVE LinkWritten(r, k, p, m)'
  <2>1. ~Consecutive(Handed(r), p, m)
    BY <1>5 DEF Consecutive
  <2> QED BY <2>1, <1>1, <1>2 DEF LinkWritten
<1>7. StepsWritten(r, k, DoneSteps(r))
  BY <1>1 DEF RunDone, StepsDone
<1>8. StepsWritten(r, k, DoneSteps(r))'
  <2>1. \A m \in DoneSteps(r) : StepWritten(r, k, m)'
    BY <1>1, <1>7, WrittenStays DEF StepsWritten
  <2>2. \A m, q \in DoneSteps(r) : LinkWritten(r, k, m, q)'
    BY <1>1, <1>7, WrittenStays DEF StepsWritten
  <2> QED BY <2>1, <2>2, <1>4, <1>6 DEF StepsWritten
<1>9. StepsDone(r)'
  BY <1>1, <1>8 DEF StepsDone
<1>10. DoneInOrder(r)'
  <2>1. \A m \in DoneSteps(r), q \in i.steps : Before(Handed(r), m, q)
    BY <1>1 DEF RunDone, DoneInOrder
  <2>2. Last(r, p)'
    BY <1>1, <1>3, <1>4 DEF Last
  <2> QED BY <2>1, <2>2, <1>1, <1>2, <1>3, <1>4 DEF DoneInOrder, OnStep
<1> QED BY <1>9, <1>10, ChainGoesOn DEF Writing

\* A run that is at a step of its chain is done with those before it.
LEMMA StepTaken ==
    ASSUME GraphInv, MirrorInv, NEW r \in Runs, NEW i \in Ingests, Continue(r, i),
           nodes \subseteq nodes', edges \subseteq edges', ingest[r].pc \in Writing,
           i.pc \in OnStep, i.findings = ingest[r].findings,
           NEW k, ingest[r].chain = k, i.chain = k,
           NEW p \in Steps(Handed(r)), i.cur = p, p \notin i.steps,
           i.steps \subseteq ingest[r].steps,
           DoneSteps(r) = Steps(Handed(r)) \ (i.steps \cup {p}),
           i.prev = ingest[r].prev,
           \A m \in DoneSteps(r) : Before(Handed(r), m, p),
           \A q \in i.steps : Before(Handed(r), p, q),
           <<"Step", StepId(ChainOf(r), StepAt(r, p).n)>> \in nodes',
           i.pc = "next" => i.prev /= 0 /\ StepWritten(r, k, p)'
    PROVE  RunDone(r)'
<1>1. scanOf' = scanOf /\ handed' = handed /\ ingest'[r] = i /\ RunDone(r)
  BY DEF GraphInv, GraphTypeOK, Continue, MirrorInv
<1>2. DOMAIN Handed(r).steps = Steps(Handed(r))
  BY PartsAtHand
<1>3. Handed(r)' = Handed(r) /\ ChainOf(r)' = ChainOf(r) /\ \A q : StepAt(r, q)' = StepAt(r, q)
  BY <1>1 DEF Handed, StepAt, ChainOf
<1>4. DoneSteps(r)' = DoneSteps(r) /\ CurId(r)' = StepId(ChainOf(r), StepAt(r, p).n)
  BY <1>1, <1>2, <1>3 DEF DoneSteps, CurId
<1>5. StepsWritten(r, k, DoneSteps(r))
  BY <1>1 DEF RunDone, StepsDone
<1>6. StepsDone(r)'
  BY <1>1, <1>4, <1>5, WrittenStays DEF StepsDone, StepsWritten
<1>7. DoneInOrder(r)'
  <2>1. \A m \in DoneSteps(r), q \in i.steps : Before(Handed(r), m, q)
    BY <1>1 DEF RunDone, DoneInOrder
  <2>2. IF i.prev = 0 THEN DoneSteps(r) = {} ELSE \E m \in DoneSteps(r) : Last(r, m)
    BY <1>1 DEF RunDone, DoneInOrder
  <2>3. \A m : Last(r, m)' <=> Last(r, m)
    BY <1>1, <1>3, <1>4 DEF Last
  <2> QED BY <2>1, <2>2, <2>3, <1>1, <1>3, <1>4 DEF DoneInOrder
<1> QED BY <1>6, <1>7, ChainGoesOn DEF Writing, OnStep

LEMMA IngestStepMirrors ==
    ASSUME GraphInv, MirrorInv, NEW r \in Runs, IngestStep(r)
    PROVE  MirrorInv'
<1> DEFINE new(p) ==
      LET n == StepAt(r, p).n
          i == [ingest[r] EXCEPT !.steps = @ \ {p}, !.cur = p]
      IN  IF StepAt(r, p).on = NoRef THEN ToNextStep(i, n) ELSE [i EXCEPT !.pc = "exploits"]
           c == Handed(r)
           k == ingest[r].chain
<1>1. PICK p \in ingest[r].steps :
          /\ ComesFirst(r, p)
          /\ Merge("Step", StepId(ChainOf(r), StepAt(r, p).n))
          /\ Link(<<"Chain", ChainOf(r)>>, "HAS_STEP",
                  <<"Step", StepId(ChainOf(r), StepAt(r, p).n)>>)
          /\ Continue(r, new(p))
  BY DEF IngestStep
<1> DEFINE n == StepAt(r, p).n
           t == StepId(ChainOf(r), n)
<1>2. ingest[r] \in Ingests /\ ingest[r].pc \in {"uses", "steps"} /\ RunDone(r)
  BY DEF GraphInv, GraphTypeOK, IngestStep, LinksWritten, Stage, MirrorInv
<1>3. /\ k \in DOMAIN handed[r].chains /\ c = handed[r].chains[k] /\ Parts(r, k) = Steps(c)
      /\ DOMAIN c.steps = Steps(c)
      /\ Part(r, k, p) = StepAt(r, p) /\ PartId(r, k, p) = t
      /\ \A q \in Steps(c) : q \in Nat /\ c.steps[q].n \in Nat /\ StepAt(r, q).n \in Nat \ {0}
      /\ ingest[r].steps \subseteq Steps(c)
  BY <1>2, PartsAtHand DEF Writing
<1>4. DoneSteps(r) = Steps(c) \ ingest[r].steps
  BY <1>2, <1>3 DEF DoneSteps, OnStep
<1>5. \A m \in DoneSteps(r) : Before(c, m, p)
  BY <1>1, <1>2 DEF RunDone, DoneInOrder, Writing
<1>6. \A q \in ingest[r].steps \ {p} : Before(c, p, q)
  <2> SUFFICES ASSUME NEW q \in ingest[r].steps, q /= p PROVE Before(c, p, q)
    OBVIOUS
  <2>1. \/ StepAt(r, p).n < StepAt(r, q).n
        \/ StepAt(r, p).n = StepAt(r, q).n /\ p <= q
    BY <1>1 DEF ComesFirst
  <2>2. p \in Nat /\ q \in Nat /\ StepAt(r, p) = c.steps[p] /\ StepAt(r, q) = c.steps[q]
    BY <1>1, <1>3 DEF StepAt
  <2> HIDE DEF c
  <2> QED BY <2>1, <2>2 DEF Before
<1>7. nodes' = nodes \cup {<<"Step", t>>} /\ edges \subseteq edges'
      /\ \A e \in edges' \ edges : e = <<"HAS_STEP", ChainOf(r), t>>
  BY <1>1 DEF Merge, Link, Joined
<1>8. \A e \in edges' \ edges : DrawnBy(r, e)
  <2> SUFFICES ASSUME NEW e \in edges' \ edges PROVE DrawnBy(r, e)
    OBVIOUS
  <2>1. e[1] = "HAS_STEP" /\ e[2] = ChainId(scanOf[r], k) /\ e[3] = PartId(r, k, p)
    BY <1>3, <1>7 DEF ChainOf
  <2>2. p \in Parts(r, k)
    BY <1>1, <1>3
  <2> QED BY <1>3, <2>1, <2>2 DEF DrawnBy
<1> DEFINE i == [ingest[r] EXCEPT !.steps = @ \ {p}, !.cur = p]
<1>9. /\ i \in Ingests /\ i.findings = ingest[r].findings /\ i.chain = k
      /\ i.steps = ingest[r].steps \ {p} /\ i.cur = p /\ i.prev = ingest[r].prev
  BY <1>1, <1>2, <1>3 DEF Ingests
<1>10. /\ new(p) \in Ingests
       /\ new(p).findings = ingest[r].findings /\ new(p).chain = k
       /\ new(p).steps = ingest[r].steps \ {p} /\ new(p).cur = p
       /\ \/ new(p).pc = "exploits" /\ new(p).prev = ingest[r].prev
          \/ /\ new(p).pc = "next" /\ new(p).prev = ingest[r].prev
             /\ ingest[r].prev /= 0 /\ StepAt(r, p).on = NoRef
          \/ /\ new(p).pc = "steps" /\ new(p).prev = n
             /\ ingest[r].prev = 0 /\ StepAt(r, p).on = NoRef
  <2>1. CASE StepAt(r, p).on = NoRef
    <3>1. new(p) = ToNextStep(i, n) /\ n \in Nat
      BY <1>1, <1>3, <2>1
    <3> HIDE DEF new, i
    <3>2. ToNextStep(i, n) \in Ingests
      BY <3>1, <1>9, ToNextStepTyped
    <3> QED BY <3>1, <3>2, <2>1, <1>9 DEF ToNextStep, Ingests
  <2>2. CASE StepAt(r, p).on /= NoRef
    <3>1. new(p) = [i EXCEPT !.pc = "exploits"]
      BY <2>2
    <3> HIDE DEF new, i
    <3> QED BY <3>1, <1>9 DEF Ingests, Stages
  <2> QED BY <2>1, <2>2
<1> HIDE DEF new, i
<1>11. ingest'[r] = new(p) /\ handed' = handed /\ scanOf' = scanOf
  BY <1>1 DEF Continue, GraphInv, GraphTypeOK
<1>12. p \in Steps(c) /\ p \notin new(p).steps /\ new(p).steps \subseteq ingest[r].steps
       /\ \A q \in new(p).steps : Before(c, p, q)
  BY <1>1, <1>3, <1>6, <1>10
<1>13. StepAt(r, p).on = NoRef => \A q : q = k => StepWritten(r, q, p)'
  <2> SUFFICES ASSUME StepAt(r, p).on = NoRef, NEW q, q = k PROVE StepWritten(r, q, p)'
    OBVIOUS
  <2>1. Part(r, q, p)' = StepAt(r, p) /\ PartId(r, q, p)' = t
    BY <1>3, <1>11 DEF Part, PartId
  <2>2. NoRef \notin handed[r].findings
    BY UnknownIsNone, OwnIds DEF GraphInv, RunsWell, RunWell, HandedOwn
  <2> QED BY <2>1, <2>2, <1>7, <1>11 DEF StepWritten
<1>14. RunDone(r)'
  <2> PICK q : q = k
    OBVIOUS
  <2>1. CASE new(p).pc = "steps"
    <3>1. DoneSteps(r) = {}
      BY <1>2, <1>10, <2>1 DEF RunDone, DoneInOrder, Writing
    <3>2. DoneSteps(r) \cup {p} = Steps(c) \ new(p).steps
      BY <1>1, <1>3, <1>4, <1>10
    <3>3. new(p).prev = StepAt(r, p).n /\ StepWritten(r, q, p)'
      BY <1>10, <1>13, <2>1
    <3> QED BY <1>1, <1>2, <1>5, <1>7, <1>10, <1>12, <2>1, <3>1, <3>2, <3>3, StepFinished DEF Writing
  <2>2. CASE new(p).pc \in OnStep
    <3>1. DoneSteps(r) = Steps(c) \ (new(p).steps \cup {p})
      BY <1>1, <1>4, <1>10
    <3>2. <<"Step", StepId(ChainOf(r), StepAt(r, p).n)>> \in nodes'
      BY <1>7
    <3>3. /\ new(p).prev = ingest[r].prev
          /\ new(p).pc = "next" => new(p).prev /= 0 /\ StepWritten(r, q, p)'
      BY <1>10, <1>13, <2>2 DEF OnStep
    <3> QED BY <1>1, <1>2, <1>5, <1>7, <1>10, <1>12, <2>2, <3>1, <3>2, <3>3, StepTaken DEF Writing
  <2> QED BY <1>10, <2>1, <2>2 DEF OnStep
<1> QED BY <1>1, <1>2, <1>7, <1>8, <1>10, <1>14, StepMirrors DEF Stage

\* What the run is at, with the steps it is done with before it.
LEMMA StepAtHandDone ==
    ASSUME GraphInv, MirrorInv, NEW r \in Runs, ingest[r].pc \in OnStep
    PROVE  /\ ingest[r].cur \in Steps(Handed(r)) \ ingest[r].steps
           /\ DoneSteps(r) = Steps(Handed(r)) \ (ingest[r].steps \cup {ingest[r].cur})
           /\ <<"Step", CurId(r)>> \in nodes
           /\ PartId(r, ingest[r].chain, ingest[r].cur) = CurId(r)
           /\ \A m \in DoneSteps(r) : Before(Handed(r), m, ingest[r].cur)
           /\ \A q \in ingest[r].steps : Before(Handed(r), ingest[r].cur, q)
           /\ IF ingest[r].prev = 0 THEN DoneSteps(r) = {} ELSE \E m \in DoneSteps(r) : Last(r, m)
<1>1. RunDone(r) /\ ingest[r].pc \in Writing
  BY DEF MirrorInv, OnStep, Writing
<1>2. ingest[r].cur \in Steps(Handed(r))
  BY StepAtHand DEF Steps
<1>3. PartId(r, ingest[r].chain, ingest[r].cur) = CurId(r)
  BY <1>1, PartsAtHand DEF CurId
<1>4. DoneSteps(r) = Steps(Handed(r)) \ (ingest[r].steps \cup {ingest[r].cur})
  BY DEF DoneSteps, Steps
<1> QED BY <1>1, <1>2, <1>3, <1>4 DEF RunDone, DoneInOrder

LEMMA LinkExploitMirrors ==
    ASSUME GraphInv, MirrorInv, NEW r \in Runs, LinkExploit(r)
    PROVE  MirrorInv'
<1> DEFINE step == StepAt(r, ingest[r].cur)
           i == ToNextStep(ingest[r], step.n)
<1>1. /\ nodes' = nodes /\ ingest[r].pc = "exploits" /\ Continue(r, i)
      /\ Link(<<"Step", CurId(r)>>, "EXPLOITS", <<"Finding", step.on>>)
  BY DEF LinkExploit, Stage
<1>2. ingest[r] \in Ingests /\ RunDone(r)
  BY DEF GraphInv, GraphTypeOK, MirrorInv
<1> PICK k : k = ingest[r].chain
  OBVIOUS
<1> PICK p : p = ingest[r].cur
  OBVIOUS
<1>3. /\ p \in Steps(Handed(r)) /\ p \notin ingest[r].steps
      /\ DoneSteps(r) = Steps(Handed(r)) \ (ingest[r].steps \cup {p})
      /\ <<"Step", CurId(r)>> \in nodes /\ PartId(r, k, p) = CurId(r)
      /\ \A m \in DoneSteps(r) : Before(Handed(r), m, p)
      /\ \A q \in ingest[r].steps : Before(Handed(r), p, q)
      /\ ingest[r].prev = 0 => DoneSteps(r) = {}
  BY <1>1, StepAtHandDone DEF OnStep
<1>4. /\ k \in DOMAIN handed[r].chains /\ Parts(r, k) = Steps(Handed(r))
      /\ Part(r, k, p) = step /\ step.n \in Nat
      /\ CurId(r) = StepId(ChainOf(r), StepAt(r, p).n)
      /\ ingest[r].steps \subseteq Steps(Handed(r))
  BY <1>1, <1>3, PartsAtHand DEF Writing
<1>5. /\ edges \subseteq edges'
      /\ \A e \in edges' \ edges : /\ e = <<"EXPLOITS", CurId(r), step.on>>
                                   /\ <<"Finding", step.on>> \in nodes
      /\ <<"Finding", step.on>> \in nodes => <<"EXPLOITS", CurId(r), step.on>> \in edges'
  BY <1>1, <1>3 DEF Link, Joined
\* A step names findings the run was handed, or nothing.
<1>6. step.on \in handed[r].findings \cup {Unknown, NoRef}
  <2>1. Handed(r) \in ChainsOver(handed[r].findings)
    BY <1>2, <1>4, InSequence DEF RunDone, FindingsDone, Handed
  <2> DEFINE such == [n : StepNumbers, on : handed[r].findings \cup {Unknown, NoRef}]
  <2>2. Handed(r).steps \in Seq(such) /\ p \in DOMAIN Handed(r).steps
    BY <2>1, <1>3 DEF ChainsOver, Steps
  <2>3. Handed(r).steps[p] \in such
    <3> HIDE DEF such
    <3> QED BY <2>2, InSequence
  <2> QED BY <2>3 DEF StepAt
<1>7. \A e \in edges' \ edges : DrawnBy(r, e)
  <2> SUFFICES ASSUME NEW e \in edges' \ edges PROVE DrawnBy(r, e)
    OBVIOUS
  <2>1. e = <<"EXPLOITS", CurId(r), step.on>> /\ <<"Finding", step.on>> \in nodes
    BY <1>5
  <2>2. step.on \in handed[r].findings
    BY <1>6, <2>1, NodeIds, UnknownIsNone DEF GraphInv
  <2>3. p \in Parts(r, k) /\ e[1] = "EXPLOITS" /\ e[2] = PartId(r, k, p)
        /\ e[3] = Part(r, k, p).on /\ e[3] \in handed[r].findings
    BY <1>3, <1>4, <2>1, <2>2
  <2> QED BY <1>4, <2>3 DEF DrawnBy
<1>8. /\ i \in Ingests /\ i.findings = ingest[r].findings /\ i.chain = k
      /\ i.steps = ingest[r].steps /\ i.cur = p
      /\ \/ i.pc = "steps" /\ i.prev = step.n /\ ingest[r].prev = 0
         \/ i.pc = "next" /\ i.prev = ingest[r].prev /\ ingest[r].prev /= 0
  <2>1. i \in Ingests
    BY <1>2, <1>4, ToNextStepTyped
  <2> HIDE DEF step
  <2> QED BY <1>2, <2>1 DEF ToNextStep, Ingests
<1> HIDE DEF i
<1>9. scanOf' = scanOf /\ handed' = handed
  BY <1>1 DEF Continue
<1>10. StepWritten(r, k, p)'
  <2>1. Part(r, k, p)' = step /\ PartId(r, k, p)' = CurId(r)
    BY <1>3, <1>4, <1>9 DEF Part, PartId
  <2>2. step.on \in handed[r].findings => <<"Finding", step.on>> \in nodes
    BY <1>1, <1>2 DEF RunDone, FindingsDone, Writing
  <2> QED BY <2>1, <2>2, <1>1, <1>3, <1>5, <1>9 DEF StepWritten
<1>11. RunDone(r)'
  <2>1. CASE i.pc = "steps"
    <3>1. DoneSteps(r) = {} /\ DoneSteps(r) \cup {p} = Steps(Handed(r)) \ i.steps
      BY <1>3, <1>8, <2>1
    <3> QED BY <1>1, <1>2, <1>3, <1>5, <1>8, <1>10, <2>1, <3>1, StepFinished DEF Writing
  <2>2. CASE i.pc = "next"
    BY <1>1, <1>2, <1>3, <1>4, <1>5, <1>8, <1>10, <2>2, StepTaken DEF Writing, OnStep
  <2> QED BY <1>8, <2>1, <2>2
<1> QED BY <1>1, <1>2, <1>5, <1>7, <1>8, <1>11, StepMirrors DEF Stage

LEMMA LinkNextStepMirrors ==
    ASSUME GraphInv, MirrorInv, NEW r \in Runs, LinkNextStep(r)
    PROVE  MirrorInv'
<1> DEFINE step == StepAt(r, ingest[r].cur)
           before == StepId(ChainOf(r), ingest[r].prev)
           i == [ingest[r] EXCEPT !.pc = "steps", !.prev = step.n]
           c == Handed(r)
<1>1. /\ nodes' = nodes /\ ingest[r].pc = "next" /\ Continue(r, i)
      /\ Link(<<"Step", before>>, "NEXT_STEP", <<"Step", CurId(r)>>)
  BY DEF LinkNextStep, Stage
<1>2. ingest[r] \in Ingests /\ RunDone(r)
  BY DEF GraphInv, GraphTypeOK, MirrorInv
<1> PICK k : k = ingest[r].chain
  OBVIOUS
<1> PICK p : p = ingest[r].cur
  OBVIOUS
<1>3. /\ p \in Steps(c) /\ p \notin ingest[r].steps
      /\ DoneSteps(r) = Steps(c) \ (ingest[r].steps \cup {p})
      /\ <<"Step", CurId(r)>> \in nodes /\ PartId(r, k, p) = CurId(r)
      /\ \A m \in DoneSteps(r) : Before(c, m, p)
      /\ \A q \in ingest[r].steps : Before(c, p, q)
      /\ IF ingest[r].prev = 0 THEN DoneSteps(r) = {} ELSE \E m \in DoneSteps(r) : Last(r, m)
  BY <1>1, StepAtHandDone DEF OnStep
<1>4. ingest[r].prev /= 0 /\ StepWritten(r, k, p)
  BY <1>1, <1>2 DEF RunDone, DoneInOrder
<1>5. PICK l \in DoneSteps(r) : Last(r, l)
  BY <1>3, <1>4
<1>6. /\ k \in DOMAIN handed[r].chains /\ c = handed[r].chains[k] /\ Parts(r, k) = Steps(c)
      /\ \A q \in Steps(c) : q \in Nat /\ c.steps[q].n \in Nat /\ StepAt(r, q).n \in Nat
      /\ PartId(r, k, l) = StepId(ChainOf(r), StepAt(r, l).n)
      /\ DoneSteps(r) \subseteq Steps(c) /\ ingest[r].steps \subseteq Steps(c)
  BY <1>1, PartsAtHand DEF Writing
<1>7. PartId(r, k, l) = before
  BY <1>5, <1>6 DEF Last
<1>8. <<"Step", before>> \in nodes
  <2>1. StepWritten(r, k, l)
    BY <1>1, <1>2, <1>5 DEF RunDone, StepsDone, StepsWritten, Writing
  <2> QED BY <1>7, <2>1 DEF StepWritten
<1>9. edges' = edges \cup {<<"NEXT_STEP", before, CurId(r)>>}
  BY <1>1, <1>3, <1>8 DEF Link, Joined
\* The step before is the one the links lead from.
<1>10. \A m \in DoneSteps(r) : Consecutive(c, m, p) <=> m = l
  <2>1. /\ ~Before(c, p, p) /\ ~Before(c, l, l)
        /\ \A q \in ingest[r].steps : ~Before(c, q, p)
        /\ \A m \in DoneSteps(r) : ~Before(c, l, m)
    <3> HIDE DEF c
    <3>1. \A m \in DoneSteps(r) : m = l \/ Before(c, m, l)
      BY <1>5 DEF Last, c
    <3>2. /\ \A q \in Steps(c) : ~Before(c, q, q)
          /\ \A m, q \in Steps(c) : Before(c, m, q) => ~Before(c, q, m)
      BY <1>6, BeforeOrders
    <3>3. p \in Steps(c) /\ l \in Steps(c) /\ DoneSteps(r) \subseteq Steps(c)
          /\ ingest[r].steps \subseteq Steps(c)
      BY <1>3, <1>5, <1>6
    <3>4. ~Before(c, p, p) /\ ~Before(c, l, l)
      BY <3>2, <3>3
    <3>5. \A q \in ingest[r].steps : ~Before(c, q, p)
      BY <3>2, <3>3, <1>3
    <3>6. \A m \in DoneSteps(r) : ~Before(c, l, m)
      BY <3>1, <3>2, <3>3, <3>4
    <3> QED BY <3>4, <3>5, <3>6
  <2>2. Consecutive(c, l, p)
    <3> SUFFICES ASSUME NEW m \in Steps(c), Before(c, l, m), Before(c, m, p) PROVE FALSE
      BY <1>3, <1>5 DEF Consecutive
    <3>1. m \in DoneSteps(r) \/ m = p \/ m \in ingest[r].steps
      BY <1>3
    <3> QED BY <2>1, <3>1
  <2>3. ASSUME NEW m \in DoneSteps(r), m /= l PROVE ~Consecutive(c, m, p)
    <3>1. Before(c, m, l) /\ Before(c, l, p) /\ l \in Steps(c)
      BY <1>3, <1>5, <1>6, <2>3 DEF Last
    <3> QED BY <3>1 DEF Consecutive
  <2> QED BY <2>2, <2>3
<1>11. \A e \in edges' \ edges : DrawnBy(r, e)
  <2> SUFFICES ASSUME NEW e \in edges' \ edges PROVE DrawnBy(r, e)
    OBVIOUS
  <2>1. e = <<"NEXT_STEP", before, CurId(r)>>
    BY <1>9
  <2>2. l \in Parts(r, k) /\ p \in Parts(r, k) /\ Consecutive(handed[r].chains[k], l, p)
    BY <1>3, <1>5, <1>6, <1>10
  <2>3. e[1] = "NEXT_STEP" /\ e[2] = PartId(r, k, l) /\ e[3] = PartId(r, k, p)
    BY <1>3, <1>7, <2>1
  <2> QED BY <1>6, <2>2, <2>3 DEF DrawnBy
<1>12. /\ i \in Ingests /\ i.findings = ingest[r].findings /\ i.chain = k
       /\ i.steps = ingest[r].steps /\ i.pc = "steps" /\ i.prev = StepAt(r, p).n
  <2>1. step.n \in Nat
    BY <1>3, <1>6
  <2> HIDE DEF step
  <2> QED BY <1>2, <2>1 DEF Ingests, Stages, step
<1> HIDE DEF i
<1>13. scanOf' = scanOf /\ handed' = handed
  BY <1>1 DEF Continue
<1>14. StepWritten(r, k, p)' /\ \A m \in DoneSteps(r) : LinkWritten(r, k, m, p)'
  <2>1. StepWritten(r, k, p)'
    BY <1>1, <1>4, <1>9, <1>13, WrittenStays
  <2>2. \A m : PartId(r, k, m)' = PartId(r, k, m)
    BY <1>13 DEF PartId, Part
  <2>3. \A m \in DoneSteps(r) : LinkWritten(r, k, m, p)'
    BY <2>2, <1>3, <1>6, <1>7, <1>9, <1>10, <1>13 DEF LinkWritten
  <2> QED BY <2>1, <2>3
<1>15. RunDone(r)'
  <2>1. DoneSteps(r) \cup {p} = Steps(c) \ i.steps
    BY <1>3, <1>6, <1>12
  <2> QED BY <1>1, <1>3, <1>9, <1>12, <1>14, <2>1, StepFinished DEF Writing
<1>16. edges \subseteq edges' /\ ~Stage(r, "idle")
  BY <1>1, <1>9 DEF Stage
<1> QED BY <1>1, <1>11, <1>12, <1>15, <1>16, StepMirrors

LEMMA StartIngestMirrors ==
    ASSUME GraphInv, MirrorInv, NEW r \in Runs, NEW findings \in SUBSET OwnFindings(r),
           NEW chains \in Seq(ChainsOver(findings)), StartIngest(r, findings, chains)
    PROVE  MirrorInv'
<1> DEFINE i == [NotBegun EXCEPT !.pc = "scan", !.findings = findings]
<1>1. /\ scanOf' = scanOf /\ nodes' = nodes /\ edges' = edges
      /\ ingest' = [ingest EXCEPT ![r] = i] /\ Stage(r, "idle")
      /\ handed' = [handed EXCEPT ![r] = [findings |-> findings, chains |-> chains]]
  BY DEF StartIngest
<1>2. i.pc = "scan" /\ i.findings = findings /\ i.chain = 0 /\ i.uses = {} /\ i.steps = {}
  BY DEF NotBegun
<1> HIDE DEF i
<1>3. /\ ingest'[r] = i /\ handed'[r].findings = findings /\ handed'[r].chains = chains
      /\ \A q \in Runs \ {r} : ingest'[q] = ingest[q] /\ handed'[q] = handed[q]
  BY <1>1 DEF GraphInv, GraphTypeOK
<1>4. AllDrawn'
  <2> SUFFICES ASSUME NEW e \in edges' PROVE \E q \in Runs : ~Stage(q, "idle")' /\ DrawnBy(q, e)'
    BY DEF AllDrawn
  <2>1. PICK q \in Runs : ~Stage(q, "idle") /\ DrawnBy(q, e)
    BY <1>1 DEF MirrorInv, AllDrawn
  <2>2. q /= r
    BY <1>1, <2>1
  <2>3. ~Stage(q, "idle")' /\ DrawnBy(q, e)'
    BY <1>1, <1>3, <2>1, <2>2, DrawnStays DEF Stage
  <2> QED BY <2>3
<1>5. RunDone(r)'
  <2>1. FindingsDone(r)'
    BY <1>2, <1>3 DEF FindingsDone, Writing
  <2> QED BY <2>1, <1>2, <1>3 DEF RunDone, ChainsDone, StepsDone, DoneInOrder, Writing, OnStep
<1>6. \A q \in Runs \ {r} : RunDone(q)'
  BY <1>1, <1>3, OthersDone DEF MirrorInv
<1> QED BY <1>4, <1>5, <1>6 DEF MirrorInv

LEMMA MirrorInit == GraphInit => MirrorInv
<1> SUFFICES ASSUME GraphInit PROVE MirrorInv
  OBVIOUS
<1>1. AllDrawn
  BY DEF GraphInit, AllDrawn
<1>2. ASSUME NEW r \in Runs PROVE RunDone(r)
  <2>1. ingest[r].pc = "idle" /\ ingest[r].findings = {} /\ handed[r].findings = {}
        /\ handed[r].chains = <<>>
    BY DEF GraphInit, NotBegun, NothingHanded
  <2> QED BY <2>1 DEF RunDone, FindingsDone, ChainsDone, StepsDone, DoneInOrder, Writing, OnStep
<1> QED BY <1>1, <1>2 DEF MirrorInv

LEMMA MirrorStep == GraphInv /\ MirrorInv /\ [GraphNext]_graphVars => MirrorInv'
<1> SUFFICES ASSUME GraphInv, MirrorInv, [GraphNext]_graphVars PROVE MirrorInv'
  OBVIOUS
<1>1. ASSUME NEW r \in Runs, Ingest(r) PROVE MirrorInv'
  BY <1>1, IngestScanMirrors, IngestFindingMirrors, IngestChainMirrors, LinkFindingMirrors,
     IngestStepMirrors, LinkExploitMirrors, LinkNextStepMirrors, IngestEndMirrors DEF Ingest
<1>2. CASE GraphNext
  BY <1>1, <1>2, StartIngestMirrors DEF GraphNext
<1>3. CASE UNCHANGED graphVars
  <2>1. scanOf' = scanOf /\ nodes' = nodes /\ edges' = edges /\ handed' = handed /\ ingest' = ingest
    BY <1>3 DEF graphVars
  <2>2. AllDrawn'
    BY <2>1, DrawnStays DEF MirrorInv, AllDrawn, Stage
  <2>3. \A r \in Runs : RunDone(r)'
    BY <2>1, OthersDone DEF MirrorInv
  <2> QED BY <2>2, <2>3 DEF MirrorInv
<1> QED BY <1>2, <1>3

-----------------------------------------------------------------------------
(* The nodes before the graph node                                         *)

\* What a node hands on, beyond its type: nothing that is owed is missing, and
\* chains are about the findings they come with.
Whole(x) ==
    /\ x.at \in {"validator", "chain"} => x.owed \subseteq Ids(x.found)
    /\ x.at = "graph" => /\ x.owed \subseteq x.found
                         /\ x.chains \in Seq(ChainsOver(x.found))
                         /\ x.chains /= <<>> => x.found /= {}

\* What is owed has been handed to the graph.
Paid(x, r) == x.at \in {"ingest", "end"} => x.owed \subseteq handed[r].findings

PipeInv ==
    /\ run = [r \in Runs |-> run[r]]
    /\ handed = [r \in Runs |-> handed[r]]
    /\ \A r \in Runs : run[r] \in Runnings(r) /\ Whole(run[r]) /\ Paid(run[r], r)

LEMMA RawTyped ==
    ASSUME NEW r \in Runs, NEW k \in 1 .. 3, NEW hot \in BOOLEAN
    PROVE  Raw(r, k, hot) \in Findings(r)
BY NumbersAssumption DEF Raw, Findings, OwnFindings

LEMMA ReportsTyped ==
    ASSUME NEW r \in Runs, NEW k \in 1 .. 3, NEW hots \in SUBSET BOOLEAN, NEW x \in Reports(r, k, hots)
    PROVE  x \subseteq Findings(r)
BY RawTyped DEF Reports

LEMMA RewrittenTyped ==
    ASSUME NEW r \in Runs, NEW x \in Rewritten(r)
    PROVE  x \subseteq Findings(r)
BY RawTyped DEF Rewritten

LEMMA IdsTyped ==
    ASSUME NEW r \in Runs, NEW x \in SUBSET Findings(r)
    PROVE  Ids(x) \subseteq OwnFindings(r)
BY DEF Ids, Findings

LEMMA SameIds ==
    ASSUME NEW findings, NEW g, \A f \in findings : g[f].id = f.id
    PROVE  Ids({g[f] : f \in findings}) = Ids(findings)
BY DEF Ids

\* A node that returns something whole keeps the invariant.
LEMMA ReturnsKeeps ==
    ASSUME PipeInv, NEW r \in Runs, NEW x \in Runnings(r), Whole(x), Paid(x, r), Returns(r, x)
    PROVE  PipeInv'
<1>1. run' = [run EXCEPT ![r] = x] /\ UNCHANGED handed
  BY DEF Returns, graphVars
<1>2. run'[r] = x /\ \A q \in Runs \ {r} : run'[q] = run[q]
  BY <1>1 DEF PipeInv
<1>3. run' = [q \in Runs |-> run'[q]]
  BY <1>1 DEF PipeInv
<1>4. \A q \in Runs : run'[q] \in Runnings(q) /\ Whole(run'[q]) /\ Paid(run'[q], q)
  BY <1>2 DEF PipeInv
<1>5. \A q \in Runs : Paid(run[q], q)'
  BY <1>1, <1>4 DEF Paid
<1> QED BY <1>1, <1>3, <1>4, <1>5 DEF PipeInv

LEMMA RaisesKeeps ==
    ASSUME PipeInv, NEW r \in Runs, Raises(r)
    PROVE  PipeInv'
<1> DEFINE x == [at |-> "raised"]
<1>1. x \in Runnings(r) /\ Whole(x) /\ Paid(x, r)
  BY DEF Runnings, Whole, Paid
<1>2. Returns(r, x)
  BY DEF Raises
<1> QED BY <1>1, <1>2, ReturnsKeeps

\* The shapes of a run, by the node to come.
LEMMA Shapes ==
    ASSUME PipeInv, NEW r \in Runs
    PROVE  /\ run[r].at \in {"recon", "planner"} \cup Agents =>
                 run[r] \in [at : {"recon", "planner"} \cup Agents, type : TargetTypes]
           /\ run[r].at = "validator" =>
                 run[r] \in [at : {"validator"}, type : TargetTypes, found : SUBSET Findings(r),
                             reported : SUBSET OwnFindings(r), owed : SUBSET OwnFindings(r)]
           /\ run[r].at = "chain" =>
                 run[r] \in [at : {"chain"}, found : SUBSET Findings(r),
                             owed : SUBSET OwnFindings(r)]
           /\ run[r].at = "graph" =>
                 run[r] \in [at : {"graph"}, found : SUBSET OwnFindings(r), chains : Seq(Chains),
                             owed : SUBSET OwnFindings(r)]
           /\ run[r].at \in {"ingest", "end"} =>
                 run[r] \in [at : {"ingest", "end"}, owed : SUBSET OwnFindings(r)]
BY DEF PipeInv, Runnings, Agents

LEMMA DeliversKeeps ==
    ASSUME PipeInv, NEW r \in Runs, run[r].at \in Agents,
           NEW reported \in SUBSET Findings(r), NEW found \in SUBSET Findings(r),
           NEW owed \in SUBSET found, Delivers(r, reported, owed, found)
    PROVE  PipeInv'
<1> DEFINE x == [at |-> "validator", type |-> run[r].type, found |-> found,
                 reported |-> Ids(reported), owed |-> Ids(owed)]
<1>1. run[r].type \in TargetTypes
  BY Shapes
<1>2. Ids(owed) \subseteq Ids(found) /\ owed \in SUBSET Findings(r)
  BY DEF Ids
<1>3. /\ Ids(owed) \in SUBSET OwnFindings(r) /\ Ids(reported) \in SUBSET OwnFindings(r)
  BY <1>2, IdsTyped
<1>4. x \in Runnings(r) /\ Whole(x) /\ Paid(x, r)
  BY <1>1, <1>2, <1>3 DEF Runnings, Whole, Paid
<1>5. Returns(r, x)
  BY DEF Delivers
<1> HIDE DEF x
<1> QED BY <1>4, <1>5, ReturnsKeeps

LEMMA AgentKeeps ==
    ASSUME PipeInv, NEW r \in Runs, Agent(r)
    PROVE  PipeInv'
<1>1. CASE WebApp(r)
  <2>1. PICK zap \in Reports(r, 1, BOOLEAN), nuclei \in Reports(r, 2, BOOLEAN) :
          LET raw == zap \cup nuclei IN
          \/ Delivers(r, raw, raw, raw)
          \/ /\ raw /= {}
             /\ \E found \in Rewritten(r) : Delivers(r, raw, {}, found)
    BY <1>1 DEF WebApp
  <2>2. run[r].at \in Agents
    BY <1>1 DEF WebApp, At, Agents
  <2>3. zap \cup nuclei \subseteq Findings(r)
    BY ReportsTyped
  <2> QED BY <2>1, <2>2, <2>3, RewrittenTyped, DeliversKeeps
<1>2. CASE Network(r)
  <2>1. run[r].at \in Agents
    BY <1>2 DEF Network, At, Agents
  <2>2. CASE Raises(r)
    BY <2>1, <2>2, RaisesKeeps
  <2>3. CASE ~Raises(r)
    <3>1. PICK nmap \in Reports(r, 1, {FALSE}), secrets \in Reports(r, 2, {TRUE}) :
             \/ Delivers(r, nmap \cup secrets, nmap \cup secrets, nmap \cup secrets)
             \/ /\ nmap /= {}
                /\ \E found \in Rewritten(r) :
                      Delivers(r, nmap \cup secrets, secrets, found \cup secrets)
      BY <1>2, <2>3 DEF Network
    <3>2. nmap \subseteq Findings(r) /\ secrets \subseteq Findings(r)
      <4>1. nmap \in {{}, {Raw(r, 1, FALSE)}} /\ secrets \in {{}, {Raw(r, 2, TRUE)}}
        BY Zenon DEF Reports
      <4>2. Raw(r, 1, FALSE) \in Findings(r) /\ Raw(r, 2, TRUE) \in Findings(r)
        BY NumbersAssumption DEF Raw, Findings, OwnFindings
      <4> QED BY <4>1, <4>2
    <3>3. \A found \in Rewritten(r) : found \cup secrets \subseteq Findings(r)
      BY <3>2, RewrittenTyped
    <3> QED BY <3>1, <3>2, <3>3, <2>1, DeliversKeeps
  <2> QED BY <2>2, <2>3
<1>3. ASSUME NEW agent \in {"container", "cloud"}, OneScanner(r, agent)
      PROVE  PipeInv'
  <2>1. run[r].at \in Agents
    BY <1>3 DEF OneScanner, At, Agents
  <2>2. CASE Raises(r)
    BY <2>1, <2>2, RaisesKeeps
  <2>3. CASE Fails(r, {})
    BY <2>1, <2>3, DeliversKeeps DEF Fails
  <2>4. ASSUME NEW a \in Reports(r, 1, BOOLEAN), NEW b \in Reports(r, 2, BOOLEAN),
               Delivers(r, a \cup b, a \cup b, a \cup b)
        PROVE  PipeInv'
    <3>1. a \cup b \subseteq Findings(r)
      BY ReportsTyped
    <3> QED BY <3>1, <2>1, <2>4, DeliversKeeps
  <2> QED BY <1>3, <2>2, <2>3, <2>4 DEF OneScanner
<1>4. CASE BloodHound(r)
  <2>1. PICK a \in Reports(r, 1, BOOLEAN), b \in Reports(r, 2, BOOLEAN) :
          \/ Delivers(r, a \cup b, a \cup b, a \cup b)
          \/ Fails(r, a \cup b)
    BY <1>4 DEF BloodHound
  <2>2. run[r].at \in Agents
    BY <1>4 DEF BloodHound, At, Agents
  <2>3. a \cup b \subseteq Findings(r)
    BY ReportsTyped
  <2> QED BY <2>1, <2>2, <2>3, DeliversKeeps DEF Fails
<1> QED BY <1>1, <1>2, <1>3, <1>4 DEF Agent, Container, Cloud

LEMMA ScoutingKeeps ==
    ASSUME PipeInv, NEW r \in Runs, Recon(r) \/ Planner(r)
    PROVE  PipeInv'
<1>1. CASE Recon(r)
  <2> DEFINE x == [run[r] EXCEPT !.at = "planner"]
  <2>1. run[r].at = "recon"
    BY <1>1 DEF Recon, At
  <2>2. x \in [at : {"planner"}, type : TargetTypes]
    BY <2>1, Shapes
  <2>3. x \in Runnings(r) /\ Whole(x) /\ Paid(x, r)
    BY <2>2 DEF Runnings, Whole, Paid
  <2>4. CASE Returns(r, x)
    <3> HIDE DEF x
    <3> QED BY <2>3, <2>4, ReturnsKeeps
  <2>5. CASE Raises(r)
    BY <2>5, RaisesKeeps
  <2> QED BY <1>1, <2>4, <2>5 DEF Recon
<1>2. CASE Planner(r)
  <2> DEFINE x == IF Route(run[r].type) = "end" THEN [at |-> "end", owed |-> {}]
                  ELSE [run[r] EXCEPT !.at = Route(run[r].type)]
  <2>1. run[r].at = "planner" /\ Returns(r, x)
    BY <1>2 DEF Planner, At
  <2>2. Route(run[r].type) \in Agents \cup {"end"}
    BY DEF Route, Agents
  <2>3. run[r] \in [at : {"planner"}, type : TargetTypes]
    BY <2>1, Shapes
  <2>4. x \in [at : Agents, type : TargetTypes] \/ x = [at |-> "end", owed |-> {}]
    BY <2>2, <2>3
  <2>5. x \in Runnings(r) /\ Whole(x) /\ Paid(x, r)
    BY <2>4 DEF Runnings, Whole, Paid, Agents
  <2> HIDE DEF x
  <2> QED BY <2>1, <2>5, ReturnsKeeps
<1> QED BY <1>1, <1>2

LEMMA ValidatorKeeps ==
    ASSUME PipeInv, NEW r \in Runs, Validator(r)
    PROVE  PipeInv'
<1>1. run[r].at = "validator"
  BY DEF Validator, At
<1>2. /\ run[r].found \in SUBSET Findings(r) /\ run[r].owed \in SUBSET OwnFindings(r)
      /\ run[r].owed \subseteq Ids(run[r].found)
  BY <1>1, Shapes DEF PipeInv, Whole
<1>3. ASSUME NEW verdict \in [run[r].found -> Verdicts(r)],
             Returns(r, [at |-> "chain", owed |-> run[r].owed,
                         found |-> {[f EXCEPT !.status = verdict[f]] : f \in run[r].found}])
      PROVE  PipeInv'
  <2> DEFINE judged == {[f EXCEPT !.status = verdict[f]] : f \in run[r].found}
             x == [at |-> "chain", owed |-> run[r].owed, found |-> judged]
  <2>1. \A f \in run[r].found : verdict[f] \in {"open", "confirmed", "other"}
    BY DEF Verdicts
  <2>2. \A f \in run[r].found : [f EXCEPT !.status = verdict[f]] \in Findings(r)
                                /\ [f EXCEPT !.status = verdict[f]].id = f.id
    BY <1>2, <2>1 DEF Findings
  <2>3. judged \in SUBSET Findings(r) /\ Ids(judged) = Ids(run[r].found)
    <3> DEFINE g == [f \in run[r].found |-> [f EXCEPT !.status = verdict[f]]]
    <3>1. \A f \in run[r].found : g[f] \in Findings(r) /\ g[f].id = f.id
      BY <2>2
    <3>2. judged = {g[f] : f \in run[r].found}
      OBVIOUS
    <3> HIDE DEF g, judged
    <3> QED BY <3>1, <3>2, SameIds
  <2> HIDE DEF judged
  <2>4. x \in Runnings(r) /\ Whole(x) /\ Paid(x, r)
    BY <1>2, <2>3 DEF Runnings, Whole, Paid
  <2>5. Returns(r, x)
    BY <1>3 DEF judged
  <2> HIDE DEF x
  <2> QED BY <2>4, <2>5, ReturnsKeeps
<1>4. CASE Raises(r)
  BY <1>1, <1>4, RaisesKeeps
<1> QED BY <1>3, <1>4 DEF Validator

\* An answer about a finding is made of chains over it.
LEMMA AboutTyped ==
    ASSUME NEW ids, NEW id \in ids, NEW answer \in Answers
    PROVE  About(answer, id) \in Seq(ChainsOver(ids))
<1>1. answer \in Seq(ChainsOver({Offered}))
  BY AnswersAssumption DEF Offered
<1>2. ASSUME NEW k \in DOMAIN answer PROVE About(answer, id)[k] \in ChainsOver(ids)
  <2>1. answer[k] \in ChainsOver({Offered})
    BY <1>1, InSequence
  <2>2. /\ answer[k].uses \subseteq {Offered, Unknown}
        /\ answer[k].steps \in Seq([n : StepNumbers, on : {Offered, Unknown, NoRef}])
    BY <2>1 DEF ChainsOver
  <2> DEFINE uses == {Naming(ref, id) : ref \in answer[k].uses}
             steps == [p \in DOMAIN answer[k].steps |->
                         [answer[k].steps[p] EXCEPT !.on = Naming(@, id)]]
  <2>3. uses \in SUBSET (ids \cup {Unknown})
    BY <2>2 DEF Naming
  <2>4. \A p \in DOMAIN answer[k].steps :
           steps[p] \in [n : StepNumbers, on : ids \cup {Unknown, NoRef}]
    <3> SUFFICES ASSUME NEW p \in DOMAIN answer[k].steps
                 PROVE  steps[p] \in [n : StepNumbers, on : ids \cup {Unknown, NoRef}]
      OBVIOUS
    <3>1. answer[k].steps[p] \in [n : StepNumbers, on : {Offered, Unknown, NoRef}]
      BY <2>2, InSequence
    <3>2. Naming(answer[k].steps[p].on, id) \in ids \cup {Unknown, NoRef}
      BY <3>1 DEF Naming
    <3> QED BY <3>1, <3>2
  <2>5. steps \in Seq([n : StepNumbers, on : ids \cup {Unknown, NoRef}])
    <3>1. PICK m \in Nat : DOMAIN answer[k].steps = 1 .. m
      BY <2>2
    <3>2. DOMAIN steps = 1 .. m
      BY <3>1
    <3>3. steps = [p \in 1 .. m |-> steps[p]]
      BY <3>1
    <3> HIDE DEF steps
    <3> QED BY <2>4, <3>1, <3>2, <3>3, BuiltSeq
  <2>6. About(answer, id)[k] = [uses |-> uses, steps |-> steps]
    BY DEF About
  <2> HIDE DEF uses, steps
  <2> QED BY <2>3, <2>5, <2>6 DEF ChainsOver
<1>3. PICK m \in Nat : DOMAIN answer = 1 .. m
  BY <1>1
<1>4. DOMAIN About(answer, id) = 1 .. m /\ About(answer, id) = [k \in 1 .. m |-> About(answer, id)[k]]
  BY <1>3 DEF About
<1> QED BY <1>2, <1>3, <1>4

LEMMA ChainKeeps ==
    ASSUME PipeInv, NEW r \in Runs, Chain(r)
    PROVE  PipeInv'
<1>1. run[r].at = "chain" /\ run[r].found \in SUBSET Findings(r)
      /\ run[r].owed \in SUBSET OwnFindings(r) /\ run[r].owed \subseteq Ids(run[r].found)
  BY Shapes DEF Chain, At, PipeInv, Whole
<1>2. ASSUME NEW chains \in Seq(ChainsOver(Ids(run[r].found))), ToGraph(r, chains),
             chains /= <<>> => Ids(run[r].found) /= {}
      PROVE  PipeInv'
  <2> DEFINE x == [at |-> "graph", found |-> Ids(run[r].found), chains |-> chains,
                   owed |-> run[r].owed]
  <2>1. Ids(run[r].found) \in SUBSET OwnFindings(r)
    BY <1>1, IdsTyped
  <2>2. chains \in Seq(Chains)
    BY <2>1, ChainsTyped
  <2>3. x \in Runnings(r) /\ Whole(x) /\ Paid(x, r)
    <3> HIDE DEF x
    <3>1. /\ x = [at |-> "graph", found |-> Ids(run[r].found), chains |-> chains,
                  owed |-> run[r].owed]
          /\ x.at = "graph" /\ x.chains = chains /\ x.found = Ids(run[r].found)
          /\ x.owed = run[r].owed
      BY DEF x
    <3>2. x \in Runnings(r)
      BY <3>1, <1>1, <2>1, <2>2 DEF Runnings
    <3>3. Whole(x) /\ Paid(x, r)
      BY <3>1, <1>1, <1>2 DEF Whole, Paid
    <3> QED BY <3>1, <3>2, <3>3
  <2>4. Returns(r, x)
    BY <1>2 DEF ToGraph
  <2> HIDE DEF x
  <2> QED BY <2>3, <2>4, ReturnsKeeps
<1>3. CASE ToGraph(r, <<>>)
  <2>1. <<>> \in Seq(ChainsOver(Ids(run[r].found)))
    OBVIOUS
  <2> QED BY <2>1, <1>2, <1>3
<1>4. ASSUME NEW id \in Ids(Eligible(run[r].found)), NEW answer \in Answers,
             ToGraph(r, About(answer, id))
      PROVE  PipeInv'
  <2>1. id \in Ids(run[r].found)
    BY DEF Ids, Eligible
  <2>2. About(answer, id) \in Seq(ChainsOver(Ids(run[r].found)))
    BY <2>1, AboutTyped
  <2> QED BY <1>2, <1>4, <2>1, <2>2
<1>5. CASE Raises(r)
  BY <1>1, <1>5, RaisesKeeps
<1> QED BY <1>3, <1>4, <1>5 DEF Chain

LEMMA PipeInit == Init => PipeInv
<1> SUFFICES ASSUME Init PROVE PipeInv
  OBVIOUS
<1>1. run \in [Runs -> [at : {"recon"}, type : TargetTypes]]
  BY DEF Init
<1>2. \A r \in Runs : run[r] \in Runnings(r) /\ Whole(run[r]) /\ Paid(run[r], r)
  BY <1>1 DEF Runnings, Whole, Paid
<1>3. handed = [r \in Runs |-> handed[r]]
  BY DEF Init, GraphInit
<1> QED BY <1>1, <1>2, <1>3 DEF PipeInv

LEMMA GraphNodeKeeps ==
    ASSUME PipeInv, NEW r \in Runs, BeginGraph(r) \/ WriteGraph(r) \/ EndGraph(r)
    PROVE  PipeInv'
<1>1. CASE BeginGraph(r)
  <2> DEFINE x == [at |-> "ingest", owed |-> run[r].owed]
  <2>1. run[r].at = "graph" /\ run' = [run EXCEPT ![r] = x]
        /\ handed' = [handed EXCEPT ![r] = [findings |-> run[r].found, chains |-> run[r].chains]]
    BY <1>1 DEF BeginGraph, StartIngest, At
  <2>2. run'[r] = x /\ \A q \in Runs \ {r} : run'[q] = run[q]
    BY <2>1 DEF PipeInv
  <2>3. run' = [q \in Runs |-> run'[q]]
    BY <2>1 DEF PipeInv
  <2>4. run[r].owed \in SUBSET OwnFindings(r) /\ run[r].owed \subseteq run[r].found
    BY <2>1, Shapes DEF PipeInv, Whole
  <2>5. x \in Runnings(r) /\ Whole(x)
    BY <2>4 DEF Runnings, Whole
  <2>6. handed'[r].findings = run[r].found /\ \A q \in Runs \ {r} : handed'[q] = handed[q]
    BY <2>1 DEF PipeInv
  <2>9. handed' = [q \in Runs |-> handed'[q]]
    BY <2>1 DEF PipeInv
  <2>7. \A q \in Runs : Paid(run[q], q)'
    BY <2>2, <2>4, <2>6 DEF PipeInv, Paid
  <2>8. \A q \in Runs : run'[q] \in Runnings(q) /\ Whole(run'[q])
    BY <2>2, <2>5 DEF PipeInv
  <2> QED BY <2>3, <2>7, <2>8, <2>9 DEF PipeInv
<1>2. CASE WriteGraph(r)
  <2>1. UNCHANGED <<run, handed>>
    BY <1>2 DEF WriteGraph, Ingest, IngestScan, IngestFinding, IngestChain, LinkFinding,
                IngestStep, LinkExploit, LinkNextStep, IngestCompletes, IngestFails, Continue
  <2> QED BY <2>1 DEF PipeInv, Paid
<1>3. CASE EndGraph(r)
  <2> DEFINE x == [at |-> "end", owed |-> run[r].owed]
  <2>1. run[r].at = "ingest" /\ Returns(r, x)
    BY <1>3 DEF EndGraph, At
  <2>2. run[r].owed \in SUBSET OwnFindings(r) /\ run[r].owed \subseteq handed[r].findings
    BY <2>1, Shapes DEF PipeInv, Paid
  <2>3. x \in Runnings(r) /\ Whole(x) /\ Paid(x, r)
    BY <2>2 DEF Runnings, Whole, Paid
  <2> HIDE DEF x
  <2> QED BY <2>1, <2>3, ReturnsKeeps
<1> QED BY <1>1, <1>2, <1>3

LEMMA PipeStep == PipeInv /\ [Next]_pipeVars => PipeInv'
<1> SUFFICES ASSUME PipeInv, [Next]_pipeVars PROVE PipeInv'
  OBVIOUS
<1>1. CASE Next
  BY <1>1, AgentKeeps, ScoutingKeeps, ValidatorKeeps, ChainKeeps, GraphNodeKeeps DEF Next, Node
<1>2. CASE UNCHANGED pipeVars
  BY <1>2 DEF pipeVars, PipeInv, Paid
<1> QED BY <1>1, <1>2

LEMMA PipeInvariant == Spec => []PipeInv
<1> QED BY PipeInit, PipeStep, PTL DEF Spec

-----------------------------------------------------------------------------
(* The pipeline drives the graph                                           *)

\* What the graph node is handed is what AttackGraph expects.
LEMMA GraphStepOfNext == PipeInv /\ [Next]_pipeVars => [GraphNext]_graphVars
<1> SUFFICES ASSUME PipeInv, [Next]_pipeVars PROVE [GraphNext]_graphVars
  OBVIOUS
<1>1. ASSUME NEW r \in Runs, BeginGraph(r) PROVE GraphNext
  <2>1. run[r].at = "graph" /\ StartIngest(r, run[r].found, run[r].chains)
    BY <1>1 DEF BeginGraph, At
  <2>2. run[r].found \in SUBSET OwnFindings(r) /\ run[r].chains \in Seq(ChainsOver(run[r].found))
    BY <2>1, Shapes DEF PipeInv, Whole
  <2> QED BY <2>1, <2>2 DEF GraphNext
<1>2. ASSUME NEW r \in Runs, WriteGraph(r) PROVE GraphNext
  BY <1>2 DEF WriteGraph, GraphNext
<1>3. ASSUME NEW r \in Runs, Node(r), ~BeginGraph(r), ~WriteGraph(r)
      PROVE  UNCHANGED graphVars
  BY <1>3 DEF Node, Agent, Recon, Planner, WebApp, Network, Container, Cloud, OneScanner,
     BloodHound, Validator, Chain, EndGraph, ToGraph, Delivers, Fails,
     Returns, Raises
<1>4. CASE Next
  BY <1>4, <1>1, <1>2, <1>3 DEF Next
<1>5. CASE UNCHANGED pipeVars
  BY <1>5 DEF pipeVars, graphVars
<1> QED BY <1>4, <1>5

\* The agent graph, whatever its nodes do, writes the attack graph as
\* AttackGraph says.
THEOREM DrivesGraph == Spec => GraphSpec
<1>1. Init => GraphInit
  BY DEF Init
<1> QED BY <1>1, PipeInvariant, GraphStepOfNext, PTL DEF Spec, GraphSpec

-----------------------------------------------------------------------------
(* The theorems                                                            *)

\* Type correctness of the pipeline and the graph.
THEOREM TypeCorrect == Spec => []TypeOK
<1>1. GraphInv /\ PipeInv => TypeOK
  BY DEF GraphInv, PipeInv, TypeOK
<1> QED BY <1>1, DrivesGraph, GraphIsSound, PipeInvariant, PTL

\* Both ends of every edge of a view are in it, whatever runs write, stop
\* half-way or are repeated.
THEOREM ViewsAreClosed == Spec => []ViewIsClosed
<1>1. GraphInv => ViewIsClosed
  BY ViewFollows DEF GraphInv
<1> QED BY <1>1, DrivesGraph, GraphIsSound, PTL

\* The links between steps never go back in the order of the list.
THEOREM StepsAscend == Spec => []NextStepAscends
<1>1. GraphInv => NextStepAscends
  BY AscentFollows DEF GraphInv
<1> QED BY <1>1, DrivesGraph, GraphIsSound, PTL

\* A scanner's finding is lost neither before the chain node nor on the way to
\* the graph page, unless an answer of the LLM took its place or its agent failed.
THEOREM FindingsReachThePage == Spec => []FindingsSurvive
<1>1. GraphInv /\ MirrorInv /\ PipeInv => FindingsSurvive
  <2> SUFFICES ASSUME GraphInv, MirrorInv, PipeInv, NEW r \in Runs
               PROVE  /\ run[r].at \in {"validator", "chain"} =>
                            run[r].owed \subseteq Ids(run[r].found)
                      /\ run[r].at \in {"ingest", "end"} /\ ingest[r].pc = "completed" =>
                            run[r].owed \subseteq FindingsOf(scanOf[r])
    BY DEF FindingsSurvive
  <2>1. run[r].at \in {"validator", "chain"} => run[r].owed \subseteq Ids(run[r].found)
    BY DEF PipeInv, Whole
  <2>2. run[r].at \in {"ingest", "end"} => run[r].owed \subseteq handed[r].findings
    BY DEF PipeInv, Paid
  <2>3. ingest[r].pc = "completed" => handed[r].findings \subseteq FindingsOf(scanOf[r])
    BY HandedIsShown DEF MirrorInv, Stage
  <2> QED BY <2>1, <2>2, <2>3
<1>2. GraphSpec => [](GraphInv /\ MirrorInv)
  BY GraphInitInv, GraphStep, MirrorInit, MirrorStep, PTL DEF GraphSpec
<1> QED BY <1>1, <1>2, DrivesGraph, PipeInvariant, PTL

\* Chains come with findings.
THEOREM ChainsHaveFindings == Spec => []ChainsNeedFindings
<1>1. PipeInv => ChainsNeedFindings
  BY DEF PipeInv, Whole, ChainsNeedFindings
<1> QED BY <1>1, PipeInvariant, PTL

\* A graph reported as ingested holds all that its run found, and nothing else
\* unless another run of the scan wrote as well.
THEOREM MirrorsRun == Spec => []GraphMirrorsRun
<1>1. GraphSpec => [](GraphInv /\ MirrorInv)
  BY GraphInitInv, GraphStep, MirrorInit, MirrorStep, PTL DEF GraphSpec
<1>2. GraphInv /\ MirrorInv => GraphMirrorsRun
  BY MirrorFollows
<1> QED BY <1>1, <1>2, DrivesGraph, PTL
=============================================================================
