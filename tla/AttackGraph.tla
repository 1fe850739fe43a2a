---------------------------- MODULE AttackGraph -----------------------------
(***************************************************************************)
(* The attack graph in Neo4j: how the graph node of the agent graph writes *)
(* it (backend/agents/graph_agent.py) and what the attack-graph endpoints  *)
(* read (backend/api/v1/attack_graph.py).                                  *)
(*                                                                         *)
(* Every run_write is a transaction of its own, so the writes of several   *)
(* runs interleave, and a run may stop between any two of them.  A run is  *)
(* one execution of a scan's task; a redelivered message makes two runs of *)
(* one scan.  MERGE adds a node or an edge unless it is there; nothing is  *)
(* ever deleted.  Target nodes, which no query reads, are left out, and so *)
(* are the properties of nodes, which MERGE overwrites.                    *)
(***************************************************************************)
EXTENDS Integers, Sequences

CONSTANTS
    Scans,
    Runs,
    Numbers,    \* distinguish the findings of a run
    StepNumbers \* the numbers the LLM gives to the steps of a chain

ASSUME StepNumbersAssumption == StepNumbers \subseteq Nat \ {0}

VARIABLES
    scanOf,     \* the scan each run executes, which never changes
    nodes,      \* the nodes, as <<label, id>>
    edges,      \* the edges, as <<relation, id, id>>
    handed,     \* what each run was handed by the chain node
    ingest      \* how far the run is with writing it

graphVars == <<scanOf, nodes, edges, handed, ingest>>

\* FindingData.id is a fresh UUID of the run that found it.
FindingIds == Runs \X Numbers

Owner(f) == scanOf[f[1]]

\* What the LLM may put in place of a finding's id: one that names nothing,
\* or none.
Unknown == <<"unknown">>
NoRef == <<"none">>

Refs == FindingIds \cup {Unknown}

\* An AttackChain: finding_ids and steps, in the order of the LLM's answer.
Chains == [uses : SUBSET Refs, steps : Seq([n : StepNumbers, on : Refs \cup {NoRef}])]

\* Mutant: chains are numbered across the scans.
ChainId_Global(s, i) == <<CHOOSE any \in Scans : TRUE, i>>

\* "{scan_id}:chain:{i}" and "{chain_node_id}:step:{step.step}".
ChainId(s, i) == <<s, i>>
StepId(c, n) == <<c, n>>

ChainIds == Scans \X Nat
StepIds == ChainIds \X StepNumbers

GraphNodes == ({"Scan"} \X Scans) \cup ({"Finding"} \X FindingIds)
              \cup ({"Chain"} \X ChainIds) \cup ({"Step"} \X StepIds)

NothingHanded == [findings |-> {}, chains |-> <<>>]

Stages == {"idle", "scan", "findings", "uses", "steps", "exploits", "next",
           "completed", "failed"}

\* findings, uses and steps: what is still to be written, steps by position;
\* chain: the chain at hand, counted from 1; prev: the number of the step
\* written before, 0 for None; cur: the position of the step at hand.
Ingests == [pc : Stages, findings : SUBSET FindingIds, chain : Nat, uses : SUBSET Refs,
            steps : SUBSET Nat, prev : Nat, cur : Nat]

NotBegun == [pc |-> "idle", findings |-> {}, chain |-> 0, uses |-> {}, steps |-> {},
             prev |-> 0, cur |-> 0]

GraphInit ==
    /\ scanOf \in [Runs -> Scans]
    /\ nodes = {}
    /\ edges = {}
    /\ handed = [r \in Runs |-> NothingHanded]
    /\ ingest = [r \in Runs |-> NotBegun]

GraphTypeOK ==
    /\ scanOf \in [Runs -> Scans]
    /\ nodes \subseteq GraphNodes
    /\ handed \in [Runs -> [findings : SUBSET FindingIds, chains : Seq(Chains)]]
    /\ ingest \in [Runs -> Ingests]

-----------------------------------------------------------------------------
(* The writes                                                              *)

Stage(r, pc) == ingest[r].pc = pc

ChainOf(r) == ChainId(scanOf[r], ingest[r].chain)
Handed(r) == handed[r].chains[ingest[r].chain]
StepAt(r, p) == Handed(r).steps[p]
CurId(r) == StepId(ChainOf(r), StepAt(r, ingest[r].cur).n)

Merge(label, id) == nodes' = nodes \cup {<<label, id>>}

\* MATCH both ends, MERGE the edge: nothing happens when an end is missing.
Joined(from, rel, to) ==
    IF {from, to} \subseteq nodes' THEN {<<rel, from[2], to[2]>>} ELSE {}

Link(from, rel, to) == edges' = edges \cup Joined(from, rel, to)

Continue(r, i) == ingest' = [ingest EXCEPT ![r] = i] /\ UNCHANGED <<scanOf, handed>>

\* The graph node begins.
StartIngest(r, findings, chains) ==
    /\ Stage(r, "idle")
    /\ handed' = [handed EXCEPT ![r] = [findings |-> findings, chains |-> chains]]
    /\ ingest' = [ingest EXCEPT ![r] = [NotBegun EXCEPT !.pc = "scan", !.findings = findings]]
    /\ UNCHANGED <<scanOf, nodes, edges>>

\* _ingest_scan
IngestScan(r) ==
    /\ Stage(r, "scan")
    /\ Merge("Scan", scanOf[r])
    /\ Continue(r, [ingest[r] EXCEPT !.pc = "findings"])
    /\ UNCHANGED edges

\* _ingest_findings: the node and its edge from the scan in one transaction.
IngestFinding(r) ==
    /\ Stage(r, "findings")
    /\ \E f \in ingest[r].findings :
          /\ Merge("Finding", f)
          /\ Link(<<"Scan", scanOf[r]>>, "HAS_FINDING", <<"Finding", f>>)
          /\ Continue(r, [ingest[r] EXCEPT !.findings = @ \ {f}])

ListWritten(r) ==
    /\ ingest[r].pc \in {"findings", "uses", "steps"}
    /\ ingest[r].findings = {} /\ ingest[r].uses = {} /\ ingest[r].steps = {}

\* _ingest_chains, the chain itself.
IngestChain(r) ==
    LET i == ingest[r].chain + 1 IN
    /\ ListWritten(r)
    /\ i <= Len(handed[r].chains)
    /\ Merge("Chain", ChainId(scanOf[r], i))
    /\ Link(<<"Scan", scanOf[r]>>, "HAS_CHAIN", <<"Chain", ChainId(scanOf[r], i)>>)
    /\ Continue(r, [ingest[r] EXCEPT !.pc = "uses", !.chain = i, !.prev = 0,
                                     !.uses = handed[r].chains[i].uses,
                                     !.steps = DOMAIN handed[r].chains[i].steps])

\* The link from the chain to one of its findings.
LinkFinding(r) ==
    /\ Stage(r, "uses")
    /\ UNCHANGED nodes
    /\ \E f \in ingest[r].uses :
          /\ Link(<<"Chain", ChainOf(r)>>, "USES_FINDING", <<"Finding", f>>)
          /\ Continue(r, [ingest[r] EXCEPT !.uses = @ \ {f}])

LinksWritten(r) == Stage(r, "uses") /\ ingest[r].uses = {}

\* Mutant: the steps are written in the order of the answer.
ComesFirst_AsAnswered(r, p) == \A q \in ingest[r].steps : p <= q

\* Is p the first of the steps still to be written, sorted by number?
ComesFirst(r, p) ==
    \A q \in ingest[r].steps :
        \/ StepAt(r, p).n < StepAt(r, q).n
        \/ StepAt(r, p).n = StepAt(r, q).n /\ p <= q

\* A step is written: on to the link from the step before it, if any.
ToNextStep(i, n) ==
    IF i.prev = 0 THEN [i EXCEPT !.pc = "steps", !.prev = n] ELSE [i EXCEPT !.pc = "next"]

\* The node of a step: steps of one number share it.
IngestStep(r) ==
    /\ LinksWritten(r) \/ Stage(r, "steps")
    /\ \E p \in ingest[r].steps :
          LET n == StepAt(r, p).n
              i == [ingest[r] EXCEPT !.steps = @ \ {p}, !.cur = p]
          IN  /\ ComesFirst(r, p)
              /\ Merge("Step", StepId(ChainOf(r), n))
              /\ Link(<<"Chain", ChainOf(r)>>, "HAS_STEP", <<"Step", StepId(ChainOf(r), n)>>)
              /\ Continue(r, IF StepAt(r, p).on = NoRef THEN ToNextStep(i, n)
                             ELSE [i EXCEPT !.pc = "exploits"])

\* The link from the step to the finding it exploits.
LinkExploit(r) ==
    LET step == StepAt(r, ingest[r].cur) IN
    /\ Stage(r, "exploits")
    /\ UNCHANGED nodes
    /\ Link(<<"Step", CurId(r)>>, "EXPLOITS", <<"Finding", step.on>>)
    /\ Continue(r, ToNextStep(ingest[r], step.n))

\* The link from the step before.
LinkNextStep(r) ==
    LET n == StepAt(r, ingest[r].cur).n IN
    /\ Stage(r, "next")
    /\ UNCHANGED nodes
    /\ Link(<<"Step", StepId(ChainOf(r), ingest[r].prev)>>, "NEXT_STEP", <<"Step", CurId(r)>>)
    /\ Continue(r, [ingest[r] EXCEPT !.pc = "steps", !.prev = n])

IngestCompletes(r) ==
    /\ ListWritten(r)
    /\ ingest[r].chain = Len(handed[r].chains)
    /\ Continue(r, [NotBegun EXCEPT !.pc = "completed"])
    /\ UNCHANGED <<nodes, edges>>

Begun(r) == ingest[r].pc \notin {"idle", "completed", "failed"}

\* Mutant: an error skips the rest of the list at hand and ends as a success.
IngestFails_Quietly(r) ==
    /\ Begun(r)
    /\ Continue(r, [NotBegun EXCEPT !.pc = "completed"])
    /\ UNCHANGED <<nodes, edges>>

\* A transaction fails: what is written stays, and the graph node returns.  (A
\* process that dies just takes no further step.)
IngestFails(r) ==
    /\ Begun(r)
    /\ Continue(r, [NotBegun EXCEPT !.pc = "failed"])
    /\ UNCHANGED <<nodes, edges>>

Ingest(r) == \/ IngestScan(r) \/ IngestFinding(r) \/ IngestChain(r) \/ LinkFinding(r)
             \/ IngestStep(r) \/ LinkExploit(r) \/ LinkNextStep(r)
             \/ IngestCompletes(r) \/ IngestFails(r)

\* What a run may hand over: findings of its own, and chains that name the
\* ids the LLM was shown, or none.
OwnFindings(r) == {r} \X Numbers

ChainsOver(ids) ==
    [uses : SUBSET (ids \cup {Unknown}),
     steps : Seq([n : StepNumbers, on : ids \cup {Unknown, NoRef}])]

GraphNext ==
    \E r \in Runs :
        \/ \E findings \in SUBSET OwnFindings(r) : \E chains \in Seq(ChainsOver(findings)) :
              StartIngest(r, findings, chains)
        \/ Ingest(r)

GraphSpec == GraphInit /\ [][GraphNext]_graphVars

-----------------------------------------------------------------------------
(* The endpoints                                                           *)

\* get_attack_graph: what one query finds from the scan on.
FindingsOf(s) == {e[3] : e \in {e \in edges : e[1] = "HAS_FINDING" /\ e[2] = s}}
ChainsOf(s) == {e[3] : e \in {e \in edges : e[1] = "HAS_CHAIN" /\ e[2] = s}}
StepsOf(c) == {e[3] : e \in {e \in edges : e[1] = "HAS_STEP" /\ e[2] = c}}
AllStepsOf(s) == UNION {StepsOf(c) : c \in ChainsOf(s)}

ViewNodes(s) == FindingsOf(s) \cup ChainsOf(s) \cup AllStepsOf(s)

ViewEdges(s) ==
    {<<e[2], e[3]>> : e \in {e \in edges :
        \/ e[1] \in {"NEXT_STEP", "EXPLOITS"} /\ e[2] \in AllStepsOf(s)
        \/ e[1] = "HAS_STEP" /\ e[2] \in ChainsOf(s)}}

View(s) == [node |-> ViewNodes(s), edge |-> ViewEdges(s)]

\* get_blast_radius: the findings used by the scan's chains.
BlastRadius(s) ==
    {e[3] : e \in {e \in edges : e[1] = "USES_FINDING" /\ e[2] \in ChainsOf(s)}}

-----------------------------------------------------------------------------
(* Properties                                                              *)

\* Whatever runs are writing, have stopped half-way or were executed again,
\* the graph an endpoint answers with has both ends of each of its edges (the
\* page hands it to Cytoscape, which refuses others), and the findings of the
\* blast radius, which the page asks for separately, are nodes of it.
ViewIsClosed ==
    \A s \in Scans : /\ View(s).edge \subseteq View(s).node \X View(s).node
                      /\ BlastRadius(s) \subseteq FindingsOf(s)

\* get_attack_paths lists the steps of a chain by number, the graph shows them
\* linked: following the links never goes back in the list.
NextStepAscends ==
    \A e \in edges : e[1] = "NEXT_STEP" => e[2][1] = e[3][1] /\ e[2][2] <= e[3][2]

Steps(c) == DOMAIN c.steps

Before(c, p, q) ==
    \/ c.steps[p].n < c.steps[q].n
    \/ c.steps[p].n = c.steps[q].n /\ p < q

Consecutive(c, p, q) ==
    Before(c, p, q) /\ ~\E m \in Steps(c) : Before(c, p, m) /\ Before(c, m, q)

\* The view of a scan that consists of what one run handed over.
Drawn(s, findings, chains) ==
    LET parts == UNION {{i} \X Steps(chains[i]) : i \in DOMAIN chains}
        step(x) == chains[x[1]].steps[x[2]]
        id(x) == StepId(ChainId(s, x[1]), step(x).n)
        follows(x, y) == x[1] = y[1] /\ Consecutive(chains[x[1]], x[2], y[2])
    IN  [node |-> findings \cup {ChainId(s, i) : i \in DOMAIN chains} \cup {id(x) : x \in parts},
         edge |-> {<<ChainId(s, x[1]), id(x)>> : x \in parts}
                  \cup {<<id(x), step(x).on>> : x \in {x \in parts : step(x).on \in findings}}
                  \cup {<<id(z[1]), id(z[2])>> :
                           z \in {z \in parts \X parts : follows(z[1], z[2])}}]

\* A graph reported as ingested holds all of what the run found, and nothing
\* else unless another run of the scan wrote as well.
GraphMirrorsRun ==
    \A r \in Runs : Stage(r, "completed") =>
        LET view == View(scanOf[r])
            drawn == Drawn(scanOf[r], handed[r].findings, handed[r].chains)
            others == {q \in Runs \ {r} : scanOf[q] = scanOf[r] /\ ~Stage(q, "idle")}
        IN  /\ drawn.node \subseteq view.node /\ drawn.edge \subseteq view.edge
            /\ others = {} => view = drawn
=============================================================================
