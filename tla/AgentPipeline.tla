--------------------------- MODULE AgentPipeline ----------------------------
(***************************************************************************)
(* The agent graph: one execution of a scan's task from recon to the       *)
(* attack graph (backend/agents/).                                         *)
(*                                                                         *)
(*   runtime.py  the nodes and edges, and the choice of the agent by       *)
(*       target type                                                       *)
(*   recon, planner, webapp, network, container, cloud, bloodhound, chain  *)
(*       the nodes; each works on the state of its own run, and is a step  *)
(*   validation_agent.py  only which findings may come out of it as what,  *)
(*       see ValidationAgent                                               *)
(*   graph_agent.py  one write at a time, see AttackGraph                  *)
(*                                                                         *)
(* A scanner reports findings or an error, or raises.  A node that raises  *)
(* ends the run; run_agent_task then marks the scan failed.  The events    *)
(* that nodes record and runtime publishes are left out: publishing logs   *)
(* an error of Redis and goes on, and no node reads them.                  *)
(***************************************************************************)
EXTENDS AttackGraph, FiniteSets

CONSTANTS
    TargetTypes,    \* the types of targets scanned
    Answers         \* the answers of the LLM to the chain prompt: lists of
                    \* chains about Offered, Unknown and NoRef

ASSUME NumbersAssumption == 1 .. 3 \subseteq Numbers
ASSUME AnswersAssumption == Answers \subseteq Seq(ChainsOver({<<"offered">>}))

VARIABLE run    \* per run, the node to come and the part of AgentState it needs

pipeVars == <<run, scanOf, nodes, edges, handed, ingest>>

\* One finding of a scanner: hot when its severity is critical or high, other
\* when its status is false_positive or a word the LLM made up.
Findings(r) == [id : OwnFindings(r), hot : BOOLEAN, status : {"open", "confirmed", "other"}]

Agents == {"webapp", "network", "container", "cloud", "bloodhound"}

\* Stands for one of the ids in the chain prompt.
Offered == <<"offered">>

\* reported: what the scanners handed to the agent; owed: those of them that
\* no answer of the LLM took the place of, none if the agent failed (history).
Runnings(r) ==
    [at : {"recon", "planner"} \cup Agents, type : TargetTypes] \cup
    [at : {"validator"}, type : TargetTypes, found : SUBSET Findings(r),
     reported : SUBSET OwnFindings(r), owed : SUBSET OwnFindings(r)] \cup
    [at : {"chain"}, found : SUBSET Findings(r), owed : SUBSET OwnFindings(r)] \cup
    [at : {"graph"}, found : SUBSET OwnFindings(r), chains : Seq(Chains),
     owed : SUBSET OwnFindings(r)] \cup
    [at : {"ingest", "end"}, owed : SUBSET OwnFindings(r)] \cup
    [at : {"raised"}]

TypeOK ==
    /\ GraphTypeOK
    /\ \A r \in Runs : run[r] \in Runnings(r)

Init ==
    /\ GraphInit
    /\ run \in [Runs -> [at : {"recon"}, type : TargetTypes]]
    /\ \A r, q \in Runs : scanOf[r] = scanOf[q] => run[r] = run[q]

-----------------------------------------------------------------------------
At(r, node) == run[r].at = node

Returns(r, next) ==
    /\ run' = [run EXCEPT ![r] = next]
    /\ UNCHANGED graphVars

Raises(r) == Returns(r, [at |-> "raised"])

Unscouted == {"container", "cloud", "ad"}

\* Recon and planner skip targets that are not reached by URL; a resolver or
\* a URL that cannot be parsed may raise.
Recon(r) ==
    /\ At(r, "recon")
    /\ \/ Returns(r, [run[r] EXCEPT !.at = "planner"])
       \/ run[r].type \notin Unscouted /\ Raises(r)

\* _route_by_target_type, and the node its answer stands for.
Route(type) ==
    CASE type \in {"web", "api"} -> "webapp"
      [] type \in {"network", "container", "cloud"} -> type
      [] type = "ad" -> "bloodhound"
      [] OTHER -> "end"

\* The plan may be the LLM's, none for lack of one, or empty.
Planner(r) ==
    /\ At(r, "planner")
    /\ Returns(r, IF Route(run[r].type) = "end" THEN [at |-> "end", owed |-> {}]
                  ELSE [run[r] EXCEPT !.at = Route(run[r].type)])

-----------------------------------------------------------------------------
(* The agents                                                              *)

Raw(r, k, hot) == [id |-> <<r, k>>, hot |-> hot, status |-> "open"]

\* What the LLM's answer to an enrichment prompt becomes: new findings.
Rewritten(r) == {{}} \cup {{Raw(r, 3, hot)} : hot \in BOOLEAN}

Ids(findings) == {f.id : f \in findings}

\* An agent returns findings to the validator: those reported, or others in
\* the place of all that are not owed.
Delivers(r, reported, owed, found) ==
    Returns(r, [at |-> "validator", type |-> run[r].type, found |-> found,
                reported |-> Ids(reported), owed |-> Ids(owed)])

\* An agent that failed returns none, and records no more than an event.
Fails(r, reported) == Delivers(r, reported, {}, {})

\* The findings one scanner reports: none if it errs.
Reports(r, k, hots) == {{}} \cup {{Raw(r, k, hot)} : hot \in hots}

\* ZAP and Nuclei; their exceptions and errors are logged.  The answer of the
\* LLM, if there is one that parses, takes the place of the findings; nobody
\* compares the two.
WebApp(r) ==
    /\ At(r, "webapp")
    /\ \E zap \in Reports(r, 1, BOOLEAN), nuclei \in Reports(r, 2, BOOLEAN) :
          LET raw == zap \cup nuclei IN
          \/ Delivers(r, raw, raw, raw)
          \/ /\ raw /= {}
             /\ \E found \in Rewritten(r) : Delivers(r, raw, {}, found)

\* Mutant: the mapped findings take the place of the secrets too.
Network_DropsSecrets(r) ==
    /\ At(r, "network")
    /\ \/ Raises(r)
       \/ \E nmap \in Reports(r, 1, {FALSE}), secrets \in Reports(r, 2, {TRUE}) :
             \/ Delivers(r, nmap \cup secrets, nmap \cup secrets, nmap \cup secrets)
             \/ /\ nmap /= {}
                /\ \E found \in Rewritten(r) :
                      Delivers(r, nmap \cup secrets, secrets, found)

\* Nmap, and Gitleaks when there is a repository; both may raise.  The LLM
\* maps what Nmap found and does not see the secrets.
Network(r) ==
    /\ At(r, "network")
    /\ \/ Raises(r)
       \/ \E nmap \in Reports(r, 1, {FALSE}), secrets \in Reports(r, 2, {TRUE}) :
             \/ Delivers(r, nmap \cup secrets, nmap \cup secrets, nmap \cup secrets)
             \/ /\ nmap /= {}
                /\ \E found \in Rewritten(r) :
                      Delivers(r, nmap \cup secrets, secrets, found \cup secrets)

\* Container and cloud: the LLM adds text to the findings and removes none.
\* After an error of the scanner the run goes on without findings.
OneScanner(r, agent) ==
    /\ At(r, agent)
    /\ \/ Raises(r)
       \/ Fails(r, {})
       \/ \E a \in Reports(r, 1, BOOLEAN), b \in Reports(r, 2, BOOLEAN) :
             Delivers(r, a \cup b, a \cup b, a \cup b)

Container(r) == OneScanner(r, "container")
Cloud(r) == OneScanner(r, "cloud")

\* The whole node is in one try: whatever raises, the paths found are dropped.
\* An unreachable server is not an error, but no paths.
BloodHound(r) ==
    /\ At(r, "bloodhound")
    /\ \E a \in Reports(r, 1, BOOLEAN), b \in Reports(r, 2, BOOLEAN) :
          \/ Delivers(r, a \cup b, a \cup b, a \cup b)
          \/ Fails(r, a \cup b)

-----------------------------------------------------------------------------
(* Validator, chain and graph                                              *)

\* What may become of the status of an open finding: see ValidationAgent.
Verdicts(r) ==
    IF run[r].type = "container" THEN {"confirmed"} ELSE {"open", "confirmed", "other"}

Validator(r) ==
    /\ At(r, "validator")
    /\ \/ \E verdict \in [run[r].found -> Verdicts(r)] :
             Returns(r, [at |-> "chain", owed |-> run[r].owed,
                         found |-> {[f EXCEPT !.status = verdict[f]] : f \in run[r].found}])
       \/ run[r].found /= {} /\ run[r].type /= "container" /\ Raises(r)

\* _select_findings
Eligible(findings) ==
    {f \in findings : f.status = "confirmed" \/ (f.status = "open" /\ f.hot)}

Naming(ref, id) == IF ref = Offered THEN id ELSE ref

\* An answer about one of the findings offered.
About(answer, id) ==
    [i \in DOMAIN answer |->
        [uses |-> {Naming(ref, id) : ref \in answer[i].uses},
         steps |-> [p \in DOMAIN answer[i].steps |->
                       [answer[i].steps[p] EXCEPT !.on = Naming(@, id)]]]]

ToGraph(r, chains) ==
    Returns(r, [at |-> "graph", found |-> Ids(run[r].found), chains |-> chains,
                owed |-> run[r].owed])

\* Mutant: the LLM is asked for chains whether or not a finding is eligible.
Chain_AlwaysAsks(r) ==
    /\ At(r, "chain")
    /\ \/ ToGraph(r, <<>>)
       \/ \E id \in Ids(Eligible(run[r].found)) \cup {Unknown}, answer \in Answers :
             ToGraph(r, About(answer, id))
       \/ Raises(r)

\* Without eligible findings nothing is asked; without an answer that parses
\* there are no chains.
Chain(r) ==
    /\ At(r, "chain")
    /\ \/ ToGraph(r, <<>>)
       \/ \E id \in Ids(Eligible(run[r].found)), answer \in Answers :
             ToGraph(r, About(answer, id))
       \/ Eligible(run[r].found) /= {} /\ Raises(r)

\* The graph node.
BeginGraph(r) ==
    /\ At(r, "graph")
    /\ StartIngest(r, run[r].found, run[r].chains)
    /\ run' = [run EXCEPT ![r] = [at |-> "ingest", owed |-> run[r].owed]]

WriteGraph(r) ==
    /\ At(r, "ingest")
    /\ Ingest(r)
    /\ UNCHANGED run

\* Ingested or not, the node returns the state, and the scan completes.
EndGraph(r) ==
    /\ At(r, "ingest")
    /\ ingest[r].pc \in {"completed", "failed"}
    /\ Returns(r, [at |-> "end", owed |-> run[r].owed])

-----------------------------------------------------------------------------
Agent(r) == \/ WebApp(r) \/ Network(r) \/ Container(r) \/ Cloud(r) \/ BloodHound(r)

Node(r) == \/ Recon(r) \/ Planner(r) \/ Agent(r) \/ Validator(r) \/ Chain(r)
           \/ BeginGraph(r) \/ WriteGraph(r) \/ EndGraph(r)

Next == \E r \in Runs : Node(r)

Spec == Init /\ [][Next]_pipeVars

-----------------------------------------------------------------------------
(* Properties                                                              *)

\* A finding that a scanner reported comes to the chain node, whatever the
\* validator makes of it, and when the graph was ingested it is on the page of
\* the scan, whatever other runs of it wrote meanwhile: also the secrets of a
\* target whose services the LLM rewrote.  What it was shown and answered on is
\* not covered, see AllFindingsKept, nor are the findings an agent dropped when
\* it failed.
FindingsSurvive ==
    \A r \in Runs :
        /\ run[r].at \in {"validator", "chain"} => run[r].owed \subseteq Ids(run[r].found)
        /\ run[r].at \in {"ingest", "end"} /\ ingest[r].pc = "completed"
            => run[r].owed \subseteq FindingsOf(scanOf[r])

\* "Keep all findings — do not drop any." (webapp_agent.py:36): the agent hands
\* on at least as many findings as the scanners reported.
AllFindingsKept ==
    \A r \in Runs : run[r].at = "validator" /\ run[r].type \in {"web", "api"} =>
        Cardinality(run[r].reported) <= Cardinality(Ids(run[r].found))

\* What ScanLifecycle takes for granted of the pipeline: chains come with
\* findings.  Dismissed findings alone make none.
ChainsNeedFindings ==
    \A r \in Runs : run[r].at = "graph" /\ run[r].chains /= <<>> => run[r].found /= {}
=============================================================================
