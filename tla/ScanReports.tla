---------------------------- MODULE ScanReports -----------------------------
(***************************************************************************)
(* Documents made from a stored scan, while the scan may still be running: *)
(*                                                                         *)
(*   report      backend/api/v1/reports.py       PDF                       *)
(*   compliance  backend/api/v1/compliance.py    PDF of one framework      *)
(*   sarif       backend/api/v1/sarif.py                                   *)
(*   message     backend/api/v1/integrations.py  to Slack or Jira          *)
(*                                                                         *)
(* Each is one request, which reads with one SELECT after the other.       *)
(* Under READ COMMITTED each SELECT sees the latest commits, so that the   *)
(* worker of ScanLifecycle, or a delete, may come in between.              *)
(***************************************************************************)
EXTENDS ScanLifecycle, Compliance, Sequences, Functions

CONSTANTS
    Readers,    \* requests for documents that are in the server at a time
    Items,      \* the findings of a run
    Controls    \* for each control of the framework, the findings it matches

ASSUME ControlsAssumption == Controls \subseteq SUBSET Items

VARIABLE doc    \* the requests, with what they have read

\* The queries of each document, in their order.
ReportQueries     == <<"scan", "target", "findings", "chains">>
ComplianceQueries == <<"scan", "target", "findings">>
SarifQueries      == <<"scan", "target", "findings">>
MessageQueries    == <<"scan", "target", "findings", "chains">>

Documents == {ReportQueries, ComplianceQueries, SarifQueries, MessageQueries}

ReviewStatus == {"open", "confirmed", "false_positive", "fixed"}

NoDocument == [next |-> 0]

\* `told` holds the terminal events published before the request.
NewDocument(s, queries) ==
    [next |-> 1, scan |-> s, queries |-> queries, told |-> {m \in announced : m.scan = s},
     status |-> "none", url |-> FALSE, runs |-> {}, chains |-> {}]

DocumentsInit == doc = [r \in Readers |-> NoDocument]

-----------------------------------------------------------------------------
Asking(r, query) ==
    /\ doc[r] /= NoDocument
    /\ doc[r].next <= Len(doc[r].queries)
    /\ doc[r].queries[doc[r].next] = query

Complete(r) == doc[r] /= NoDocument /\ doc[r].next > Len(doc[r].queries)

Ask(r, s, queries) ==
    /\ doc[r] = NoDocument
    /\ doc' = [doc EXCEPT ![r] = NewDocument(s, queries)]

\* The scan, joined with its target; 404 without them.
ReadScan(r) ==
    LET s == doc[r].scan IN
    /\ Asking(r, "scan")
    /\ doc' = [doc EXCEPT ![r] = IF Rowless(s) THEN NoDocument
                                 ELSE [doc[r] EXCEPT !.next = @ + 1, !.status = row[s]]]

\* The target once more; without it the document says "unknown".
ReadTarget(r) ==
    /\ Asking(r, "target")
    /\ doc' = [doc EXCEPT ![r].next = @ + 1, ![r].url = target /= "deleted"]

\* The findings of all executions, with the status each has been given by now.
ReadFindings(r) ==
    /\ Asking(r, "findings")
    /\ doc' = [doc EXCEPT ![r].next = @ + 1, ![r].runs = findings[doc[r].scan]]

ReadChains(r) ==
    /\ Asking(r, "chains")
    /\ doc' = [doc EXCEPT ![r].next = @ + 1, ![r].chains = chains[doc[r].scan]]

\* The response is sent; or rendering, Slack or Jira fails, or a query does.
Leave(r) == doc[r] /= NoDocument /\ doc' = [doc EXCEPT ![r] = NoDocument]

Read(r) == \/ ReadScan(r) \/ ReadTarget(r) \/ ReadFindings(r) \/ ReadChains(r)
           \/ Leave(r)
           \/ \E s \in Scans, queries \in Documents : Ask(r, s, queries)

ReportsNext == \/ Next /\ UNCHANGED doc
               \/ \E r \in Readers : Read(r) /\ UNCHANGED vars

ReportsSpec == Init /\ DocumentsInit /\ [][ReportsNext]_<<vars, doc>> /\ Fairness

-----------------------------------------------------------------------------
(* Properties                                                              *)

\* Whoever asks for a document after the end of a run was announced gets the
\* findings of that run, and its chains where the kind of document has any,
\* under a scan that says completed, although each query sees another state
\* of the database; unless the scan is deleted meanwhile.
ReportsAreWhole ==
    \A r \in Readers : Complete(r) /\ ~Rowless(doc[r].scan) =>
        \A m \in doc[r].told :
            /\ MaxDeliveries = 1 => doc[r].status = "completed"
            /\ doc[r].url
            /\ m.report /= "empty" => m.run \in doc[r].runs
            /\ m.report = "chains" /\ "chains" \in Range(doc[r].queries)
                  => m.run \in doc[r].chains

\* The statuses that reviewers may have given to the findings a document read.
Reviews(d) == [IF d.runs = {} THEN {} ELSE Items -> ReviewStatus]

\* A compliance report asked for after the end of a run was announced calls
\* the scan COMPLIANT only when the run found nothing, or each finding that
\* matches a control had been dismissed.
CompliantIsEarned ==
    \A r \in Readers :
        Complete(r) /\ doc[r].queries = ComplianceQueries /\ ~Rowless(doc[r].scan) =>
            \A review \in Reviews(doc[r]), m \in doc[r].told :
                Overall(Controls, review) = "COMPLIANT" /\ m.report /= "empty"
                    => \A f \in UNION Controls : review[f] = "false_positive"
=============================================================================
