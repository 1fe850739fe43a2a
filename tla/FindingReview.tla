--------------------------- MODULE FindingReview ----------------------------
(***************************************************************************)
(* Analysts reviewing one stored finding (backend/api/v1/findings.py):     *)
(*                                                                         *)
(*   update_finding    PATCH: set a status by hand, recompute the score    *)
(*   validate_finding  POST: let the rules or the LLM set the status       *)
(*                                                                         *)
(* Each request has a SQLAlchemy session of its own.  It reads the row,    *)
(* computes, and writes at the end only the columns whose value it changed *)
(* with respect to what it read (there is no version column), under READ   *)
(* COMMITTED.  Reading the target autoflushes a PATCH, so that its UPDATE  *)
(* holds the row lock from there to the commit.                            *)
(*                                                                         *)
(*   update_target     PUT (backend/api/v1/targets.py): change the target  *)
(*                     that the scores and the rules depend on             *)
(*                                                                         *)
(* The texts of the finding (remediation, reasoning) are left out, except  *)
(* that a remediation makes a PATCH flush.                                 *)
(***************************************************************************)
EXTENDS SrsScoring

CONSTANTS
    Clients,     \* requests that may be in the server at a time
    NoClient,    \* nobody holds the row lock
    Risks,       \* risk scores the LLM and the pipeline come up with
    Facts,       \* findings, as what no request changes of them
    TargetTypes,
    Assets       \* criticalities a target may have, in percent

ASSUME ClientsAssumption == NoClient \notin Clients
ASSUME RisksAssumption == Risks \subseteq Int

\* The FindingData built for classify_finding, which has risk_score 0.
ASSUME FactsAssumption == Facts \subseteq ScannerFinding({0})

\* round(asset_criticality * 100) of any float a PUT may send.
ASSUME AssetsAssumption == Assets \subseteq Int

VARIABLES
    finding,    \* what no request changes of the finding
    target,     \* type and criticality of its target
    row,        \* the columns status, confirmed, srs_score
    lock,       \* the client whose transaction holds the row lock
    req,        \* the requests
    disturbed   \* requests that saw another one commit since they read (history)

vars == <<finding, target, row, lock, req, disturbed>>

Unscored == -1      \* srs_score is NULL

Verdicts == FindingStatuses \cup {"unknown"}    \* what the LLM may answer

Rows == [status : FindingStatuses, confirmed : BOOLEAN, srs : 0 .. 100 \cup {Unscored}]

\* The values a request intends to write.
Drafts == [status : Verdicts, confirmed : BOOLEAN, srs : 0 .. 100 \cup {Unscored}]

Quiet == [pc |-> "idle"]

Targets == [type : TargetTypes, asset : Assets]

\* on: the target, once it has been read.
Requests == {Quiet} \cup
            [pc : {"flush", "target"}, sets : BOOLEAN, snap : Rows, new : Drafts] \cup
            [pc : {"rescore", "judge", "store"}, sets : BOOLEAN, snap : Rows, new : Drafts,
             on : Targets]

TypeOK ==
    /\ finding \in Facts
    /\ target \in Targets
    /\ row \in Rows
    /\ lock \in Clients \cup {NoClient}
    /\ req \in [Clients -> Requests]
    /\ disturbed \subseteq Clients

Scores(risk, asset, status) == ComputeSrs(finding.severity, risk, asset, status)

\* A row as agent_worker (scored) or scan_worker (not scored) inserts it: the
\* criticality may have changed since.
InitialRows ==
    {r \in Rows : /\ r.status /= "fixed"
                  /\ r.confirmed = (r.status = "confirmed")
                  /\ \/ \E risk \in Risks, asset \in Assets : r.srs \in Scores(risk, asset, r.status)
                     \/ r.srs = Unscored /\ r.status = "open"}

Init ==
    /\ finding \in Facts
    /\ target \in Targets
    /\ row \in InitialRows
    /\ lock = NoClient
    /\ req = [c \in Clients |-> Quiet]
    /\ disturbed = {}

-----------------------------------------------------------------------------
At(c, pc) == req[c].pc = pc

Free(c) == lock \in {NoClient, c}

\* UPDATE findings SET the columns that differ from what was loaded.
Merge(new, snap) == [col \in DOMAIN row |-> IF new[col] = snap[col] THEN row[col] ELSE new[col]]

\* The SELECT of the target, and what c does next.
ReadTarget(c, pc) ==
    req' = [req EXCEPT ![c] = [pc |-> pc, sets |-> req[c].sets, snap |-> req[c].snap,
                               new |-> req[c].new, on |-> target]]

\* c's transaction is over: its lock is released.
Leave(c) ==
    /\ req' = [req EXCEPT ![c] = Quiet]
    /\ lock' = IF lock = c THEN NoClient ELSE lock

\* c commits draft `new`, and the others' snapshots are out of date.
CommitDraft(c, new) ==
    /\ row' = Merge(new, req[c].snap)
    /\ disturbed' = (disturbed \cup {d \in Clients : ~At(d, "idle")}) \ {c}
    /\ Leave(c)
    /\ UNCHANGED <<finding, target>>

\* Without a commit nothing is written.
RollBack(c) ==
    /\ Leave(c)
    /\ disturbed' = disturbed \ {c}
    /\ UNCHANGED <<finding, target, row>>

-----------------------------------------------------------------------------
(* PATCH /findings/{id}                                                    *)

\* Mutant: the status is assigned without the confirmed flag.
BeginPatch_ForgetsConfirmed(c) ==
    /\ At(c, "idle")
    /\ \E status \in FindingStatuses, sets \in BOOLEAN :
          req' = [req EXCEPT ![c] =
                    [pc |-> "flush", sets |-> sets, snap |-> row,
                     new |-> IF sets THEN [row EXCEPT !.status = status] ELSE row]]
    /\ UNCHANGED <<finding, target, row, lock, disturbed>>

\* _get_finding_or_404, then the body's status, if it has one, is assigned.
BeginPatch(c) ==
    /\ At(c, "idle")
    /\ \E status \in FindingStatuses, sets \in BOOLEAN :
          req' = [req EXCEPT ![c] =
                    [pc |-> "flush", sets |-> sets, snap |-> row,
                     new |-> IF sets
                             THEN [row EXCEPT !.status = status,
                                              !.confirmed = (status = "confirmed")]
                             ELSE row]]
    /\ UNCHANGED <<finding, target, row, lock, disturbed>>

\* The SELECT of the target autoflushes: a changed column is updated, the row
\* stays locked, and then the target is read.
FlushPatch(c) ==
    /\ At(c, "flush")
    /\ \/ Free(c) /\ lock' = c
       \/ req[c].new = req[c].snap /\ UNCHANGED lock
    /\ ReadTarget(c, "rescore")
    /\ UNCHANGED <<finding, target, row, disturbed>>

\* compute_srs with exploitability 0, commit.
CommitPatch(c) ==
    /\ At(c, "rescore")
    /\ \E srs \in Scores(0, req[c].on.asset, req[c].new.status) :
          LET new == [req[c].new EXCEPT !.srs = srs]
          IN  /\ Free(c) \/ new = req[c].snap
              /\ CommitDraft(c, new)

-----------------------------------------------------------------------------
(* POST /findings/{id}/validate                                            *)

\* Mutant: SELECT ... FOR UPDATE, so that nobody writes during the answer.
BeginValidate_Locks(c) ==
    /\ At(c, "idle")
    /\ lock = NoClient
    /\ lock' = c
    /\ req' = [req EXCEPT ![c] = [pc |-> "target", sets |-> TRUE, snap |-> row, new |-> row]]
    /\ UNCHANGED <<finding, target, row, disturbed>>

\* _get_finding_or_404
BeginValidate(c) ==
    /\ At(c, "idle")
    /\ req' = [req EXCEPT ![c] = [pc |-> "target", sets |-> TRUE, snap |-> row, new |-> row]]
    /\ UNCHANGED <<finding, target, row, lock, disturbed>>

\* The SELECT of the target: nothing is dirty yet.
FetchTarget(c) ==
    /\ At(c, "target")
    /\ ReadTarget(c, "judge")
    /\ UNCHANGED <<finding, target, row, lock, disturbed>>

\* The new values of the three columns.
Judged(c, status, risk) ==
    \E srs \in Scores(risk, req[c].on.asset, status) :
        req' = [req EXCEPT ![c].pc = "store",
                           ![c].new = [status |-> status, confirmed |-> status = "confirmed",
                                       srs |-> srs]]

\* classify_finding decides with risk_score 0, otherwise the LLM's answer.
Judge(c) ==
    /\ At(c, "judge")
    /\ IF ClassifiedNoise(finding, req[c].on.type)
       THEN Judged(c, "false_positive", 0)
       ELSE \E status \in Verdicts, risk \in Risks : Judged(c, status, risk)
    /\ UNCHANGED <<finding, target, row, lock, disturbed>>

\* The LLM fails, times out or answers no JSON: 503.
JudgeUnavailable(c) ==
    /\ At(c, "judge")
    /\ ~ClassifiedNoise(finding, req[c].on.type)
    /\ RollBack(c)

\* The columns are assigned and committed.
StoreVerdict(c) ==
    /\ At(c, "store")
    /\ Free(c) \/ req[c].new = req[c].snap
    /\ req[c].new.status \in FindingStatuses
    /\ CommitDraft(c, req[c].new)

\* finding_status_enum refuses any other status.
VerdictRefused(c) ==
    /\ At(c, "store")
    /\ req[c].new.status \notin FindingStatuses
    /\ RollBack(c)

-----------------------------------------------------------------------------
\* update_target: the columns the body names.  The scores of the findings
\* stay as they are.
UpdateTarget ==
    /\ target' \in Targets
    /\ UNCHANGED <<finding, row, lock, req, disturbed>>

\* get_db rolls the session back after any other error.
RequestFails(c) == ~At(c, "idle") /\ RollBack(c)

Begin(c) == BeginPatch(c) \/ BeginValidate(c)

Patch(c) == FlushPatch(c) \/ CommitPatch(c)

Validate(c) == FetchTarget(c) \/ Judge(c) \/ JudgeUnavailable(c) \/ StoreVerdict(c) \/ VerdictRefused(c)

Next == \/ \E c \in Clients : Begin(c) \/ Patch(c) \/ Validate(c) \/ RequestFails(c)
        \/ UpdateTarget

Spec == Init /\ [][Next]_vars

-----------------------------------------------------------------------------
(* Properties                                                              *)

\* The three columns agree: confirmed repeats the status, and the score is
\* one that compute_srs gives for this status, this criticality of the target
\* and some exploitability.
Coherent(r, asset) ==
    /\ r.confirmed = (r.status = "confirmed")
    /\ \E risk \in 0 .. 100 : r.srs \in Scores(risk, asset, r.status)

\* A request that sets a status and during which no other one committed
\* leaves the row coherent with the target as it read it, whatever earlier
\* requests made of the row and however often the target has changed since
\* the row was scored: the dirty columns together with those left alone are
\* the values it computed.
UndisturbedIsCoherent ==
    [][\A c \in Clients :
          /\ ~At(c, "idle") /\ req[c].sets
          /\ c \notin disturbed
          /\ row' /= row /\ req'[c] = Quiet
          => Coherent(row', req[c].on.asset)]_vars

\* The row lock is held by a PATCH between its flush and its commit only,
\* never by a validation, which waits for the LLM, and never by a request
\* that has ended: whoever waits for the lock waits for a few queries.
LockIsShort == lock = NoClient \/ At(lock, "rescore")
=============================================================================
