# Verification of SentinelAI VAPT

TLA+ models of the vulnerability-assessment platform in this repository, with
TLC configurations that check them on small instances and TLAPS proofs that
hold for every value of the constants. Paths below are relative to the
repository.

## The system

A FastAPI server (`backend/main.py`, `backend/api/v1/`), Celery workers
(`backend/workers/`) and a Next.js frontend (`frontend/`) share a PostgreSQL
database, a Redis instance (Celery broker and pub/sub), Neo4j, and the
programs that do the scanning. Each process has its own database sessions, and
all coordination goes through rows, Celery messages and Redis events: there is
no lock in the code except those PostgreSQL takes for an UPDATE.

| Component | State | Operations | Module |
|---|---|---|---|
| Agent scan life cycle: `api/v1/agent_scans.py`, `workers/agent_worker.py`, `workers/siem_worker.py`, `delete_target` of `api/v1/targets.py` | rows `targets`, `scan_jobs`, `findings`, `attack_chains`; task messages | create a scan, run it (five commits or fewer), announce it, ship it to the SIEM, delete its target | `ScanStatus`, `ScanLifecycle` |
| Risk score and noise rules: `scoring/srs.py`, `scoring/classifier.py` | none | `compute_srs`, `classify_finding` | `SrsScoring`, `RiskScore` |
| Finding review: `api/v1/findings.py`, `core/db.py`, `update_target` of `api/v1/targets.py` | columns `status`, `confirmed`, `srs_score` of a finding; type and criticality of its target; row lock; session | PATCH, validate, list; edit the target | `FindingReview` |
| Continuous monitoring: `workers/beat_worker.py`, `api/v1/schedules.py` | rows `scheduled_scans`; Beat messages | tick; create, update, delete a schedule | `ScheduleTick` |
| Progress stream and page: `core/events.py`, `agents/runtime.py`, `agent_scan_ws`, `frontend/app/(dashboard)/agent-scans/page.tsx` | Redis channel, sockets, React state, polling loops | publish, forward, poll, load, switch | `ProgressStream` |
| Validator node: `agents/validation_agent.py` | statuses of a scan's findings while the graph runs | rules, chunked LLM validation | `ValidationAgent` |
| Agent graph and its other nodes: `agents/` | the state passed from node to node | recon, planner, scanners, chains | `AgentPipeline` |
| Attack graph: `agents/graph_agent.py`, `core/neo4j_client.py`, `api/v1/attack_graph.py` | nodes and edges in Neo4j | ingest; graph, blast radius | `AttackGraph` |
| Scanner jobs and targets: `workers/scan_worker.py`, `api/v1/scans.py`, `api/v1/targets.py` | rows `targets`, `scan_jobs`, `findings`; task messages; the connection pool of a process | register, edit, verify, delete a target; create a job, run one scanner | `ScannerJobs` |
| Scanners: `scanners/*_scanner.py` | none | run one program, read its report | `Scanners` |
| Accounts: `api/v1/users.py`, `api/v1/auth.py`, `core/oidc.py`, `core/security.py`, `core/deps.py` | rows `organizations`, `users`; tokens | register, sign in, first sign-in by OIDC, invite, change a role, remove | `Accounts` |
| Documents: `api/v1/reports.py`, `api/v1/compliance.py`, `core/compliance.py`, `api/v1/sarif.py`, `api/v1/integrations.py` | what a request has read so far | PDF report, compliance PDF, SARIF, messages to Slack and Jira | `ScanReports`, `Compliance` |
| LLM client: `core/llm.py` | none | completion with one retry | an answer or an error, in its callers |
| BloodHound client: `core/bloodhound_client.py` | cached session token | query | an answer or an error, in its caller |
| SIEM client: `core/siem_client.py` | none | one HTTP request | what `ShipToSiem` forwards |
| Service plumbing, other pages of the frontend, migrations | settings | | not modelled |

### How they interact

`create_agent_scan` commits a `pending` row and then sends `run_agent_task`.
A worker process runs the whole graph between two sessions: it commits
`running`, runs the nodes (which publish progress events as they go), and
commits `completed`, the findings and the chains one after the other; then it
publishes the terminal event and sends `ship_to_siem`, another task that reads
what the first one committed. An exception of the graph is caught and recorded
as `failed`, without an event. Beat sends a tick every 60 seconds; the tick
inserts scans and sends `run_agent_task` itself. The page starts a scan, opens
a socket that the server feeds from Redis, falls back to polling when the
socket closes, and loads the findings when it believes the scan is complete.
Analysts then change the status of the stored findings. The last node of the
graph writes findings and chains to Neo4j, where the graph page reads them; if
that fails the scan completes all the same. Reports, compliance reports, SARIF
and messages are put together from several SELECTs over the same rows.

`create_scan` is the older path beside it: a job of one scanner on a verified
target, run by `run_scan` in the same workers, with three commits in one session
and no handler for errors. Both paths write `scan_jobs` and keep `ScanStatus`.

### What is hard here

- Commits are small and there are several per operation: anything can happen
  between two of them, in another process or to this one.
- Celery acknowledges a message when it starts (`acks_early`), so a task that
  dies is not repeated, while the Redis visibility timeout can execute a
  prefetched message twice.
- Requests read a row, wait (for the LLM as long as minutes) and write the
  columns they changed, with no version check.
- Pub/sub keeps nothing, and node events and the terminal event share a field.
- Three numberings of the findings meet in the validator.
- The scanners are seven external programs, and each wrapper decides in its own
  way when a run has failed.
- Authorization reads the account of the caller, later steps act on it; nothing
  but a unique index on the e-mail orders concurrent registrations.
- Each node handles the errors of its scanners in its own way: some tell, some
  only log, some let the whole scan fail.
- The attack graph is written statement by statement, without a transaction
  around a scan, under ids that a repeated scan uses again.

### What makes each component correct

- *Life cycle*: an unfinished scan is on somebody's hands; what is announced or
  shipped is stored; the status moves as `ScanStatus` says; an accepted scan
  ends.
- *Score*: within 0..100, the nearest integer, 0 for false positives,
  monotonic in severity, confidence and both ratings.
- *Review*: the three columns a request leaves behind agree with each other and
  with the target it read; nobody holds the row lock while the LLM answers.
- *Monitoring*: a due time that was served is advanced; a due schedule is
  served; the next run is no further away than the interval; a scan left pending
  has an explanation. Each of these has exceptions in this code, and the
  properties name them: ticks that overlap, die, are overtaken or are dropped.
- *Stream*: the page never shows an end that did not happen, and learns the one
  that did; a load on an event is complete.
- *Validator*: the rules have the last word; a verdict reaches the finding it
  is about.
- *Agent graph*: a finding that no answer of the LLM replaced and no failing
  agent dropped comes to the page; chains have findings.
- *Scanner jobs*: an unfinished job has an explanation; what completed was run
  and its findings are kept; only a URL with a proof, or one edited over it, is
  scanned.
- *Accounts*: one account per address, no organisation without the account it
  began with; changes come from another admin; only a race removes the last
  one; removal is final.
- *Documents*: who asks after the announcement gets the whole run, and
  COMPLIANT only if it was earned.
- *Attack graph*: what is read is well-formed at any moment, and it is the
  whole of a scan once the scan says so.

## The modules

Actions carry the name of the function or of the step of it that they model,
and a comment saying which. `PROJECT.json` maps each definition to its lines.
Operators named `X_Something` with a comment "Mutant" are plausible bugs in
`X`; no specification uses them.

### ScanStatus, ScanLifecycle

`ScanStatus` is what a client may rely on: a scan is submitted, begins,
finishes, is announced once it is completed, and vanishes only with its target;
with `MayRerun` it may begin again. `ScanLifecycle` has one action per commit
of `create_agent_scan`, `_run`, `_ship` and `delete_target`:
`CheckTarget`, `InsertScan`, `Enqueue` for the request; `BeginRun`,
`PipelineReturns`/`PipelineRaises`, `MarkFailed` or `RecordStatus`,
`StoreFindings`, `StoreChains`, `RowsRefused`, `Announce`, `EndTask` for the
task; `ShipToSiem`; `DeleteTarget` (the flush, which fails while the ORM sees
scans) and `CommitDelete` (the database cascade, which removes the scans that
were inserted meanwhile). A request or an execution may die at every step
(`RequestDies`, `TaskDies`), and the broker may hand a message out again
(`Redeliver`). What the graph hands back is one of "empty", "findings",
"chains". The refinement mapping is the row's status, and the scans of the
announced messages as `told`.

### SrsScoring, RiskScore

`SrsScoring` is `compute_srs` in tenths, so that the weights are integers. The
code adds floats and rounds: away from a half the result is the nearest
integer, at a half either neighbour, since the representation errors of 0.3,
0.2 and 0.1 decide. The operator therefore yields a set of one or two scores,
and every property is about every choice. `ClassifiedNoise` is
`classify_finding` over the outcome of its tests on the text
(`missingHeader`, `noiseTitle`, `shortText`). `RiskScore` takes every call in
turn, so that TLC compares each with its neighbours.

### FindingReview

One finding and any number of requests. Each has a snapshot (what its session
loaded) and a draft; a commit merges the columns in which the two differ into
the row (`Merge`), which is what a SQLAlchemy UPDATE does. `FlushPatch` is the
autoflush caused by reading the target: from there a PATCH holds the row lock.
A validation takes no lock until it commits. The LLM answers any status, also
one outside the enum, which the database refuses, or fails. `target` is what
scores and rules depend on besides the finding; `UpdateTarget` (PUT) may change
it at any moment and recomputes no score, so a row may have been scored with
another criticality from the beginning (`InitialRows`), and a request keeps what
it read (`ReadTarget`, `FetchTarget`) until it computes. `disturbed` records
which requests saw another one commit, for the properties only.

### ScheduleTick

The clock, the rows, the messages of Beat and, per worker process, the tick it
executes with the copies it read. `InsertScan`, `Advance` and `SendScan` are
the three steps for one schedule, the first two being commits. `Advance` writes
`next_run_at` from the tick's clock and the interval of the copy, over whatever
the row says by then; on a schedule deleted meanwhile it raises (`scalar_one`)
and ends the tick. `TickDies` is the end of the process or a refusal of the
database or the broker, while there is work left. A worker that does not know the
task drops the tick (`DiscardTick`). `died` and `overtaken` are history, for the
properties: the schedules some tick died on, and those some tick advanced after
another one, or the API, had changed their due time. The counts `inserted` and
`sent` tell none, one and more apart.

### ProgressStream

The worker reduced to the order of its commits and events; the server's socket
(`Subscribe`, `Forward`, `SocketBreaks`); and one open page with `active`,
`shown`, `known`, its socket, the `onclose` callbacks not yet fired, the
polling loops and the loads under way. The effect of React on
`activeScan.status` is part of the actions that change it (`EffectLoads`). The
model includes pages with several scans: a loop, a mount or a load of an
earlier scan writes over the page whatever it shows by then, as in the code.

### ValidationAgent

`Prefilter` is the classifier and the list `to_validate_indices`. `AskChunk`,
`ApplyItem`, `NextChunk` and `SkipChunk` are one chunk. `convention` is how the
LLM numbers its items: as it was shown them, from 0 in each answer, or with any
integers. `AnswerRaises` is an answer that no handler of the code catches.

### AgentPipeline, AttackGraph

`AgentPipeline` is one execution of the graph: `Recon`, `Planner`, one of the
five agents by `Route`, `Validator`, `Chain`, `BeginGraph`, and the writes. A
node is one step, since it works on the state of its own run. The events it
records or publishes are not here: publishing logs an error of Redis and goes on
(`core/events.py:23`), and no node reads them. That they may be lost is part of
`ProgressStream`. Findings keep what later nodes read of them: their id, whether
their severity is critical or high, and open, confirmed or anything else. The
scanners report what they like, or an error. `reported` is what they handed to
the agent, and `owed` those of them that no answer of the LLM took the place of,
none when the agent failed (history). `AttackGraph`, which it extends, is the
graph node write by write: `IngestScan`, `IngestFinding`, `IngestChain`,
`LinkFinding`, `IngestStep`, `LinkExploit`, `LinkNextStep`, any of which may be
the last (`IngestFails`). The driver may repeat a transaction whose outcome it
does not know; as every statement is a MERGE, this changes nothing. `View` and
`BlastRadius` are the queries of `api/v1/attack_graph.py`. A redelivered
message appears as two runs with one scan, which write under the same ids.
`ensure_constraints` is not an action: its errors are swallowed, and in sets of
ids a node that two MERGEs created twice appears once. `GraphSpec` is the
writer driven by anybody, `Spec` of `AgentPipeline` the real driver.

### Scanners, ScannerJobs

`Scanners` says what each of the seven wrappers makes of how its program ended
(missing, out of time, an exit status) and of the report it left (absent,
broken, cut short, odd, clean, with issues): an error, no findings, findings, or
an exception. A report cut short is unreadable to all but Nuclei, which reads
its report line by line and keeps what parses. `Parsed` is what they share; they
differ in the exit statuses they accept, in the reports they refuse and in those
they take for a clean result. `ScannerJobs` puts the wrappers under `_run` of
`workers/scan_worker.py`: `BeginJob`, `RecordStatus` and `StoreFindings` are its
three commits, `ScannerReturns` the call between them, `TaskRaises` any
exception (there is no handler), `TaskDies` the end of the process. `used`
records which processes have left connections of an earlier `asyncio.run` in the
shared pool, which the next task may trip over. `CheckTarget`, `InsertScan` and
`Enqueue` are `create_scan`. The registry is around it: `EditTarget` changes the
URL and keeps `verified`, `LookUp` and `EndVerify` are the two halves of
`verify_target`, `DeleteTarget` and `CommitDelete` as in `ScanLifecycle`.
`proved`, `edited`, `basis` and `lost` are history, for the properties.

### Accounts

Requests as transactions on the rows of organisations and users. `Authorize` is
`get_current_user` with the role check on the row; after it come, per request,
what the handler reads and what it commits: `FindInvited`/`InsertInvited`,
`LoadForRole`/`CommitRole`, `LoadForRemove`/`CommitRemove`, and for newcomers
`StartRegister` or `OidcCallback` and `CreateAccount`, where the unique index
refuses the second of two (`Taken`) and rolls back the organisation with it.
`Login` and `IssueToken` give tokens, which carry a role that nothing reads
afterwards. A request may fail at each step (`RequestFails`).

### Compliance, ScanReports

`Compliance` is `evaluate_framework` with a control as the set of findings its
keyword test matches, and the overall status of the PDF. `ScanReports` extends
`ScanLifecycle` with readers: a document is a sequence of queries, each of which
sees the commits made by then (READ COMMITTED), so that the worker and a delete
come between them.

### MC and proof modules

`MCScanLifecycle`, `MCScanReports`, `MCRiskScore`, `MCFindingReview`,
`MCScheduleTick`, `MCScannerJobs`, `MCAccounts` and `MCAgentPipeline` give
values to the constants that a configuration cannot write.

## The runs

| Run | What it asks | Bounds | Distinct states |
|---|---|---|---|
| `scan_once` | Are findings stored under completed scans only? Does the worker implement `ScanStatus`? Does every accepted scan end unless something dies on it? Are documents whole, and COMPLIANT only if it was earned? | 2 scans, 2 processes, 1 delivery, deaths, a worker without the SIEM task, 1 reader that makes document after document, 2 findings, 3 controls | 674 thousand |
| `scan_redelivery` | What remains true when executions of one scan interleave? | 1 scan, 2 processes, 3 deliveries, deaths, SIEM task executed | 468 thousand |
| `risk_score` | Does `compute_srs` do what its docstring says? | ratings -5, 0, 1, 5, 33, 50, 75, 99, 100, 130; all severities and statuses | one per call |
| `review_race` | Does a review leave coherent columns when another one, or an edit of the target, comes between? Does the row lock last while the LLM answers? | 2 requests at a time, any number one after the other; one finding for the LLM, one for the rules; criticalities 50 and 100 | 4.2 million (up to symmetry) |
| `schedule_crash` | Which scans stay pending, is what was served advanced, is the next run near, and is what is due served, while ticks overlap and die? | 1 schedule, 2 processes that tick and 1 that drops ticks, deaths, 3 instants, intervals 1 and 2 | 171 thousand |
| `stream_watch` | Does the page end up knowing the truth? | 1 scan, 2 progress events, 1 choice, 2 loops, losses everywhere | 6 thousand |
| `validation` | Do the rules prevail, and do verdicts numbered from 0 arrive? | 4 findings in chunks of 2 | 618 thousand |
| `validation_as_asked` | (violated) Do verdicts numbered as shown arrive? | the same | |
| `agent_pipeline` | Which findings survive the agents? Is the graph always well-formed, and whole when it says so? | 2 runs of 1 or 2 scans, all target types, at most 2 findings of scanners and 2 chains, failures everywhere | 518 thousand (up to symmetry) |
| `keeps_all_findings` | (violated) Does the web agent keep as many findings as were reported? | 1 run of a web or API target | |
| `accounts` | What do racing registrations, invitations, role changes and removals guarantee? | 2 requests at a time, 3 accounts, 3 addresses | 125 thousand |
| `scanner_jobs` | Which jobs stay unfinished, what does completed mean, which URLs are scanned? Is `ScanStatus` kept here, too? | 1 job of one of 3 types (one of them unknown), 3 processes of which one lacks the task, 2 deliveries, 2 URLs, exit status 0 or not | 691 thousand |

Why the bounds are enough to be interesting. Two executions suffice for every
pair of commits to interleave, and the third delivery lets one begin after
another ended. Two scans share the target, so that an insert races with a
delete. Two requests suffice for a stale draft; each client may send any number
of requests, so that drafts meet every row that earlier races can leave. Two
criticalities tell whether a score was computed with the target as read; the
type of the target is fixed in that run, because it only selects the rules,
which the two findings do as well. Two processes that tick make ticks overlap on
a schedule, and a third one drops them; ticks work on each schedule by itself,
so one is enough. Three instants let a schedule become due, be served and become
due again, while its interval changes. Four findings in chunks of two give two
full chunks and, when a rule dismisses one, a partial one. Two runs suffice for
the writes of one to fall between any two of another; the chains include steps
out of order, two steps of one number, ids that name nothing and a second chain.
One job on three processes has two executions and a worker that drops the
message; with two URLs each can take the place of the other. Three accounts are
two admins and one more for a race on the last of them, or on one address. The
ratings surround both ends of the range and include sums that end in a half.
`CHECK_DEADLOCK FALSE` is set where the system does come to rest: a page with
nothing left to happen, a validator or a run that is done, the last call of a
table.

### Fairness

- `ScanLifecycle`: a request in the server goes on, a process that works goes
  on working (each scanner and LLM call has a timeout), and a free process
  takes messages. Clients need not ask, nor admins delete, nor the broker
  redeliver; dying is never obligatory and never excluded.
- `ScheduleTick`: Beat goes on sending, a process that has the task takes
  ticks, a tick goes on. Time need not pass and nobody need call the API. That
  there is such a process is an assumption about the deployment (`BeatWorkers`):
  no start command in the repository imports `workers.beat_worker`. Ticks that
  die again and again, or are dropped again and again by workers without the
  task, excuse a schedule that stays due.
- `ScannerJobs`: as in `ScanLifecycle`; each scanner has a timeout. That an
  exception or a death ends a job is not excluded: `lost` says so. Nobody need
  register, verify or edit a target.
- `ScanReports`: that of `ScanLifecycle`; readers owe nothing.
- `ProgressStream`: scans end, the server forwards, the browser fires timers
  and callbacks. Users need not do anything; losses may happen at any time.

All of it is weak fairness of steps that stay enabled until taken.

### Where code and documents disagree

Each violated run refutes a sentence of the repository, quoted in
`PROJECT.json`.

- `validation_as_asked`: the ids shown to the LLM already contain the offset of
  the chunk, which is added again when its answer is applied. From the second
  chunk on, verdicts reach a later finding or none.
- `keeps_all_findings`: "Keep all findings — do not drop any."
  (`agents/webapp_agent.py:36`) is asked of the LLM, and its answer takes the
  place of the findings however short it is.

Met while modelling, without a run.

- "False positives always score 0" (`scoring/srs.py:28`): a validation reads an
  open finding, a PATCH marks it a false positive and writes score 0, and the
  validation writes its score but not the status, which it did not change with
  respect to its snapshot (or the reverse order of the two).
- "auto-load findings on scan complete": a poll between the commit of the status
  and that of the findings loads an empty list; the loop ends and nothing loads
  again. A polling loop also takes the page back to the scan it was started for.
- "verified via domain ownership check" (`docs/architecture.md:49`): an edit of
  the URL keeps `verified`, and one between the lookup and the commit of
  `verify_target` gets it. `ScannedUrlWasProven` says what remains.
- "Celery Beat schedules recurring scans" (`README.md:18`): the worker is
  started on `workers.agent_worker` only (`README.md:93`,
  `infra/docker/docker-compose.prod.yml:81`,
  `infra/helm/sentinelai/templates/worker-deployment.yaml:29`), so it has neither
  the SIEM task nor the tick nor `run_scan`: no schedule is served, and jobs of
  `/scans` stay pending.
- "Multiple Beat instances would double-trigger; single Beat process assumed"
  (`IMP info/reports/phase-7-audit.md:180`): a single Beat suffices. Two of its
  ticks overlap when messages have piled up and the workers have several slots
  (`--concurrency=2`, two replicas in `infra/helm/sentinelai/values.yaml`), and
  both insert a scan for the same due time. `ServedIsAdvanced` says what remains.
- A tick that is overtaken sets `next_run_at` back, over what a later tick or a
  PATCH wrote (`workers/beat_worker.py:78`); `overtaken` is the exception of
  `ServedIsAdvanced` and `NextRunIsNear`.
- A PUT of a target changes its criticality and leaves the scores computed with
  the old one (`api/v1/targets.py:96`).
- gitleaks without output, nmap, trivy and prowler with a report that cannot be
  read, and nuclei with one of which no line can, count as a scan without
  findings; one that was cut short gives nuclei the findings of its readable
  lines, and no error (`Scanners`).
- A compliance PDF rates the findings there are, whatever the status of the scan:
  that of a failed or running scan says COMPLIANT. `fixed` findings give REVIEW,
  and false positives raise the risk level of the report
  (`api/v1/reports.py`).
- An account made by OIDC has an empty password hash, on which bcrypt raises: a
  sign-in by password ends in a 500, not a 401.
- The 30-second database fallback of `agent_scan_ws` is unreachable, because
  redis-py's `get_message` returns at once by default; the stream is cut after
  the first node that reports "completed".
- The 404 "Scan not found in graph" (`api/v1/attack_graph.py:96`) is never
  answered, since the query aggregates and always returns one row.
- A BloodHound server that cannot be reached, or no longer takes the cached
  session token, is reported as a domain without attack paths.

## What is proved

All proofs are for any number of scans, processes, deliveries, requests,
findings and ratings, under the named assumptions of the constants (sizes are
naturals, "nobody" is not somebody, ratings are integers).

- `ScanLifecycleProofs`. `TypeCorrect`, and `BookkeepingCorrect`, the inductive
  invariant: it ties each process's step to the commits that its execution has
  made and no other could undo (execution numbers are unique per scan and at
  most `started`), and each announced, waiting or shipped message to rows.
  Types and the safety properties alone are not inductive, since nothing in
  them says that an execution about to announce has stored. From it:
  `AnnouncedStored`, `ChainsFollowFindings`, `ShippedComplete`. A second
  invariant (`OnceInv`), for one delivery per message, says that queue, process
  and status of a scan determine each other, whence `StoredCompleted`.
  `UnfinishedWorkedOn` holds with redelivery too. `Implements` is the
  refinement: each action is a step of `ScanStatus` or leaves its variables
  alone. `ReportsWhole` and `CompliantEarned` are about `ScanReports`: a reader's
  steps are stutters of `Spec`, so what the life cycle guarantees holds between
  any two queries; the invariant `Found` says what a document has by its
  position in the order of queries that all kinds share, and stays true because
  rows only grow as long as the scan is there.
- `AccountsProofs`. `RequestsAreGrounded` is the inductive invariant: what a
  request carries from its authorization and its reads still agrees with the
  tables, or the row is gone. From it `AccountsStaySound`, `OnlyAdminsChange`,
  `LastAdminByRace` and `RemovalIsFinal`.
- `ScannerJobsProofs`. What the seven wrappers return has the shape `_run`
  expects (`WrapperResult`). The invariant (`Inv`) ties the target's flag to the
  URLs that were proved or edited, and for each job the request, the messages,
  the row and what every execution holds; `CompletedRan` and `UrlsProven`
  follow. `AllAccounted` adds who is at each job, with redelivery:
  `UnfinishedExplained`, and `ReportedStored`, whose strengthening says that the
  execution on its way to the findings holds the very outcome that was recorded
  last. `OnceInv` as for the life cycle gives `Implements`.
- `FindingReviewProofs`, first on the score. `ScoresStayInRange`,
  `ScoresAreNearest`, `WorseSeverityScoresHigher`, `ConfirmedScoresHigher`,
  `HigherRatingsScoreNoLower`, for all integer ratings, are about `CallSpec` of
  `RiskScore`. The steps: the clamp is the nearest number of 0..100 and
  monotonic, the tenths are monotonic in each argument, and rounding either way
  at a half keeps a strict order as soon as two sums are more than a point
  apart, as the severity and the confidence points make them. For the ratings, a
  sum that is larger by a tenth never rounds to less.
- `FindingReviewProofs`, then on the requests that write it. The invariant says
  that a request nobody disturbed still has the row as its snapshot (`Fresh`)
  and what each draft holds at each step (`Drafted`). It gives `TypeCorrect`
  (nothing outside the enum or the range is stored, whatever the LLM says) and
  `UndisturbedCoherent`, where the score is that of the target the request read,
  whatever edits of it came since. `LockShort` is inductive with the invariant.
- `ScheduleTickProofs`, for any number of overlapping ticks, deaths, drops and
  edits. The invariant `TickInv` says of the schedules a tick has read that
  their copies were due by its clock and the rows are, or were, there.
  `UnsentExplained` follows each due time from the insert to the send. For
  `NextRunNear` the strengthening (`NearInv`) is `ReadInTime`: on a schedule no
  tick was overtaken on, a copy whose due time is still the row's has the row's
  interval as well, so that what the tick writes is near. For `ServedAdvanced`
  it is `RunIsBehind`: scans were inserted for times before the schedule's due
  time, or for the due time by a tick about to advance it. `IntervalsAssumption`
  gives the intervals a longest one (`api/v1/schedules.py:22` allows at most a
  year), so that times are bounded.
- `ProgressStreamProofs`. `TypeCorrect`, with the page's socket always on a scan
  (that a list of scans has a latest one, which the page opens, rests on the
  order of finite subsets being well-founded). `EventLoadsWhole`: a
  terminal event in the queue of a socket belongs to a scan whose findings are
  stored, and rows stay (`EventsTrue`, `EventLoads`). `FinalStatusTrue` assumes
  that one scan is followed (`MaxScans = 1`), since with several the code writes
  an end of one over another; its invariant `ActiveTrue` is for any number of
  scans and says of a failure that it is the shown scan's and of a completion
  that it is some scan's, which is `FailedIsTrue` and, with one scan, all.
- `ValidationAgentProofs`. `TypeCorrect`; `RulesPrevail` from the invariant
  that the list leads to findings that no rule dismissed;
  `VerdictsFromZeroHeard` and `OneChunkHeard` from `HeardInv`: at every moment
  each finding the rules left open has the status last said of it (`AsSaid`), if
  the LLM counts from 0 or all fits in one chunk, which then is the one at
  offset 0 (`OneChunk`). The second says that what `validation_as_asked` refutes
  needs a second chunk.
- `AgentPipelineProofs`. `GraphIsSound` is the inductive invariant of
  `GraphSpec`: every edge is well-formed (it stays in one scan, and a link
  between steps in one chain, upwards), every node but the scan's has the edge
  that leads to it from its scan, and every run is where the writer's loops
  imply (the scan and the chain are there, the steps still to be written come
  after the one at hand). `ViewIsClosed` alone is not inductive: that a linked
  finding is in the view of the same scan follows from its owner and the edge
  that was written with it. `DrivesGraph` shows that the nodes hand over what
  the writer expects (`Spec => GraphSpec`), and with it `ViewsAreClosed` and
  `StepsAscend` hold of the real driver; `ChainsHaveFindings` and `TypeCorrect`
  come from an invariant of the nodes. `FindingsReachThePage` joins the two: the
  nodes hand on what is owed, and what was handed over to an ingestion that
  completed is on the page (`HandedIsShown`, from `MirrorInv`).
  `MirrorsRun` needs more than soundness: `MirrorInv` says what a run has
  written by where it is (`RunDone`: its findings but those still listed, the
  chains before the one at hand with all steps and links, the steps it is done
  with, of which `prev` is the last in the order of the list) and that every
  edge is one that a run which has begun means to draw (`AllDrawn`). The link
  from the step before is the right one because the steps done are exactly
  those before the step at hand. That nothing else is in the view follows from
  `AllDrawn`, as what a run draws carries its scan.
  `AnswersAssumption` says that an answer refers to ids as the prompt shows
  them, to none, or to something that is no finding; `NumbersAssumption` that
  the scanners' findings have numbers.

Each invariant and action property of a run is stated by a theorem. Only
model-checked are the four liveness properties, `AcceptedScansEnd`,
`DueSchedulesAreServed`, `PollsLearnTheEnd` and `AcceptedJobsEnd`: TLAPS does
not handle fairness and ENABLED.

## What is left out, and the plan

Left out on purpose: texts, wording and layout; HTTP authentication and
organisation checks, beyond the guard they are; drawing; the keyword tables of
the compliance frameworks; listings and other single queries; generated
migrations. The results of scanners, of the LLM and of the
database are any that the code lets through.

Order of the work: the life cycle first, since everything else reads what it
commits; then scoring and review (which writes the same rows), monitoring
(which starts scans), the stream (which watches them), the validator (which
decides statuses), and the agent graph with the attack graph it writes. These
came first. Accounts, the single-scanner jobs with the registry, and the
documents that read all this followed.

What could be added: the token cache of the BloodHound client, were its errors
ever told apart from an empty domain.
