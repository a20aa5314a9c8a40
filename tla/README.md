# DeployGrade: specifications, model checking and proofs

DeployGrade decides whether a deployment is ready for automated change, pilots
the change on a sandbox repository, and keeps evidence of every step. The
specifications here are translated from the Python code and the SQL migrations
in `src/`; file names below are relative to `src/deploygrade/engine/` unless
they start with `api/`, `worker/` or `supabase/`.

## 1. The system

| Component | State it keeps | Operations | Hard part |
|---|---|---|---|
| SQLite control plane (`control_plane.py`) | tables organizations, engagements, artifacts, approvals, pilot_jobs, pilot_events | create_organization, create_engagement, store_artifact, approve, create_pilot_job, record_callback | the status is checked outside of the transaction that changes it; a failed commit leaves its transaction open |
| HTTP API (`api/control_plane.py`) | one store per process, kept across requests | provisions the caller's organization, then one store call per request | the provisioning INSERT fails for every known tenant and leaves the write lock held |
| Callback ingestion (`callback_ingestion.py`) | routes pinned to tenant, job and blueprint | ingest: signature, lineage, freshness window, then record_callback | retries, reordering, lost receipts, stale timestamps |
| Callback endpoint (`api/pilot_callback.py`) | replay cache of 4096 ids in memory | POST | forgets ids; never reaches a store; cannot be imported at this commit |
| PostgreSQL control plane (`postgres_control_plane.py`, migration 0002) | the same tables, callback_authorizations, row-level security | the same calls, record_authorized_callback, issue/revoke of authorizations, readiness | row locks, savepoints, `now()` |
| Audit log (`audit_log.py`) and handoffs (`orchestrator.py`) | one JSON-lines file, each record naming the hash of the one before | verify, append_handoff, run_handoff | nothing locks the file; it is read twice before it is written |
| Worker (`worker_dispatch.py`, `worker_runtime.py`, `worker/service.py`) | none | create_dispatch, POST /v1/dispatch, run | artifacts made at different times, for different revisions, arrive together |
| Discovery (`discovery.py`, `repository_connector.py`) | the files of a repository | approved_fixture, resolve_approved_fixture, discover | hashed, listed and read at different times, by six threads |
| GitHub connector (`github_connector.py`) | none | snapshot, content_evidence | answers about other objects, limits on each answer |
| Pilot controller (`pilot.py`) | the workspace, a window of metrics, scripts marked unsafe | pre_tool_use, monitor | the compensating `git revert` may fail; monitor remembers nothing |
| Readiness (`score.py`, `rubrics.py`, `blueprint.py`, `scale.py`) | immutable rubrics | score_inventory, compile_blueprint, recommend | rounding, thresholds, the cheapest counterfactual |
| Flywheel (`flywheel.py`, `knowledge.py`, `network.py`, `replay.py`) | a file of outcome records, a publication manifest | quality_gate, refit, publication | what may be published, and what an added record changes |
| Identity (`identity.py`), configuration (`production_config.py`) | environment | token verification | cryptography, parsing |
| Contracts (`contracts.py`), risk, portfolio, demo, harness, dashboard | none | validation, rendering, command-line checks | none |

How they interact: a worker runs discovery on an approved repository; the
inventory it returns is scored, and the score is compiled into a rollout
blueprint; the blueprint is stored as an artifact by the API and approved by a
human; a Pilot job is created on that approval, and a dispatch to a worker on
an approval as well; the Pilot reports by signed callbacks, which the ingestion
adapter passes to the store, and its controller reverts what breaches a
threshold and leaves an outcome record, which may come to the corpus that
rubrics are refitted on. Every artifact that passes from one phase to the next
is a handoff in the audit log. The API and the ingestion are operating-system
processes that share one database and no memory; sessions share one log file.

What makes each part correct: nothing crosses tenants; no job runs without an
approval of exactly its blueprint; a breach stops a job for good; an event is
recorded once; what a client was told is stored stays stored; a receipt is
given for what is recorded; a revoked or expired authorization admits nothing;
the status column never disagrees with the events; a log that verifies is
complete and connected; evidence is about the revision that was approved; what
is reported as reverted is gone; a release is the one that was approved.

## 2. The modules

```
PilotStatus                 life cycle of a job
  PilotLedger               abstract: one log of accepted events per job
    ControlPlaneStore       SQLite store, one call = one step
    SqliteProcesses         SQLite store, one SQL statement = one step
    PostgresControlPlane    PostgreSQL store, one SQL statement = one step
    CallbackDelivery        workers, network, clock, adapter and its store
PilotCallback               the replay cache of the callback endpoint
AuditChain                  the audit log and the sessions that extend it
DiscoveryRules              what counts as evidence, in files and in blobs
  GitHubConnector           snapshots and content evidence
    WorkerRuntime           dispatch, request, local discovery, a tree that is edited
Readiness                   evidence, score, counterfactual, blueprint, decision
PilotController             metrics, reverts and git
  Flywheel                  quality gate, split, refit, over a corpus that grows
MC*                         constant definitions and symmetry sets for TLC
*_proofs                    theorems about the module of that name
Rubric_proofs               theorems about Readiness, PilotController and Flywheel
CallbackDelivery_proofs     theorems about PilotCallback as well
```

A module EXTENDS the ones it is indented under, but for `PilotLedger`, which the
stores and CallbackDelivery instantiate as their abstract specification.

**PilotStatus** is the event table: which events a status admits
(`Allowed`), which write the status column (`Moves`, `Target`). `StatusOf`
folds a job's event rows into the status they amount to; `WellOrdered` is the
shape of the log of a job that is fail-closed.

**PilotLedger** is what a control plane promises of its jobs: an event enters
one log, once, and only while the status the log amounts to admits it. It has no
status column, locks or transactions. All three stores are shown to implement it
with their (committed) event rows as the log, and so is the adapter in front of
its store.

**ControlPlaneStore** has one variable per table and one action per mutator.
A call the code refuses, with a ValueError or through a constraint, changes no
table and is a stuttering step. Ids that clients choose may collide; uuids that
the store draws are fresh. A content hash stands for the payload it is the hash
of. Columns that no guard reads are left out.

**SqliteProcesses** takes the calls apart. `Api` processes run
`api/control_plane.py`, `Ingress` processes the ingestion adapter; each has one
connection. The variable `lock` follows SQLite's rollback-journal locks (SHARED,
RESERVED, PENDING; EXCLUSIVE is held within one commit step only), `txn` is
Python's implicit transaction, which an INSERT opens and only `commit()` ends.
The code never rolls back, so an error leaves both behind. `BusyTimeout` is the
five second timeout of `sqlite3.connect`; `Crash` kills a process at any
statement. create_engagement and approve have the same statements as
create_pilot_job and are left out. In `Thing` the id that an answer
acknowledges is the one the code returns.

**PostgresControlPlane** has callbacks with and without an authorization,
issue, revoke, and `readiness()`, under READ COMMITTED: `pending` is what an open
transaction has written, `locks` the rows it holds `FOR UPDATE`, `begun` what
`now()` returns in it. On a connection that `readiness()` left in a transaction
(`open`), psycopg's `transaction()` is a savepoint: End and Fail keep the outer
transaction going.

**CallbackDelivery** follows a callback from the worker that signs it to the
receipt it gets. A worker signs its events in the order of its `Script`, and an
event again, with a new `occurred_at`, while it has no receipt. Whatever was
signed may arrive any number of times, in any order, or never: `signed[id]` are the
times the event was signed at, and stays what it is, since the network may repeat
any of these callbacks as long as it likes.
`secret[j]` is the route whose secret the worker of job j holds, which may be
another job's. `Ingest` is ingest with record_callback; what it refuses changes
nothing. A receipt may be lost. `Tick` also sets the clock back.

**PilotCallback** is `api/pilot_callback.py` as do_POST is written: a replay cache
in memory, and nothing else is recorded. An id is compared with its canonical form in
lower case and kept as it was received, so an id of the model is an event with the
spelling of its UUID. At this commit the file cannot be imported, so that nothing serves
it; the module says what do_POST would do.

**AuditChain** has the lines of the file and, per session, how far its handoff
is: `Verify` (run_handoff up to append_handoff), `ReadPrevious`,
`AppendHandoff`, and `TornWrite`, after which the file ends in the middle of a
line. An entry hash is modelled as the sequence of handoffs it commits to,
which is what injectivity of SHA-256 means. What a torn line is joined with
becomes unreadable, as in `_entries`. The order of the ten PHASES is not
modelled because no code checks it.

**DiscoveryRules** abstracts a text to the marks the checks look for. `Tests(c)`
is a check as the sequence of reads it makes, since each `read_text` in the
condition reads the file anew; `Valid` is the condition as it is written, of a
text that stands still; `Matches` is the connector's version of it. Whether a
path is a candidate is decided by its name alone, a constant.

**GitHubConnector** keeps the artifacts it has produced. An API answer names the
object it is about and may name any; the connector compares names, so an answer
that names an object is taken to carry it: nothing hashes the content against
the git sha. **WorkerRuntime** adds create_dispatch, the request with any
combination of artifacts, and local discovery file by file: `HashFile`,
`Resolve`, `List`, one `Read` per `read_text` of each thread, `Join`. `Write` and
`Delete` edit the tree at any time before the answer. A file that is gone when it
is read raises OSError, which do_POST does not catch: the client gets no answer.
`root` are the checks satisfied by the directory's own path, which cloud, iam
and ci look at.

**Readiness** is arithmetic: `Raw`, `Weighted`, `Round`, `Advice`, `Blueprint` and
`Recommend` are the functions of score.py, blueprint.py and scale.py, with weights
and confidences in percent and a score as an integer of ten times its size until it
is rounded. What changes is the repository: `Assess` scans and scores it, `CarryOut`
is its owner doing what the counterfactual says. Groups of advised
dimensions are compared by cost, size and names, as `_counterfactual` sorts them
(`Better`). The code's sums are floating-point,
so a score that is exactly between two integers goes either way: `Nearest` is a set.
Apart from that choice the definitions agree with the code on all 729 inventories
and the three rubrics.

**PilotController** is monitor, with git as far as reverts go: a file contains
what a commit made of it; reverting a commit whose file has changed since is a
conflict and leaves git in the middle of it. Metrics are abstracted to the
distance of the last one from the mean of the others. **Flywheel** adds the
corpus, to which anybody appends (the Pilot's outcome, once it was written, among
others), `QualityGate`, `_split` as `Holdout`, the two accuracies, and `Refit` in the
order of its refusals. A line is an outcome record, JSON that `validate_artifact` refuses
(the gate catches that: it is quarantined), a valid artifact of another schema (the gate
raises KeyError), or no JSON at all (`load` raises before the gate); nothing between
`load` and `hero` catches the latter two (`Loads`, `Raised`). Accuracies are compared as numbers of hits, since both have
the same denominator. A publication is whatever the manifest holds for the
version, sound or not.

## 3. What TLC checks

| Run | Result | Shows |
|---|---|---|
| `store` | holds | Consistent (types, and the status column is what the event rows amount to), TenantIsolation, ApprovedLineage, HashBoundOnce, and LedgerSpec: with calls that do not overlap, the store implements the ledger, so that jobs fail closed and only advance |
| `sqlite_race` | holds | with two ingress processes and one API process: INSERT and UPDATE commit together (Consistent), an event id is in the file once (RecordedOnce), acknowledged callbacks and jobs are durable (AckedDurable) |
| `sqlite_ledger` | holds | with a single ingress process the file implements the ledger whatever API processes do; every request is answered (EveryRequestAnswered) although locks are held across requests |
| `sqlite_resume` | violated | PausedNotResumed, see the findings |
| `pg_ledger` | holds | row locks make racing callbacks implement the ledger; a committed revocation is final (RevokedIsSilent); no authorization for an ended job (IssuedForLiveJob); with one connection left open by a probe |
| `pg_answers` | holds | without probes, AckedDurable; calls never wait for each other's rows and event ids in a circle (NoDeadlock), and every call ends (EveryCallEnds) |
| `pg_readiness` | violated | AckedDurable, see the findings |
| `delivery` | holds | a receipt is for a row of the job the route is pinned to (ReceiptMeansRecorded); what is recorded is in the worker's order however the network reorders it, but for events that move nothing (ReportedInOrder); a breach, rollback or pause reported to the right route stops the job in the end (BreachStops) |
| `audit_chain` | holds | VerifiedIsComplete, SerialLog, BrokenForever: races and torn writes can break a log but not hide in one that verifies |
| `worker` | holds | whatever a caller combines, a fact of a GitHub discovery cites a valid file of the dispatched revision (FactsHold); the limits hide nothing unless they bite (NothingMissed); a tree that nobody edits gives the inventory of its manifest (QuietIsPinned); each step of a discovery brings it nearer to its end and no edit sets it back (NearerTheEnd), so that it ends, however files change and vanish (EveryRequestEnds) |
| `readiness` | holds | NeverRefused, CheapestAdvice (below SCALE there is advice, it reaches the next band and nothing cheaper does), DeltasLeaveBand (the score and its advice are consistent), AdviceNeverHurts (no dimension and no confidence falls while it is carried out), UnprovenIsGated, PolicyHolds (blueprints), RollbackFirst (no BOUNDED autonomy and no GO without checked evidence of a rollback plan, whatever the other dimensions make up for), NeverAutonomous (discovery alone never leads to the last level) |
| `flywheel` | holds | what monitor reports as reverted is gone, after any conflicts, repetitions and aborts (RevertedIsGone); a new record moves the refit of its vertical only, weak and malformed ones move none, an untrusted one can only have refits refused, and what is no JSON or another artifact has all of them raise from then on (OnlyEvidenceMoves); there is one release, whatever the corpus becomes (ReleasedOnce) |

**Bounds.** `store`: two tenants, two engagement ids and two blueprints to
collide on and a third hash that is no blueprint, two approvals, two jobs, four
event ids. A job accepts at most three events that move it, and events that do not
move it are alike, so four ids let one job take its longest way and a second one
compete for an id. `sqlite_race`: a third process adds no new
pair of locks (one writer excludes the others, one reader excludes a commit);
`sqlite_ledger` has two API processes because it takes two that hold locks
across requests to block each other. One job and two events suffice there: the
race is between two callbacks of one job, and the other jobs share nothing but the
event ids. `pg_*`: two processes, one route and two event ids meet on each of the
two kinds of row lock. In `pg_ledger` the race is on one job, and with `Ttl = 1` and
`MaxTime = 1` an authorization expires under a call or before it. `pg_answers` has two
jobs, since calls only wait for an event id when two jobs' events carry it (with one,
the job's row is locked first), and no time: expiry is one more way to be refused.
`delivery`: one worker reports start, breach and compensation, the longest way of a
job, another one pauses before it started; each may hold either route's secret.
`MaxTime = 1` with `MaxAge = 0` and `MaxSkew = 0` is the least that lets a callback be
early (the clock was set back), in time and late, and be signed again beside one that
is still under way (with `MaxTime = 2` and `MaxAge = 1`, 850 thousand states, the
same properties hold).
`audit_chain`: handoffs begin while the log is shorter than `MaxLines = 4` lines, and
two sessions that began before can both still append; a fork, a
torn line, and an append behind either need three.
`worker`: the checks with three reads, with two reads of opposite sense, and with a
path that may be the directory's own; three paths, of which one is not in the
manifest; two revisions of one repository that may be dispatched, for two engagements,
so that artifacts that do not belong together meet; two more whose content is refused,
for a blob that is no text and for too many bytes; a limit of two files where there are
three. One edit (`MaxEdits`) between any two steps is what every property about
edits needs: QuietIsPinned is about none, and a request is lost or answered after one.
`flywheel`: two commits to one file are the least that conflict; three spikes, one
below both thresholds, one between, one above; a minimum of three accepted records
instead of twenty, with a corpus of four lines, so that the approved corpus, one line
more, and any one line replaced all occur; and lines of each shape, at any place.
`readiness` has no bound but the overrides of the budget (three at most, around a
default of 3): every category of evidence, dimension and rubric of the repository is in it.
Symmetry sets are used only in runs whose properties are about safety. Deadlock is
checked except where a run really ends: `worker` serves one request, `delivery` ends
with workers that have their receipts.

**Fairness.** SqliteProcesses assumes weak fairness of each process's serving
of the request it has: statements return, and the busy timeout bounds each wait,
so a blocked process has a step as well. PostgresControlPlane assumes strong
fairness: a server grants a row lock to those who wait for it in turn, so a
process that can proceed again and again does. Neither
assumes anything of clients, crashes or probes. WorkerRuntime assumes weak fairness of
the handler's own steps, and nothing of requests or edits. CallbackDelivery assumes
that a worker that has to stop its job keeps signing (weak fairness of `Sign`), and
that the network does not lose, and the clock does not spoil, every one of infinitely
many acceptable deliveries (strong fairness of `Ingest`), for the events that pause a
job only: progress of other events is not promised by anything. AuditChain and
Flywheel state no liveness: a session that was killed owes nothing, and a refit is
asked for by hand.

### Findings

* `sqlite_resume`. record_callback SELECTs the status before the INSERT opens
  the transaction. Ingress i1 checks PILOT_STARTED against QUEUED, i2 commits a
  THRESHOLD_BREACHED, i1 inserts and updates: the job goes from PAUSED to
  RUNNING. The comment in `control_plane.py:135-136` says that a callback must
  not be able to do this.
* `pg_readiness`. `SELECT 1` runs outside of `transaction()`, with autocommit off. From
  then on the process's calls are savepoints: they return normally, nobody else
  sees what they wrote, and a lost connection takes all of it back. The row locks of
  that process are never released either, so AckedDurable, NoDeadlock and EveryCallEnds
  are checked with `Probed = {}`.

### Observations

What the models show of the code beside the properties; no run is about these.

* SqliteProcesses: a store_artifact whose commit fails with "database is locked" leaves
  its row in the open transaction. The client's retry to the same process finds the row
  (`control_plane.py:98`) and is given the hash without a commit; a crash then loses it,
  in a "Durable, fail-closed" store (line 1). AckedDurable is about callbacks and jobs,
  which are acknowledged after their own commit.
* AuditChain: run_handoff compares its inputs with the last record it read;
  append_handoff reads the file again. A record appended in between becomes the
  predecessor although the inputs do not continue its outputs, and verify, which looks
  at hashes only, accepts the log.
* Readiness: the counterfactual projects each dimension to 100. A dimension scores 85
  at best, and evidence_governance, which is judged by no category of evidence, scores
  0. Under rubric 2026.07.0 there is no inventory whose advice, carried out to the
  letter, leads to the promised band. It follows that no inventory reaches SCALE, and
  that every score has a confidence of 20% or less, that of missing evidence.
* ControlPlaneStore: `create_pilot_job` looks an approval up and never uses it up, so an
  approval also admits a second job after the first has breached.
* CallbackDelivery: COMPENSATING_REVERTED may overtake the breach it answers, after
  which the breach is never recorded; the job is stopped all the same. A worker whose
  receipt was lost is told by an error, for a recorded event as for a refused one.
* PilotCallback: `_record_event_id` drops the oldest id when it remembers more than 4096,
  and the same process then accepts that event again, while `pilot_callback.py:3-4` says
  that it only accepts events it has not accepted, and line 184 that "a duplicate fails
  closed". `ReplaysAreBounded` says what does hold. The endpoint and the stores compare
  event ids as they are spelled: one UUID in lower and in upper case is two ids, although
  each is called canonical.
* PostgresControlPlane: expiry is compared with `now()`, the start of the transaction. An
  authorization that expires while its call waits for a row lock is still used; and in
  the transaction that `readiness()` has opened `now()` stands still, so that the process
  goes on using authorizations that expired before the call began, although the route
  function "returns only active data" (`postgres_control_plane.py:206-208`). Without
  probes the latter cannot happen (`ExpiredAreRefused` in `PostgresControlPlane_proofs`).
* WorkerRuntime: a file deleted, or edited, after the manifest was compared is still
  scanned, or loses the request, so the inventory need not be that of the pinned
  manifest although `worker_runtime.py:5-6` says that discovery is against it alone.
  `__pycache__` and `.pyc` files are outside of the manifest and inside of the scan. A
  fixture whose own path contains "cloud" or "iam" makes a candidate of every file. A
  dispatch names a repository and a revision, neither organization nor engagement of the
  snapshot. Local discovery accepts "undo" in a rollback script, the GitHub rule needs
  "revert"; `_rules` knows `jenkinsfile`, which has no text suffix and is never read.
* PilotController: a revert that raises leaves neither outcome record nor event. A
  second revert of the same commit fails cleanly; one that conflicts leaves git in the
  middle of it, and every later revert fails until somebody aborts it. A new controller
  does not know the scripts the previous one marked unsafe.
* Flywheel: the Pilot's own outcome has an evidence quality of 0.2, below the 0.5 that
  is accepted, so it never moves a refit; `_observed_class` would count a metric breach
  as safe. One untrusted record refuses the refits of all verticals. One line that is
  no JSON, a blank one included, or that is valid under another schema, has the refit of
  every vertical raise until somebody removes it, where a malformed record is only put
  aside. The hash of the
  corpus depends on the order of its lines, while the split does not.

## 4. What is proved

Theorems hold for every value of the constants. What they assume of these is either
declared by the modules, where TLC evaluates it in every run:

* blueprints are among the hashes (ControlPlaneStore); what workers report are event
  types, times are natural numbers (CallbackDelivery, PostgresControlPlane);
* no job has the name of a route: their rows are of two tables (PostgresControlPlane);
* paths are numbers in the order of sorted(), trees are finite and their entries have
  a path (DiscoveryRules, GitHubConnector, WorkerRuntime);
* what rubrics.load demands of a manifest (weights add up to 100), that ids are unique
  and can be compared, that a dimension is judged by at most two categories of evidence
  and one dimension by none, as it is in discovery.py (Readiness); a line has one of the
  four shapes, and what the quality gate asks of a record is yes, no or a number (Flywheel);

or it is a hypothesis of the theorem itself:

* `SingleIngress`, one process ingests callbacks: without it the finding
  `sqlite_resume` refutes the conclusion. Any number of API processes is allowed.
* `Probed = {}`, no process of the PostgreSQL control plane is probed: without it the
  finding `pg_readiness` does, and a connection that keeps its row locks from one call to
  the next takes them in any order. The other PostgreSQL theorems need no such hypothesis.
* `MaxReplayIds \in Nat`, the bound of the replay cache.
* `Orderly`, all that a worker reports would make a log of a fail-closed job, as what
  the Pilot controller reports does: only then is there an order to keep.
* `RollbackWeighs` and `UnjudgedWeighs`, conditions on the weights of a rubric, which the
  three rubrics of the repository meet (`MCReadiness` assumes them, so that TLC evaluates
  them): the best score without a rollback plan stays below 600, and the best score there
  is, with nothing said of the dimension no category judges, below 800. A rubric that
  gives either dimension next to no weight refutes RollbackFirst or NeverAutonomous.

The finite sets and chains that the code walks through are handled without recursion:
a counterexample that is least, in a set of subsets ordered by inclusion or a set of
numbers, exists by the well-foundedness theorems of the library, and refutes itself.
This replaces induction throughout.

* `PilotStatus_proofs`: lemmas about the table and about `StatusOf` and
  `WellOrdered` when a row is appended. `StatusOf` is defined by the last row
  that moves the job, not by recursion, so that these facts can be proved.
* `ControlPlaneStore_proofs`: `TypeCorrect`; `TablesConsistent` and `StatusIsExplained`;
  `TenantsIsolated`, `ConsentPrecedesJobs` and `HashesHaveOneCustodian`, whose common
  inductive invariant (`References`) adds that ids and hashes are keys and that references
  of a row lead to rows of the same tenant and engagement. Without it an approval could
  point to an artifact stored under the hash by somebody else. `ImplementsLedger`, where
  each action maps to Accept or a stutter and the status column is replaced by what the
  rows amount to; `LedgerPromises`: whatever implements the ledger records an event once
  and is fail-closed; `JobsFailClosed`, inherited through the refinement;
  `JobsOnlyAdvance`.
* `SqliteProcesses_proofs`: `FileConsistent`, `EventsRecordedOnce` and `AckedIsDurable`,
  for any number of processes, from an invariant that says that one process at most
  holds the write lock (`OneWriter`), and that what it could commit at any time, open
  transactions left behind by earlier requests included, is sound and keeps what is in
  the file. `ImplementsLedger` and `SingleIngressNeverResumes`, with a single ingress:
  nobody else writes events, so what the ingress read before its transaction still holds
  when it commits. `SingleIngressFailsClosed`: what `LedgerPromises` says of the
  abstract ledger holds of the file through the refinement.
* `PostgresControlPlane_proofs`: `DatabaseConsistent`, `ImplementsLedger`,
  `RevocationIsFinal`, `AuthorizationsAreForLiveJobs`, for any number of processes and
  probes; `ExpiredAreRefused` and `AckedIsDurable` without probes. The invariant says,
  for each statement, what a call has read under the row locks it holds and that it
  still holds (`AuthHeld`, `JobHeld`), what it has written, and that no two connections
  hold the same lock. A connection that was left open by a probe never commits, so of it
  only the types are needed. `CallbacksKeepOrder` inherits from the ledger that an id is
  committed once and that a breach is followed by its compensation only.
  `DatabaseOnlyAdvances` is the action property that one commit proves for all: no
  committed job goes back, no event row is removed or rewritten, and of an authorization
  nothing changes but that it is revoked.
  `NeverDeadlocked`, without probes: callbacks take an authorization, then a job, then an
  event id, and issue and revoke take one of them, so the invariant (`LocksInOrder`) says
  of each statement which rows its transaction can hold by then. A call waits only for one
  that is nearer to its end; of any set of processes, the one nearest waits for none.
* `CallbackDelivery_proofs`: `TypeCorrect`; `ImplementsLedger`; `ReceiptsAreHonest`,
  whose invariant joins the types, the status column being what the rows amount to, and
  the receipts; `RecordedInOrder`: two events of which one moves the job are in the order
  of the script because the log and the script are both well ordered, and neither order
  admits what the other has the other way round. Of PilotCallback, `ReplaysAreBounded`:
  between two acceptances of an id there are a restart or as many others as the cache
  remembers, since the cache is the tail of the history of acceptances since the last
  restart, no shorter than its bound allows (`CacheInv`).
* `AuditChain_proofs`: `TypeCorrect`; `BrokenStaysBroken`, since an append
  neither parses a line that did not nor mends a link; `NothingMissing`,
  from the invariant that an acknowledged record is a line of the file or the
  log does not verify; `SerialHandoffs`, whose
  invariant relates what a session that is not outdated has seen to the file as it is.
* `WorkerRuntime_proofs`: `FactsAlwaysHold`: every snapshot and evidence artifact in
  existence is genuine (its files are those of its revision's tree, its findings match),
  and only a request with the local connector reaches the scan. `NoFileIsMissed`: the
  evidence artifacts are thorough as well, their files being the first of the tree.
  `QuietTreeIsPinned`: each thread has judged the files that it is through with as the
  condition in discovery.py does, and of the file it is at it knows the reads behind it
  (`ThreadInv`); that the reads one after the other decide the condition is `TestsDecide`.
  `DiscoveryComesNearer`: `ScanInv` says that a thread has a test ahead whenever it has a
  file to judge, and that the last test of a file decides it (`LastTestDecides`).
* `Rubric_proofs`: first, what sums over finite sets are, from the CHOOSE by which the
  library defines them: they do not depend on the order, are bounded as their terms
  are, and grow with the set. Then:
  `ScoresAreValid`: a score is at most 850 since no dimension's is more than 85, and
  rounding, either way, keeps it in its interval. `AdviceIsCheapest`: all dimensions
  projected to 100 reach any threshold, so there are candidates; the order of
  candidates is total and transitive (of two sets of names that come behind the same
  names, the first difference decides), so there is a best one.
  `DeltasFallShortByRounding` is what remains of DeltasLeaveBand for every rubric: each
  delta, and the projection, is rounded by half a point at most, so that what is printed
  falls short of the next band by half a point for each action and one half more at most.
  `FollowingAdviceNeverHurts`: a mean grows with its terms, and the owner only adds checked
  evidence to what was advised, of all categories of a dimension at once (`FollowedInvariant`).
  `AutonomyIsOutOfReach`: weighted sums grow with their terms, and `UnjudgedWeighs` bounds
  the greatest. `GatesHold`: what has no
  checked evidence scores 15 at most. `PolicyIsKept`: the last of any number of overrides
  that tighten each other is the least. `RollbackComesFirst`: the best score without a
  rollback plan is the bound in `RollbackWeighs`. All of them follow from one invariant:
  a score is what score_inventory makes of some inventory; FollowingAdviceNeverHurts needs
  `Followed` as well.
  `ReleasesAreFinal`: every release has the publication's rows, and its numbers are
  functions of the rows. `EvidenceMovesItsOwn`: a line that is not an accepted one of a
  vertical leaves the positions of its accepted lines as they are, since these can be
  counted, and a corpus that fails to load fails with any line more. `RevertedStaysGone`: what a file contains is the least set that a chain of
  commits closes, so it can be reasoned about without following the chain.

Some definitions are written so that they can be proved about: `Under` in PilotController
is a least set and not a recursion, `NamesBefore` in Readiness and `Rows` in Flywheel say
what the elements of a sequence are without filtering or sorting one. The bands in
Readiness exclude each other, as the chain of ifs in `band_for` does: TLC takes the first
CASE that applies, but TLA+ leaves it open, and PolicyIsKept fails of guards that overlap.

What LedgerSpec implies (FailClosed, NeverResumed), the types of AuditChain and the
consistency of the PostgreSQL rows are proved and need no run of their own.

Only model-checked:

* DeltasLeaveBand. Each delta is rounded on its own, so that what is printed may fall
  short of the threshold for some weights and costs: the property holds for the three
  rubrics of the repository, and `readiness` goes through every inventory that discovery
  can produce under each of them; it does not hold for all weights.
  `DeltasFallShortByRounding` says by how little it can fail.
* Liveness (EveryRequestAnswered, EveryCallEnds, BreachStops, EveryRequestEnds), which is
  beyond TLAPS. Two of the arguments are proved as far as safety goes: `NeverDeadlocked`
  is why no call of EveryCallEnds is blocked for good, and `DiscoveryComesNearer` why the
  steps of EveryRequestEnds cannot go on forever.
* Of the properties above, what lies outside of their hypotheses: with two ingress
  processes or with probes, only the theorems without these hypotheses hold.

## 5. What is not modelled

* Identity and configuration: token verification is cryptography and parsing, and
  keeps no state. The same holds of signatures, JSON schemas, headers and message
  texts: guards on them have no effect on the state other than to refuse a call.
* Row-level security, and the PostgreSQL mutators of organizations, engagements,
  artifacts and approvals, whose guards are those of ControlPlaneStore.
* `pre_tool_use` of the Pilot controller, which compares paths with a set it keeps;
  `network.readout`, `replay` and the re-scoring of `hero`, which report what the modelled
  functions computed.
* What the helpers that are missing from `api/pilot_callback.py` were meant to do: it
  uses `re`, `lru_cache` and `urlsplit` without importing them, imports a
  StoreCallbackIngestionAdapter that does not exist, and do_POST calls none of it.
* score_readiness, which turns declared controls into an inventory; risk, portfolio,
  demo and agent policy: functions of one artifact with a few branches each.
* The order of PHASES, which nothing checks; dry_run, which calls run_handoff ten times.
* Harness scripts, hooks and dashboard: input and output only.

## 6. Plan

What is left, in this order:

1. Row-level security as a second guard on every statement of PostgresControlPlane,
   with the remaining mutators.
2. `pre_tool_use` beside monitor, with several controllers on one workspace.
3. A condition on weights and costs under which DeltasLeaveBand follows.
