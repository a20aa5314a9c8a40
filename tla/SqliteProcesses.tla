-------------------------- MODULE SqliteProcesses --------------------------
(***************************************************************************)
(* Several operating-system processes, each with a ControlPlaneStore of    *)
(* its own on the same SQLite file: Api processes run api/control_plane.py *)
(* and Ingress processes run CallbackIngestionAdapter.ingest.              *)
(*                                                                         *)
(* A step is one SQL statement.  Python's sqlite3 opens a transaction      *)
(* before the first INSERT and nothing but commit() ends it: no code of    *)
(* the repository ever rolls back, so whatever a call leaves uncommitted,  *)
(* with the locks that go with it, is inherited by the process's next      *)
(* call.  A SELECT outside a transaction holds its lock for the statement  *)
(* only, one inside a transaction until the transaction ends.              *)
(*                                                                         *)
(* One tenant, provisioned, with an engagement and an approved blueprint.  *)
(* create_engagement and approve differ from create_pilot_job only in the  *)
(* table they insert into and are left out.                                *)
(***************************************************************************)
EXTENDS PilotStatus

CONSTANTS Api, Ingress,   \* the processes, by what they serve
          Jobs,           \* ids create_pilot_job draws
          EventIds,       \* ids of callback events
          Reports,        \* the event types workers report
          Hashes          \* content hashes clients store

ASSUME ReportsAssumption == Reports \subseteq EventType

ASSUME ProcessesAssumption == Api \cap Ingress = {}

VARIABLES file,    \* the committed database
          work,    \* work[p]: p's uncommitted database, while p holds RESERVED
          lock,    \* lock[p]: p's lock on the file
          txn,     \* txn[p]: p's connection is in a transaction
          call,    \* call[p]: the request p is serving and how far it is
          acked    \* what clients were told is stored (a history variable)

vars == <<file, work, lock, txn, call, acked>>

Process == Api \cup Ingress

Absent == "ABSENT"

Row == [id : EventIds, type : Reports]

Database == [status : [Jobs -> Status \cup {Absent}],
             events : [Jobs -> Seq(Row)],
             artifacts : SUBSET Hashes]

Request ==
    [op : {"store_artifact"}, hash : Hashes]
        \cup [op : {"create_pilot_job", "job_status"}, job : Jobs]
        \cup [op : {"callback"}, job : Jobs, row : Row]

\* The requests p serves.
Serves(p) == {r \in Request : (r.op = "callback") <=> (p \in Ingress)}

Idle == [at |-> "idle"]

Call == {Idle} \cup [at : {"provision", "select", "insert", "commit"},
                     req : Request]

LockType == {"NONE", "SHARED", "RESERVED", "PENDING"}

\* What a client can be told is stored.
Things == ({"store_artifact"} \X Hashes) \cup ({"callback"} \X EventIds)
              \cup ({"create_pilot_job"} \X Jobs)

\* What the request r stores.
Thing(r) ==
    CASE r.op = "store_artifact" -> <<r.op, r.hash>>
      [] r.op = "callback"       -> <<r.op, r.row.id>>
      [] OTHER                   -> <<r.op, r.job>>

TypeOK ==
    /\ file \in Database
    /\ work \in [Process -> Database]
    /\ lock \in [Process -> LockType]
    /\ txn \in [Process -> BOOLEAN]
    /\ call \in [Process -> Call]
    /\ acked \subseteq Things

Empty == [status |-> [j \in Jobs |-> Absent],
          events |-> [j \in Jobs |-> <<>>],
          artifacts |-> {}]

Init ==
    /\ file = Empty
    /\ work = [p \in Process |-> Empty]
    /\ lock = [p \in Process |-> "NONE"]
    /\ txn = [p \in Process |-> FALSE]
    /\ call = [p \in Process |-> Idle]
    /\ acked = {}

-----------------------------------------------------------------------------
(* The file locks of SQLite in rollback-journal mode                       *)

Writing(p) == lock[p] \in {"RESERVED", "PENDING"}

\* What a SELECT of p sees.
View(p) == IF Writing(p) THEN work[p] ELSE file

Others(p) == Process \ {p}

MayRead(p) == lock[p] # "NONE" \/ \A q \in Others(p) : lock[q] # "PENDING"

MayWrite(p) == \A q \in Others(p) : ~Writing(q)

MayCommit(p) == \A q \in Others(p) : lock[q] = "NONE"

\* SELECT: the lock outlives the statement only inside a transaction.
Select(p) ==
    /\ MayRead(p)
    /\ lock' = [lock EXCEPT ![p] = IF txn[p] /\ @ = "NONE" THEN "SHARED" ELSE @]
    /\ UNCHANGED <<txn, work, file>>

\* INSERT, in a transaction begun for it if there is none: it takes the write
\* lock whether or not a constraint then rejects it.
Insert(p, db) ==
    /\ MayWrite(p)
    /\ txn' = [txn EXCEPT ![p] = TRUE]
    /\ lock' = [lock EXCEPT ![p] = IF Writing(p) THEN @ ELSE "RESERVED"]
    /\ work' = [work EXCEPT ![p] = db]
    /\ UNCHANGED file

-----------------------------------------------------------------------------
(* Serving a request                                                       *)

At(p, stage) == call[p].at = stage

Req(p) == call[p].req

GoTo(p, stage) == call' = [call EXCEPT ![p] = [at |-> stage, req |-> Req(p)]]

\* The answer is sent; things are what it acknowledges as stored.
Answer(p, things) ==
    /\ call' = [call EXCEPT ![p] = Idle]
    /\ acked' = acked \cup things

\* A request arrives; the API first provisions the caller's organization.
Receive(p) ==
    /\ At(p, "idle")
    /\ \E r \in Serves(p) :
           call' = [call EXCEPT ![p] =
               [at |-> IF p \in Api THEN "provision" ELSE "select", req |-> r]]
    /\ UNCHANGED <<file, work, lock, txn, acked>>

\* create_organization for a tenant that has its row: the INSERT violates the
\* primary key, execute swallows the error, and the transaction stays open.
Provision(p) ==
    /\ At(p, "provision")
    /\ Insert(p, View(p))
    /\ GoTo(p, "select")
    /\ UNCHANGED acked

\* store_artifact: a hash that is already there is returned without a commit.
SelectArtifact(p) ==
    /\ At(p, "select")
    /\ Req(p).op = "store_artifact"
    /\ Select(p)
    /\ IF Req(p).hash \in View(p).artifacts
       THEN Answer(p, {Thing(Req(p))})
       ELSE GoTo(p, "insert") /\ UNCHANGED acked

\* create_pilot_job: the blueprint and its approval are found.
SelectApproval(p) ==
    /\ At(p, "select")
    /\ Req(p).op = "create_pilot_job"
    /\ View(p).status[Req(p).job] = Absent    \* a fresh uuid
    /\ Select(p)
    /\ GoTo(p, "insert")
    /\ UNCHANGED acked

\* job_status, and a create_pilot_job that is refused before its INSERT.
SelectOnly(p) ==
    /\ At(p, "select")
    /\ Req(p).op \in {"job_status", "create_pilot_job"}
    /\ Select(p)
    /\ Answer(p, {})

\* record_callback: SELECT the job and check the event against its status,
\* before and outside of the transaction of the INSERT.
SelectJob(p) ==
    /\ At(p, "select")
    /\ Req(p).op = "callback"
    /\ Select(p)
    /\ IF Req(p).row.type \in Allowed(View(p).status[Req(p).job])
       THEN GoTo(p, "insert") /\ UNCHANGED acked
       ELSE Answer(p, {})

InsertRow(p) ==
    /\ At(p, "insert")
    /\ \/ /\ Req(p).op = "store_artifact"
          /\ Insert(p, [View(p) EXCEPT !.artifacts = @ \cup {Req(p).hash}])
       \/ /\ Req(p).op = "create_pilot_job"
          /\ Insert(p, [View(p) EXCEPT !.status[Req(p).job] = "QUEUED"])
    /\ GoTo(p, "commit")
    /\ UNCHANGED acked

\* Mutant: event_id is not a key.
NeverRecorded(db, id) == FALSE

Recorded(db, id) ==
    \E j \in Jobs : \E i \in DOMAIN db.events[j] : db.events[j][i].id = id

\* Mutant: the UPDATE comes after the commit, or never.
InsertOnly(db, j, row) == [db EXCEPT !.events[j] = Append(@, row)]

\* INSERT the event and UPDATE the status of its job.
RecordEvent(db, j, row) ==
    [db EXCEPT !.events[j] = Append(@, row),
               !.status[j] = StatusAfter(@, row.type)]

InsertEvent(p) ==
    /\ At(p, "insert")
    /\ Req(p).op = "callback"
    /\ ~Recorded(View(p), Req(p).row.id)
    /\ Insert(p, RecordEvent(View(p), Req(p).job, Req(p).row))
    /\ GoTo(p, "commit")
    /\ UNCHANGED acked

\* Mutant: an event that is already there is acknowledged, as for artifacts.
DuplicateAccepted(p) ==
    /\ At(p, "insert")
    /\ Req(p).op = "callback"
    /\ Recorded(View(p), Req(p).row.id)
    /\ Insert(p, View(p))
    /\ Answer(p, {Thing(Req(p))})

\* IntegrityError, raised as "duplicate callback event".
DuplicateEvent(p) ==
    /\ At(p, "insert")
    /\ Req(p).op = "callback"
    /\ Recorded(View(p), Req(p).row.id)
    /\ Insert(p, View(p))
    /\ Answer(p, {})

Commit(p) ==
    /\ At(p, "commit")
    /\ MayCommit(p)
    /\ file' = work[p]
    /\ lock' = [lock EXCEPT ![p] = "NONE"]
    /\ txn' = [txn EXCEPT ![p] = FALSE]
    /\ work' = [work EXCEPT ![p] = Empty]
    /\ Answer(p, {Thing(Req(p))})

\* A commit that has to wait for readers keeps new ones out.
CommitWaits(p) ==
    /\ At(p, "commit")
    /\ ~MayCommit(p)
    /\ lock[p] = "RESERVED"
    /\ lock' = [lock EXCEPT ![p] = "PENDING"]
    /\ UNCHANGED <<file, work, txn, call, acked>>

\* Mutant: a commit waits for its lock without a timeout.
BlockedEarlier(p) ==
    \/ At(p, "provision") /\ ~MayWrite(p)
    \/ At(p, "select") /\ ~MayRead(p)
    \/ At(p, "insert") /\ ~MayWrite(p)

\* The statement cannot have its lock.
Blocked(p) ==
    \/ At(p, "provision") /\ ~MayWrite(p)
    \/ At(p, "select") /\ ~MayRead(p)
    \/ At(p, "insert") /\ ~MayWrite(p)
    \/ At(p, "commit") /\ ~MayCommit(p) /\ lock[p] = "PENDING"

\* The busy timeout (5 seconds, the default of sqlite3.connect) expires:
\* OperationalError "database is locked", answered 500.  The transaction that
\* was begun for an INSERT stays open, and so does one that failed to commit.
BusyTimeout(p) ==
    /\ Blocked(p)
    /\ txn' = [txn EXCEPT ![p] = @ \/ At(p, "provision") \/ At(p, "insert")]
    /\ Answer(p, {})
    /\ UNCHANGED <<file, work, lock>>

\* The process dies and is started again; SQLite rolls its journal back.
Crash(p) ==
    /\ lock' = [lock EXCEPT ![p] = "NONE"]
    /\ txn' = [txn EXCEPT ![p] = FALSE]
    /\ work' = [work EXCEPT ![p] = Empty]
    /\ call' = [call EXCEPT ![p] = Idle]
    /\ UNCHANGED <<file, acked>>

Serve(p) ==
    \/ Provision(p)
    \/ SelectArtifact(p)
    \/ SelectApproval(p)
    \/ SelectOnly(p)
    \/ SelectJob(p)
    \/ InsertRow(p)
    \/ InsertEvent(p)
    \/ DuplicateEvent(p)
    \/ Commit(p)
    \/ CommitWaits(p)
    \/ BusyTimeout(p)

Next == \E p \in Process : Receive(p) \/ Serve(p) \/ Crash(p)

Spec == Init /\ [][Next]_vars

\* A process that is serving a request goes on with it: statements return, and
\* the busy timeout bounds every wait for a lock.  Nothing is assumed of
\* clients, and no process is assumed to crash.
FairSpec == Spec /\ \A p \in Process : WF_vars(Serve(p))

-----------------------------------------------------------------------------
\* INSERT and UPDATE commit together or not at all: in the file, after any
\* crash and any failed commit, a job's status is what its events amount to.
StatusExplained ==
    \A j \in Jobs :
        \/ file.status[j] = StatusOf(file.events[j])
        \/ file.status[j] = Absent /\ file.events[j] = <<>>

\* The file, each connection's view of it, its locks and calls are of their
\* types, and the status column of the file agrees with its event rows.
Consistent == TypeOK /\ StatusExplained

\* However processes race to record the same redelivered callback, the file
\* holds an event id once.
RecordedOnce ==
    \A j, k \in Jobs :
        \A i \in DOMAIN file.events[j], m \in DOMAIN file.events[k] :
            file.events[j][i].id = file.events[k][m].id => <<j, i>> = <<k, m>>

\* A callback that was acknowledged, and a job whose id was returned, are in
\* the file and stay there through crashes of any process.  The same does not hold
\* of an artifact: SelectArtifact may acknowledge one that was never committed.
AckedDurable ==
    /\ \A id \in EventIds : <<"callback", id>> \in acked => Recorded(file, id)
    /\ \A j \in Jobs :
           <<"create_pilot_job", j>> \in acked => file.status[j] # Absent

\* Locks held across requests never leave a client without an answer: what
\* would be a deadlock between two processes ends in timeouts.
EveryRequestAnswered ==
    \A p \in Process : (call[p] # Idle) ~> (call[p] = Idle)

\* The committed event rows as the ledger's log.
Ledger == INSTANCE PilotLedger WITH Rows <- Row, log <- file.events

\* While one process alone ingests callbacks, the file implements the ledger,
\* whatever Api processes do, and however requests fail half way.
LedgerSpec == Ledger!Spec

\* The comment at control_plane.py:135-136: a callback must not be able "to
\* silently turn a paused job back into RUNNING".
PausedNotResumed ==
    [][\A j \in Jobs :
          file.status[j] = "PAUSED" => file'.status[j] \in {"PAUSED", "REVERTED"}]_vars
=============================================================================
