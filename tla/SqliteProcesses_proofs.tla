----------------------- MODULE SqliteProcesses_proofs -----------------------
(***************************************************************************)
(* The SQLite store for any number of processes: what its file locks       *)
(* guarantee although no code of the repository rolls back, and what they  *)
(* do not guarantee unless one process alone ingests callbacks.            *)
(***************************************************************************)
EXTENDS SqliteProcesses, PilotStatus_proofs

-----------------------------------------------------------------------------
(* The invariant                                                           *)

\* The status column of a database agrees with its event rows.
Explained(db) ==
    \A j \in Jobs :
        /\ IsLog(db.events[j], Row)
        /\ \/ db.status[j] = StatusOf(db.events[j])
           \/ db.status[j] = Absent /\ db.events[j] = <<>>

\* What holds of the file, and of whatever a transaction could commit.
Sound(db) == Explained(db) /\ OnceIn(db.events, Jobs)

\* Nothing that is in old is missing from new.
Keeps(old, new) ==
    /\ \A id \in EventIds : Recorded(old, id) => Recorded(new, id)
    /\ \A j \in Jobs : old.status[j] # Absent => new.status[j] # Absent

\* The database holds what the request r stores, artifacts left aside.
Stores(db, r) ==
    /\ r.op = "callback" => Recorded(db, r.row.id)
    /\ r.op = "create_pilot_job" => db.status[r.job] # Absent

\* What a process knows of the transaction it is in: provisioning leaves every
\* API process with the write lock until its request is answered or stuck.
CallInv(p) ==
    /\ ~At(p, "idle") => Req(p) \in Serves(p)
    /\ At(p, "provision") => p \in Api
    /\ p \in Api /\ (At(p, "select") \/ At(p, "insert")) => Writing(p)
    /\ At(p, "commit") => Writing(p) /\ Stores(work[p], Req(p))
    /\ At(p, "insert") \/ At(p, "commit") => Req(p).op # "job_status"
    /\ At(p, "insert") /\ Req(p).op = "callback"
           => View(p).status[Req(p).job] # Absent
    /\ At(p, "insert") /\ Req(p).op = "create_pilot_job"
           => View(p).status[Req(p).job] = Absent
    /\ Writing(p) => Sound(work[p]) /\ Keeps(file, work[p])

\* One process at most holds the write lock: the file does not change while a
\* transaction that will replace it is open.
OneWriter == \A p, q \in Process : Writing(p) /\ Writing(q) => p = q

IInv ==
    /\ TypeOK
    /\ OneWriter
    /\ Sound(file)
    /\ \A p \in Process : CallInv(p)
    /\ AckedDurable

-----------------------------------------------------------------------------
(* Types                                                                   *)

LEMMA RequestTypes ==
    ASSUME NEW r \in Request
    PROVE  /\ r.op \in {"store_artifact", "create_pilot_job", "job_status", "callback"}
           /\ r.op = "store_artifact" => r.hash \in Hashes
           /\ r.op \in {"create_pilot_job", "job_status"} => r.job \in Jobs
           /\ r.op = "callback" => /\ r.job \in Jobs
                                   /\ r.row \in Row
                                   /\ r.row.id \in EventIds
                                   /\ r.row.type \in EventType
BY ReportsAssumption DEF Request, Row

LEMMA RowsTyped == \A r \in Row : r.type \in EventType
BY ReportsAssumption DEF Row

LEMMA ThingTypes ==
    ASSUME NEW r \in Request, r.op # "job_status"
    PROVE  /\ Thing(r) \in Things
           /\ r.op = "store_artifact" => Thing(r) = <<"store_artifact", r.hash>>
           /\ r.op = "callback" => Thing(r) = <<"callback", r.row.id>>
           /\ r.op = "create_pilot_job" => Thing(r) = <<"create_pilot_job", r.job>>
BY RequestTypes DEF Thing, Things

LEMMA BusyTypes ==
    ASSUME TypeOK, NEW p \in Process, ~At(p, "idle")
    PROVE  Req(p) \in Request
BY DEF TypeOK, Call, Idle, At, Req

\* Going on with a request changes nothing but where its process is.
LEMMA GoToFacts ==
    ASSUME TypeOK, NEW p \in Process, ~At(p, "idle"),
           NEW stage \in {"provision", "select", "insert", "commit"},
           GoTo(p, stage)
    PROVE  /\ call' \in [Process -> Call]
           /\ call'[p].at = stage
           /\ call'[p].req = call[p].req
           /\ \A q \in Process \ {p} : call'[q] = call[q]
BY BusyTypes DEF TypeOK, GoTo, Call, Req

LEMMA AnswerFacts ==
    ASSUME TypeOK, NEW p \in Process, NEW things, Answer(p, things)
    PROVE  /\ call' \in [Process -> Call]
           /\ call'[p] = Idle
           /\ acked' = acked \cup things
           /\ \A q \in Process \ {p} : call'[q] = call[q]
BY DEF TypeOK, Answer, Call

LEMMA EmptyType == Empty \in Database
BY DEF Empty, Database

LEMMA ViewType ==
    ASSUME TypeOK, NEW p \in Process
    PROVE  View(p) \in Database
BY DEF TypeOK, View

\* A SELECT changes nothing but a lock that is not a write lock.
LEMMA SelectFacts ==
    ASSUME TypeOK, NEW p \in Process, Select(p)
    PROVE  /\ lock' \in [Process -> LockType]
           /\ UNCHANGED <<file, work, txn>>
           /\ Writing(p)' <=> Writing(p)
           /\ \A q \in Process \ {p} : lock'[q] = lock[q]
           /\ lock[p] # "NONE" \/ ~txn[p] => lock'[p] = lock[p]
BY DEF TypeOK, Select, LockType, Writing

\* An INSERT takes the write lock, and only one process can have it.
LEMMA InsertFacts ==
    ASSUME TypeOK, NEW p \in Process, NEW db \in Database, Insert(p, db)
    PROVE  /\ lock' \in [Process -> LockType]
           /\ work' \in [Process -> Database]
           /\ txn' \in [Process -> BOOLEAN]
           /\ UNCHANGED file
           /\ Writing(p)'
           /\ work'[p] = db
           /\ MayWrite(p)
           /\ \A q \in Process \ {p} : lock'[q] = lock[q] /\ work'[q] = work[q]
BY DEF TypeOK, Insert, LockType, Writing

-----------------------------------------------------------------------------
(* Databases                                                               *)

LEMMA KeepsTransitive ==
    ASSUME NEW a, NEW b, NEW c, Keeps(a, b), Keeps(b, c)
    PROVE  Keeps(a, c)
BY DEF Keeps

LEMMA KeepsReflexive == \A db : Keeps(db, db)
BY DEF Keeps

\* An event recorded for a job that exists.
LEMMA RecordEventFacts ==
    ASSUME NEW db \in Database, Sound(db), NEW j \in Jobs, NEW row \in Row,
           db.status[j] # Absent, ~Recorded(db, row.id)
    PROVE  LET new == RecordEvent(db, j, row)
           IN  /\ new \in Database
               /\ Sound(new)
               /\ Keeps(db, new)
               /\ Recorded(new, row.id)
<1> DEFINE new == RecordEvent(db, j, row)
<1>1. /\ db.status \in [Jobs -> Status \cup {Absent}]
      /\ db.events \in [Jobs -> Seq(Row)]
      /\ db.artifacts \in SUBSET Hashes
      /\ row.type \in EventType
  BY RowsTyped DEF Database
<1>2. /\ new.events = [db.events EXCEPT ![j] = Append(@, row)]
      /\ new.status = [db.status EXCEPT ![j] = StatusAfter(@, row.type)]
      /\ new = [db EXCEPT !.events = [db.events EXCEPT ![j] = Append(@, row)],
                          !.status = [db.status EXCEPT ![j] =
                                          StatusAfter(@, row.type)]]
  BY <1>1 DEF RecordEvent, Database
<1>3. /\ new.events[j] = Append(db.events[j], row)
      /\ new.status[j] = StatusAfter(db.status[j], row.type)
      /\ \A k \in Jobs \ {j} : /\ new.events[k] = db.events[k]
                               /\ new.status[k] = db.status[k]
  BY <1>1, <1>2
<1>4. /\ db.status[j] \in Status
      /\ IsLog(db.events[j], Row)
      /\ db.status[j] = StatusOf(db.events[j])
  BY <1>1 DEF Sound, Explained
<1>5. /\ new.status[j] \in Status
      /\ new.status[j] # Absent
  BY <1>3, <1>4 DEF StatusAfter, Target, Status, Absent
<1>6. /\ Append(db.events[j], row) \in Seq(Row)
      /\ \A i \in DOMAIN db.events[j] :
             /\ i \in DOMAIN new.events[j]
             /\ new.events[j][i] = db.events[j][i]
      /\ Len(db.events[j]) + 1 \in DOMAIN new.events[j]
      /\ new.events[j][Len(db.events[j]) + 1] = row
  BY <1>1, <1>3, AppendFacts
<1> HIDE DEF new
<1>7. new \in Database
  <2>1. new.events \in [Jobs -> Seq(Row)]
    BY <1>1, <1>2, <1>6
  <2>2. new.status \in [Jobs -> Status \cup {Absent}]
    BY <1>1, <1>2, <1>3, <1>5
  <2>3. new = [db EXCEPT !.events = new.events, !.status = new.status]
    BY <1>2
  <2>4. QED
    BY <2>1, <2>2, <2>3 DEF Database
<1>8. Explained(new)
  <2>1. IsLog(new.events[j], Row) /\ new.status[j] = StatusOf(new.events[j])
    BY <1>3, <1>4, StatusOfAppend
  <2>2. QED
    BY <1>3, <2>1 DEF Sound, Explained
<1>9. OnceIn(new.events, Jobs)
  <2>1. \A k \in Jobs : \A i \in DOMAIN db.events[k] : db.events[k][i].id # row.id
    BY DEF Recorded
  <2>2. IsAppended(new.events, db.events, Jobs, j, row)
    BY <1>3 DEF IsAppended
  <2>3. QED
    BY <1>1, <2>1, <2>2, OnceAppend DEF Sound
<1>10. Keeps(db, new) /\ Recorded(new, row.id)
  <2>1. ASSUME NEW id \in EventIds, Recorded(db, id) PROVE Recorded(new, id)
    <3>1. PICK k \in Jobs : \E i \in DOMAIN db.events[k] : db.events[k][i].id = id
      BY <2>1 DEF Recorded
    <3>2. PICK i \in DOMAIN db.events[k] : db.events[k][i].id = id
      BY <3>1
    <3>3. i \in DOMAIN new.events[k] /\ new.events[k][i] = db.events[k][i]
      BY <1>3, <1>6
    <3>4. QED
      BY <3>2, <3>3 DEF Recorded
  <2>2. Recorded(new, row.id)
    BY <1>6 DEF Recorded
  <2>3. QED
    BY <1>3, <1>5, <2>1, <2>2 DEF Keeps
<1>11. QED
  BY <1>7, <1>8, <1>9, <1>10 DEF Sound, new

\* A job is created, an artifact is stored.
LEMMA CreateFacts ==
    ASSUME NEW db \in Database, Sound(db), NEW j \in Jobs, db.status[j] = Absent
    PROVE  LET new == [db EXCEPT !.status[j] = "QUEUED"]
           IN  /\ new \in Database
               /\ Sound(new)
               /\ Keeps(db, new)
               /\ new.status[j] # Absent
<1> DEFINE new == [db EXCEPT !.status[j] = "QUEUED"]
<1>1. /\ new \in Database
      /\ new.events = db.events
      /\ new.status[j] = "QUEUED"
      /\ \A k \in Jobs \ {j} : new.status[k] = db.status[k]
  BY DEF Database, Status
<1> HIDE DEF new
<1>2. db.events[j] = <<>>
  BY EmptyLog, RowsTyped DEF Sound, Explained, StatusOf, Target, Absent
<1>3. new.status[j] = StatusOf(new.events[j])
  BY <1>1, <1>2, EmptyLog, RowsTyped
<1>4. Sound(new)
  BY <1>1, <1>3 DEF Sound, Explained
<1>5. Keeps(db, new) /\ new.status[j] # Absent
  BY <1>1 DEF Keeps, Recorded, Absent
<1>6. QED
  BY <1>1, <1>4, <1>5 DEF new

LEMMA StoreFacts ==
    ASSUME NEW db \in Database, Sound(db), NEW h \in Hashes
    PROVE  LET new == [db EXCEPT !.artifacts = @ \cup {h}]
           IN  /\ new \in Database
               /\ Sound(new)
               /\ Keeps(db, new)
<1> DEFINE new == [db EXCEPT !.artifacts = @ \cup {h}]
<1>1. new \in Database /\ new.events = db.events /\ new.status = db.status
  BY DEF Database
<1> HIDE DEF new
<1>2. Sound(new) /\ Keeps(db, new)
  BY <1>1 DEF Sound, Explained, Keeps, Recorded
<1>3. QED
  BY <1>1, <1>2 DEF new

-----------------------------------------------------------------------------
(* Steps that leave the file alone                                         *)

\* Of the processes only p changes.
OnlyBy(p) ==
    \A q \in Process \ {p} : /\ call'[q] = call[q]
                             /\ lock'[q] = lock[q]
                             /\ work'[q] = work[q]

LEMMA OthersKeep ==
    ASSUME NEW p \in Process, OnlyBy(p), UNCHANGED file,
           NEW q \in Process \ {p}, CallInv(q)
    PROVE  CallInv(q)'
BY DEF OnlyBy, CallInv, At, Req, View, Writing

\* What a process sees is sound, and holds all that is in the file.
LEMMA ViewSound ==
    ASSUME IInv, NEW p \in Process
    PROVE  /\ View(p) \in Database
           /\ Sound(View(p))
           /\ Keeps(file, View(p))
BY ViewType, KeepsReflexive DEF IInv, CallInv, View

\* What has to be shown of a step by which only p changes.
LEMMA StepByOne ==
    ASSUME IInv, NEW p \in Process, OnlyBy(p), UNCHANGED file, TypeOK',
           CallInv(p)', Writing(p)' => Writing(p) \/ MayWrite(p),
           \A x \in acked' \ acked : x[1] = "store_artifact"
    PROVE  IInv'
<1>1. \A q \in Process : CallInv(q)'
  BY OthersKeep DEF IInv
<1>2. OneWriter'
  <2>1. \A q \in Process \ {p} : Writing(q)' <=> Writing(q)
    BY DEF OnlyBy, Writing
  <2>2. \A q \in Process \ {p} : ~(Writing(q) /\ Writing(p)')
    BY DEF IInv, OneWriter, MayWrite, Others
  <2>3. QED
    BY <2>1, <2>2 DEF IInv, OneWriter
<1>3. Sound(file)'
  BY DEF IInv, Sound, Explained
<1>4. AckedDurable'
  BY DEF IInv, AckedDurable, Recorded
<1>5. QED
  BY <1>1, <1>2, <1>3, <1>4 DEF IInv

\* The answer is sent, or the process dies, with nothing new written.
LEMMA AnswerIInv ==
    ASSUME IInv, NEW p \in Process, NEW things,
           \A x \in things : x \in Things /\ x[1] = "store_artifact",
           Answer(p, things), UNCHANGED <<file, work>>,
           lock' \in [Process -> LockType], txn' \in [Process -> BOOLEAN],
           \A q \in Process \ {p} : lock'[q] = lock[q],
           Writing(p)' => Writing(p)
    PROVE  IInv'
<1>1. /\ call' \in [Process -> Call]
      /\ call'[p] = Idle
      /\ acked' = acked \cup things
      /\ \A q \in Process \ {p} : call'[q] = call[q]
  BY AnswerFacts DEF IInv
<1>2. TypeOK'
  BY <1>1 DEF IInv, TypeOK
<1>3. CallInv(p)'
  BY <1>1 DEF IInv, CallInv, At, Idle
<1>4. OnlyBy(p)
  BY <1>1 DEF OnlyBy
<1>5. QED
  BY <1>1, <1>2, <1>3, <1>4, StepByOne

LEMMA ReceiveIInv ==
    ASSUME IInv, NEW p \in Process, Receive(p)
    PROVE  IInv'
<1>1. PICK r \in Serves(p) :
          call' = [call EXCEPT ![p] =
              [at |-> IF p \in Api THEN "provision" ELSE "select", req |-> r]]
  BY DEF Receive
<1>2. r \in Request
  BY DEF Serves
<1>3. /\ call' \in [Process -> Call]
      /\ call'[p].at = IF p \in Api THEN "provision" ELSE "select"
      /\ call'[p].req = r
      /\ \A q \in Process \ {p} : call'[q] = call[q]
  BY <1>1, <1>2 DEF IInv, TypeOK, Call
<1>4. UNCHANGED <<file, work, lock, txn, acked>>
  BY DEF Receive
<1>5. TypeOK'
  BY <1>3, <1>4 DEF IInv, TypeOK
<1>6. CallInv(p)'
  BY <1>1, <1>3, <1>4 DEF IInv, CallInv, At, Req, Writing
<1>7. OnlyBy(p)
  BY <1>3, <1>4 DEF OnlyBy
<1>8. QED
  BY <1>4, <1>5, <1>6, <1>7, StepByOne DEF Writing

\* A statement of a transaction that writes db, after which the request goes
\* on: db is sound and nothing has been lost on the way to it.
LEMMA WriteIInv ==
    ASSUME IInv, NEW p \in Process, ~At(p, "idle"),
           NEW db \in Database, Sound(db), Keeps(View(p), db), Insert(p, db),
           NEW stage \in {"select", "commit"}, GoTo(p, stage), UNCHANGED acked,
           stage = "commit" => /\ Stores(db, Req(p))
                               /\ Req(p).op # "job_status"
    PROVE  IInv'
<1>1. TypeOK /\ CallInv(p)
  BY DEF IInv
<1>2. /\ call' \in [Process -> Call]
      /\ call'[p].at = stage
      /\ call'[p].req = call[p].req
      /\ \A q \in Process \ {p} : call'[q] = call[q]
  BY <1>1, GoToFacts
<1>3. /\ lock' \in [Process -> LockType]
      /\ work' \in [Process -> Database]
      /\ txn' \in [Process -> BOOLEAN]
      /\ UNCHANGED file
      /\ Writing(p)'
      /\ work'[p] = db
      /\ MayWrite(p)
      /\ \A q \in Process \ {p} : lock'[q] = lock[q] /\ work'[q] = work[q]
  BY <1>1, InsertFacts
<1>4. TypeOK'
  BY <1>1, <1>2, <1>3 DEF TypeOK
<1>5. Sound(work'[p]) /\ Keeps(file, work'[p])
  BY <1>3, ViewSound, KeepsTransitive
<1>6. Sound(work[p])' /\ Keeps(file, work[p])'
  BY <1>3, <1>5
<1>7. CallInv(p)'
  BY <1>1, <1>2, <1>3, <1>6 DEF CallInv, At, Req, Stores, Recorded
<1>8. OnlyBy(p)
  BY <1>2, <1>3 DEF OnlyBy
<1>9. QED
  BY <1>3, <1>4, <1>7, <1>8, StepByOne

LEMMA ProvisionIInv ==
    ASSUME IInv, NEW p \in Process, Provision(p)
    PROVE  IInv'
BY ViewSound, KeepsReflexive, WriteIInv DEF Provision, At

\* A SELECT after which the request goes on to its INSERT.
LEMMA SelectIInv ==
    ASSUME IInv, NEW p \in Process, At(p, "select"), Select(p),
           GoTo(p, "insert"), UNCHANGED acked, Req(p).op # "job_status",
           Req(p).op = "callback" => View(p).status[Req(p).job] # Absent,
           Req(p).op = "create_pilot_job" => View(p).status[Req(p).job] = Absent
    PROVE  IInv'
<1>1. TypeOK /\ CallInv(p) /\ ~At(p, "idle")
  BY DEF IInv, At
<1>2. /\ call' \in [Process -> Call]
      /\ call'[p].at = "insert"
      /\ call'[p].req = call[p].req
      /\ \A q \in Process \ {p} : call'[q] = call[q]
  BY <1>1, GoToFacts
<1>3. /\ lock' \in [Process -> LockType]
      /\ UNCHANGED <<file, work, txn>>
      /\ Writing(p)' <=> Writing(p)
      /\ \A q \in Process \ {p} : lock'[q] = lock[q]
  BY <1>1, SelectFacts
<1>4. TypeOK'
  BY <1>1, <1>2, <1>3 DEF TypeOK
<1>5. View(p)' = View(p)
  BY <1>3 DEF View
<1>6. CallInv(p)'
  BY <1>1, <1>2, <1>3, <1>5 DEF CallInv, At, Req
<1>7. OnlyBy(p)
  BY <1>2, <1>3 DEF OnlyBy
<1>8. QED
  BY <1>3, <1>4, <1>6, <1>7, StepByOne

LEMMA SelectsIInv ==
    ASSUME IInv, NEW p \in Process,
           SelectArtifact(p) \/ SelectApproval(p) \/ SelectOnly(p) \/ SelectJob(p)
    PROVE  IInv'
<1>1. /\ TypeOK /\ CallInv(p) /\ At(p, "select") /\ ~At(p, "idle")
      /\ Req(p) \in Request
      /\ Select(p)
  BY BusyTypes DEF IInv, At, SelectArtifact, SelectApproval, SelectOnly,
     SelectJob
<1>2. ASSUME NEW things, Answer(p, things),
             \A x \in things : x \in Things /\ x[1] = "store_artifact"
      PROVE  IInv'
  BY <1>1, <1>2, SelectFacts, AnswerIInv DEF TypeOK
<1>3. Answer(p, {}) => IInv'
  BY <1>2
<1>4. CASE SelectArtifact(p)
  BY <1>1, <1>2, <1>4, SelectIInv, ThingTypes DEF SelectArtifact
<1>5. CASE SelectApproval(p)
  BY <1>1, <1>5, SelectIInv DEF SelectApproval
<1>6. CASE SelectOnly(p)
  BY <1>3, <1>6 DEF SelectOnly
<1>7. CASE SelectJob(p)
  <2>1. Allowed(Absent) = {}
    BY DEF Allowed, Absent
  <2>2. QED
    BY <1>1, <1>3, <1>7, <2>1, SelectIInv DEF SelectJob
<1>8. QED
  BY <1>4, <1>5, <1>6, <1>7

LEMMA InsertsIInv ==
    ASSUME IInv, NEW p \in Process,
           InsertRow(p) \/ InsertEvent(p) \/ DuplicateEvent(p)
    PROVE  IInv'
<1>1. /\ TypeOK /\ CallInv(p) /\ At(p, "insert") /\ ~At(p, "idle")
      /\ Req(p) \in Request
      /\ View(p) \in Database /\ Sound(View(p)) /\ Keeps(file, View(p))
  BY BusyTypes, ViewSound DEF IInv, At, InsertRow, InsertEvent, DuplicateEvent
<1>2. ASSUME InsertRow(p), Req(p).op = "store_artifact" PROVE IInv'
  <2> DEFINE db == [View(p) EXCEPT !.artifacts = @ \cup {Req(p).hash}]
  <2>1. db \in Database /\ Sound(db) /\ Keeps(View(p), db)
    BY <1>1, <1>2, RequestTypes, StoreFacts
  <2>2. Insert(p, db) /\ GoTo(p, "commit") /\ UNCHANGED acked
    BY <1>2 DEF InsertRow
  <2>3. Stores(db, Req(p))
    BY <1>2 DEF Stores
  <2> HIDE DEF db
  <2>4. QED
    BY <1>1, <1>2, <2>1, <2>2, <2>3, WriteIInv
<1>3. ASSUME InsertRow(p), Req(p).op = "create_pilot_job" PROVE IInv'
  <2> DEFINE db == [View(p) EXCEPT !.status[Req(p).job] = "QUEUED"]
  <2>1. Req(p).job \in Jobs /\ View(p).status[Req(p).job] = Absent
    BY <1>1, <1>3, RequestTypes DEF CallInv
  <2>2. /\ db \in Database /\ Sound(db) /\ Keeps(View(p), db)
        /\ db.status[Req(p).job] # Absent
    BY <1>1, <2>1, CreateFacts
  <2>3. Insert(p, db) /\ GoTo(p, "commit") /\ UNCHANGED acked
    BY <1>3 DEF InsertRow
  <2> HIDE DEF db
  <2>4. Stores(db, Req(p))
    BY <1>3, <2>2 DEF Stores
  <2>5. QED
    BY <1>1, <1>3, <2>2, <2>3, <2>4, WriteIInv
<1>4. CASE InsertEvent(p)
  <2> DEFINE db == RecordEvent(View(p), Req(p).job, Req(p).row)
  <2>1. /\ Req(p).op = "callback"
        /\ Req(p).job \in Jobs /\ Req(p).row \in Row
        /\ View(p).status[Req(p).job] # Absent
        /\ ~Recorded(View(p), Req(p).row.id)
    BY <1>1, <1>4, RequestTypes DEF CallInv, InsertEvent
  <2>2. /\ db \in Database /\ Sound(db) /\ Keeps(View(p), db)
        /\ Recorded(db, Req(p).row.id)
    BY <1>1, <2>1, RecordEventFacts
  <2>3. Insert(p, db) /\ GoTo(p, "commit") /\ UNCHANGED acked
    BY <1>4 DEF InsertEvent
  <2> HIDE DEF db
  <2>4. Stores(db, Req(p))
    BY <2>1, <2>2 DEF Stores
  <2>5. QED
    BY <1>1, <2>1, <2>2, <2>3, <2>4, WriteIInv
<1>5. CASE DuplicateEvent(p)
  <2>1. Insert(p, View(p)) /\ Answer(p, {})
    BY <1>5 DEF DuplicateEvent
  <2>2. /\ call' \in [Process -> Call]
        /\ call'[p] = Idle
        /\ acked' = acked
        /\ \A q \in Process \ {p} : call'[q] = call[q]
    BY <1>1, <2>1, AnswerFacts
  <2>3. /\ lock' \in [Process -> LockType]
        /\ work' \in [Process -> Database]
        /\ txn' \in [Process -> BOOLEAN]
        /\ UNCHANGED file
        /\ work'[p] = View(p)
        /\ MayWrite(p)
        /\ \A q \in Process \ {p} : lock'[q] = lock[q] /\ work'[q] = work[q]
    BY <1>1, <2>1, InsertFacts
  <2>4. TypeOK'
    BY <1>1, <2>2, <2>3 DEF TypeOK
  <2>5. Sound(work'[p]) /\ Keeps(file, work'[p])
    BY <1>1, <2>3
  <2>6. Sound(work[p])' /\ Keeps(file, work[p])'
    BY <2>3, <2>5
  <2>7. CallInv(p)'
    BY <2>2, <2>6 DEF CallInv, At, Idle
  <2>8. OnlyBy(p)
    BY <2>2, <2>3 DEF OnlyBy
  <2>9. QED
    BY <2>2, <2>3, <2>4, <2>7, <2>8, StepByOne
<1>6. QED
  BY <1>2, <1>3, <1>4, <1>5 DEF InsertRow

LEMMA CommitWaitsIInv ==
    ASSUME IInv, NEW p \in Process, CommitWaits(p)
    PROVE  IInv'
<1>1. TypeOK /\ CallInv(p)
  BY DEF IInv
<1>2. /\ UNCHANGED <<file, work, txn, call, acked>>
      /\ lock' \in [Process -> LockType]
      /\ Writing(p) /\ Writing(p)'
      /\ \A q \in Process \ {p} : lock'[q] = lock[q]
  BY <1>1 DEF CommitWaits, TypeOK, LockType, Writing
<1>3. TypeOK'
  BY <1>1, <1>2 DEF TypeOK
<1>4. CallInv(p)'
  BY <1>1, <1>2 DEF CallInv, At, Req, View, Stores, Recorded
<1>5. OnlyBy(p)
  BY <1>2 DEF OnlyBy
<1>6. QED
  BY <1>2, <1>3, <1>4, <1>5, StepByOne

LEMMA BusyTimeoutIInv ==
    ASSUME IInv, NEW p \in Process, BusyTimeout(p)
    PROVE  IInv'
<1>1. /\ Answer(p, {}) /\ UNCHANGED <<file, work, lock>>
      /\ txn' \in [Process -> BOOLEAN]
  BY DEF BusyTimeout, IInv, TypeOK
<1>2. QED
  BY <1>1, AnswerIInv DEF IInv, TypeOK, Writing

LEMMA CrashIInv ==
    ASSUME IInv, NEW p \in Process, Crash(p)
    PROVE  IInv'
<1>1. /\ call'[p] = Idle
      /\ ~Writing(p)'
      /\ UNCHANGED <<file, acked>>
      /\ OnlyBy(p)
  BY DEF Crash, IInv, TypeOK, Writing, OnlyBy
<1>2. TypeOK'
  BY EmptyType DEF Crash, IInv, TypeOK, LockType, Call
<1>3. CallInv(p)'
  BY <1>1 DEF CallInv, At, Idle
<1>4. QED
  BY <1>1, <1>2, <1>3, StepByOne

\* A commit replaces the file.  No other transaction is about to do so, and
\* what the calls of the other processes have seen in the file is still there.
LEMMA CommitIInv ==
    ASSUME IInv, NEW p \in Process, Commit(p)
    PROVE  IInv'
<1>1. /\ TypeOK /\ CallInv(p) /\ At(p, "commit")
      /\ Req(p) \in Request /\ Req(p).op # "job_status"
      /\ Writing(p) /\ Sound(work[p]) /\ Keeps(file, work[p])
      /\ Stores(work[p], Req(p))
  BY BusyTypes DEF IInv, Commit, CallInv, At
<1>2. /\ file' = work[p]
      /\ lock' = [lock EXCEPT ![p] = "NONE"]
      /\ txn' = [txn EXCEPT ![p] = FALSE]
      /\ work' = [work EXCEPT ![p] = Empty]
      /\ Answer(p, {Thing(Req(p))})
  BY DEF Commit
<1>3. /\ call' \in [Process -> Call]
      /\ call'[p] = Idle
      /\ acked' = acked \cup {Thing(Req(p))}
      /\ \A q \in Process \ {p} : call'[q] = call[q]
  BY <1>1, <1>2, AnswerFacts
<1>4. TypeOK'
  <2>1. acked' \subseteq Things
    BY <1>1, <1>3, ThingTypes DEF TypeOK
  <2>2. QED
    BY <1>1, <1>2, <1>3, <2>1, EmptyType DEF TypeOK, LockType
<1>5. /\ ~Writing(p)'
      /\ \A q \in Process \ {p} : ~Writing(q) /\ ~Writing(q)'
  BY <1>1, <1>2 DEF IInv, TypeOK, OneWriter, Writing
<1>6. OneWriter'
  BY <1>5 DEF OneWriter
<1>7. Sound(file)'
  <2>1. Sound(file')
    BY <1>1, <1>2
  <2>2. QED
    BY <2>1 DEF Sound, Explained
<1>8. ASSUME NEW q \in Process PROVE CallInv(q)'
  <2>1. CASE q = p
    BY <1>3, <1>5, <2>1 DEF CallInv, At, Idle
  <2>2. CASE q # p
    <3>1. CallInv(q) /\ call'[q] = call[q] /\ ~Writing(q) /\ ~Writing(q)'
      BY <1>3, <1>5, <2>2 DEF IInv
    <3>2. View(q) = file /\ View(q)' = work[p]
      BY <1>2, <3>1 DEF View
    <3>3. ~At(q, "idle") => Req(q) \in Request
      BY <1>1, BusyTypes
    <3>4. At(q, "insert") /\ Req(q).op = "callback"
              => work[p].status[Req(q).job] # Absent
      BY <1>1, <3>1, <3>2, <3>3, RequestTypes DEF CallInv, Keeps, At
    <3>5. ~(At(q, "insert") /\ Req(q).op = "create_pilot_job")
      BY <3>1 DEF CallInv, Serves, Process, At
    <3>6. QED
      BY <3>1, <3>2, <3>4, <3>5 DEF CallInv, At, Req
  <2>3. QED
    BY <2>1, <2>2
<1>9. AckedDurable'
  <2>1. ASSUME NEW id \in EventIds, <<"callback", id>> \in acked'
        PROVE  Recorded(file', id)
    <3>1. CASE <<"callback", id>> \in acked
      BY <1>1, <1>2, <3>1 DEF IInv, AckedDurable, Keeps
    <3>2. CASE <<"callback", id>> = Thing(Req(p))
      BY <1>1, <1>2, <3>2, RequestTypes, ThingTypes DEF Stores
    <3>3. QED
      BY <1>3, <2>1, <3>1, <3>2
  <2>2. ASSUME NEW j \in Jobs, <<"create_pilot_job", j>> \in acked'
        PROVE  file'.status[j] # Absent
    <3>1. CASE <<"create_pilot_job", j>> \in acked
      BY <1>1, <1>2, <3>1 DEF IInv, AckedDurable, Keeps
    <3>2. CASE <<"create_pilot_job", j>> = Thing(Req(p))
      BY <1>1, <1>2, <3>2, RequestTypes, ThingTypes DEF Stores
    <3>3. QED
      BY <1>3, <2>2, <3>1, <3>2
  <2>3. QED
    BY <2>1, <2>2 DEF AckedDurable, Recorded
<1>10. QED
  BY <1>4, <1>6, <1>7, <1>8, <1>9 DEF IInv

-----------------------------------------------------------------------------
(* Theorems                                                                *)

LEMMA InitIInv == Init => IInv
<1> SUFFICES ASSUME Init PROVE IInv
  OBVIOUS
<1>1. TypeOK
  BY EmptyType DEF Init, TypeOK, LockType, Call
<1>2. Sound(file)
  BY EmptyLog, RowsTyped DEF Init, Empty, Sound, Explained, OnceIn
<1>3. OneWriter /\ \A p \in Process : CallInv(p)
  BY DEF Init, OneWriter, CallInv, Writing, At, Idle
<1>4. QED
  BY <1>1, <1>2, <1>3 DEF Init, IInv, AckedDurable

LEMMA NextIInv == IInv /\ [Next]_vars => IInv'
<1> SUFFICES ASSUME IInv, [Next]_vars PROVE IInv'
  OBVIOUS
<1>1. CASE UNCHANGED vars
  <2>1. TypeOK' /\ OneWriter' /\ Sound(file)' /\ AckedDurable'
    BY <1>1 DEF vars, IInv, TypeOK, OneWriter, Writing, Sound, Explained,
       AckedDurable, Recorded
  <2>2. \A p \in Process : CallInv(p)'
    BY <1>1 DEF vars, IInv, CallInv, At, Req, View, Writing
  <2>3. QED
    BY <2>1, <2>2 DEF IInv
<1>2. ASSUME NEW p \in Process, Serve(p) PROVE IInv'
  BY <1>2, ProvisionIInv, SelectsIInv, InsertsIInv, CommitIInv,
     CommitWaitsIInv, BusyTimeoutIInv DEF Serve
<1>3. QED
  BY <1>1, <1>2, ReceiveIInv, CrashIInv DEF Next

LEMMA AlwaysIInv == Spec => []IInv
BY InitIInv, NextIInv, PTL DEF Spec

\* In the file, after any crash, timeout or failed commit of any number of
\* processes, a job's status is what its event rows amount to.
THEOREM FileConsistent == Spec => []Consistent
<1>1. IInv => Consistent
  BY DEF IInv, Sound, Explained, Consistent, StatusExplained
<1>2. QED
  BY <1>1, AlwaysIInv, PTL

\* However many processes race to record a redelivered callback, the file
\* holds its id once.
THEOREM EventsRecordedOnce == Spec => []RecordedOnce
<1>1. IInv => RecordedOnce
  BY DEF IInv, Sound, OnceIn, RecordedOnce
<1>2. QED
  BY <1>1, AlwaysIInv, PTL

\* An acknowledged callback, and a job whose id was returned, are in the file
\* and stay there, whatever locks and open transactions processes inherit.
THEOREM AckedIsDurable == Spec => []AckedDurable
<1>1. IInv => AckedDurable
  BY DEF IInv
<1>2. QED
  BY <1>1, AlwaysIInv, PTL
-----------------------------------------------------------------------------
(* One process ingests callbacks                                           *)

SingleIngress == \A p, q \in Ingress : p = q

\* An API process never holds a read lock across statements, so it never makes
\* a commit wait, and nothing it may commit touches a job that exists.
ApiInv(p) ==
    /\ lock[p] # "SHARED"
    /\ Writing(p) =>
           /\ work[p].events = file.events
           /\ \A j \in Jobs :
                  file.status[j] # Absent => work[p].status[j] = file.status[j]

\* What the ingress process read before its transaction is still so in it: only
\* its own commits change the status of a job that exists.
IngressInv(p) ==
    /\ Writing(p) /\ ~At(p, "commit")
           => work[p].events = file.events /\ work[p].status = file.status
    /\ At(p, "insert")
           => Req(p).row.type \in Allowed(View(p).status[Req(p).job])
    /\ At(p, "commit") =>
           /\ ~Recorded(file, Req(p).row.id)
           /\ Req(p).row.type \in Allowed(file.status[Req(p).job])
           /\ work[p].events =
                  [file.events EXCEPT ![Req(p).job] = Append(@, Req(p).row)]
           /\ work[p].status =
                  [file.status EXCEPT ![Req(p).job] =
                       StatusAfter(@, Req(p).row.type)]

ProcessInv(p) == /\ p \in Api => ApiInv(p)
                 /\ p \in Ingress => IngressInv(p)

SerialInv == \A p \in Process : ProcessInv(p)

\* Which requests a process serves.
LEMMA Roles ==
    ASSUME TypeOK, NEW p \in Process, CallInv(p), ~At(p, "idle")
    PROVE  /\ Req(p) \in Request
           /\ Req(p).op = "callback" <=> p \in Ingress
           /\ p \in Ingress <=> p \notin Api
BY BusyTypes, ProcessesAssumption DEF CallInv, Serves, Process

\* A step by which the file stays and of the processes only p changes.
LEMMA SerialByOne ==
    ASSUME SerialInv, NEW p \in Process, OnlyBy(p), UNCHANGED file,
           ProcessInv(p)'
    PROVE  SerialInv'
<1>1. ASSUME NEW q \in Process \ {p} PROVE ProcessInv(q)'
  <2>1. /\ lock'[q] = lock[q] /\ work'[q] = work[q] /\ call'[q] = call[q]
        /\ ProcessInv(q)
    BY DEF OnlyBy, SerialInv
  <2>2. ApiInv(q) => ApiInv(q)'
    BY <2>1 DEF ApiInv, Writing
  <2>3. IngressInv(q) => IngressInv(q)'
    BY <2>1 DEF IngressInv, Writing, At, Req, View, Recorded
  <2>4. QED
    BY <2>1, <2>2, <2>3 DEF ProcessInv
<1>2. QED
  BY <1>1 DEF SerialInv

LEMMA ReceiveSerial ==
    ASSUME IInv, SerialInv, NEW p \in Process, Receive(p)
    PROVE  SerialInv'
<1>1. /\ At(p, "idle")
      /\ call'[p].at \in {"provision", "select"}
      /\ \A q \in Process \ {p} : call'[q] = call[q]
      /\ UNCHANGED <<file, work, lock>>
  BY DEF Receive, IInv, TypeOK
<1>2. ProcessInv(p)'
  BY <1>1 DEF SerialInv, ProcessInv, ApiInv, IngressInv, At, Writing
<1>3. QED
  BY <1>1, <1>2, SerialByOne DEF OnlyBy

LEMMA ProvisionSerial ==
    ASSUME IInv, SerialInv, NEW p \in Process, Provision(p)
    PROVE  SerialInv'
<1>1. TypeOK /\ CallInv(p) /\ At(p, "provision") /\ ~At(p, "idle")
  BY DEF IInv, Provision, At
<1>2. p \in Api /\ p \notin Ingress
  BY <1>1, Roles DEF CallInv
<1>3. /\ UNCHANGED file
      /\ Writing(p)'
      /\ work'[p] = View(p)
      /\ \A q \in Process \ {p} : lock'[q] = lock[q] /\ work'[q] = work[q]
  BY <1>1, ViewType, InsertFacts DEF Provision
<1>4. \A q \in Process \ {p} : call'[q] = call[q]
  BY <1>1, GoToFacts DEF Provision
<1>5. ApiInv(p)'
  BY <1>2, <1>3 DEF SerialInv, ProcessInv, ApiInv, View, Writing
<1>6. QED
  BY <1>2, <1>3, <1>4, <1>5, SerialByOne DEF OnlyBy, ProcessInv

LEMMA SelectSerial ==
    ASSUME IInv, SerialInv, NEW p \in Process,
           SelectArtifact(p) \/ SelectApproval(p) \/ SelectOnly(p) \/ SelectJob(p)
    PROVE  SerialInv'
<1>1. /\ TypeOK /\ CallInv(p) /\ ProcessInv(p)
      /\ At(p, "select") /\ ~At(p, "idle") /\ Select(p)
  BY DEF IInv, SerialInv, At, SelectArtifact, SelectApproval, SelectOnly,
     SelectJob
<1>2. /\ UNCHANGED <<file, work>>
      /\ Writing(p)' <=> Writing(p)
      /\ \A q \in Process \ {p} : lock'[q] = lock[q]
      /\ lock[p] # "NONE" => lock'[p] = lock[p]
      /\ View(p)' = View(p)
  BY <1>1, SelectFacts DEF View
<1>3. \/ call'[p] = Idle
      \/ call'[p].at = "insert" /\ call'[p].req = Req(p)
  BY <1>1, GoToFacts, AnswerFacts DEF SelectArtifact, SelectApproval,
     SelectOnly, SelectJob, Req
<1>4. \A q \in Process \ {p} : call'[q] = call[q]
  BY <1>1, GoToFacts, AnswerFacts DEF SelectArtifact, SelectApproval,
     SelectOnly, SelectJob
<1>5. CASE p \in Api
  <2>1. Writing(p) /\ lock'[p] = lock[p]
    BY <1>1, <1>2, <1>5 DEF CallInv, Writing
  <2>2. ApiInv(p)' /\ p \notin Ingress
    BY <1>1, <1>2, <1>5, <2>1, ProcessesAssumption DEF ProcessInv, ApiInv,
       Writing
  <2>3. QED
    BY <1>2, <1>4, <2>2, SerialByOne DEF OnlyBy, ProcessInv
<1>6. CASE p \notin Api
  <2>1. p \in Ingress /\ Req(p).op = "callback"
    BY <1>1, <1>6, Roles
  <2>2. \/ call'[p] = Idle
        \/ /\ call'[p].at = "insert" /\ call'[p].req = Req(p)
           /\ Req(p).row.type \in Allowed(View(p).status[Req(p).job])
    <3>1. SelectJob(p)
      BY <2>1 DEF SelectArtifact, SelectApproval, SelectOnly
    <3>2. CASE Req(p).row.type \in Allowed(View(p).status[Req(p).job])
      BY <1>3, <3>2
    <3>3. CASE Req(p).row.type \notin Allowed(View(p).status[Req(p).job])
      BY <1>1, <3>1, <3>3, AnswerFacts DEF SelectJob
    <3>4. QED
      BY <3>2, <3>3
  <2>3. CASE call'[p] = Idle
    <3>1. IngressInv(p)'
      BY <1>1, <1>2, <2>1, <2>3 DEF ProcessInv, IngressInv, At, Idle
    <3>2. QED
      BY <1>2, <1>4, <1>6, <3>1, SerialByOne DEF OnlyBy, ProcessInv
  <2>4. CASE /\ call'[p].at = "insert" /\ call'[p].req = Req(p)
             /\ Req(p).row.type \in Allowed(View(p).status[Req(p).job])
    <3>1. /\ ~At(p, "commit")' /\ ~At(p, "commit")
          /\ Req(p)' = Req(p)
          /\ work[p]' = work[p]
      BY <1>1, <1>2, <2>4 DEF At, Req
    <3>2. IngressInv(p)'
      BY <1>1, <1>2, <2>1, <2>4, <3>1 DEF ProcessInv, IngressInv
    <3>3. QED
      BY <1>2, <1>4, <1>6, <3>2, SerialByOne DEF OnlyBy, ProcessInv
  <2>5. QED
    BY <2>2, <2>3, <2>4
<1>7. QED
  BY <1>5, <1>6
\* What an INSERT does, and that an API process inserts into a job's status
\* only where there was no job.
LEMMA InsertSerial ==
    ASSUME IInv, SerialInv, NEW p \in Process,
           InsertRow(p) \/ InsertEvent(p) \/ DuplicateEvent(p)
    PROVE  SerialInv'
<1>1. /\ TypeOK /\ CallInv(p) /\ ProcessInv(p)
      /\ At(p, "insert") /\ ~At(p, "idle") /\ ~At(p, "commit")
      /\ View(p) \in Database
      /\ Req(p) \in Request
  BY ViewType, BusyTypes DEF IInv, SerialInv, At, InsertRow, InsertEvent,
     DuplicateEvent
<1>2. ASSUME NEW db \in Database, Insert(p, db),
             GoTo(p, "commit") \/ Answer(p, {}), ProcessInv(p)'
      PROVE  SerialInv'
  <2>1. \A q \in Process \ {p} : call'[q] = call[q]
    BY <1>1, <1>2, GoToFacts, AnswerFacts
  <2>2. QED
    BY <1>1, <1>2, <2>1, InsertFacts, SerialByOne DEF OnlyBy
<1>3. ASSUME InsertRow(p) PROVE SerialInv'
  <2>1. /\ p \in Api /\ p \notin Ingress
        /\ Writing(p) /\ View(p) = work[p]
    BY <1>1, <1>3, Roles DEF InsertRow, CallInv, View
  <2>2. ASSUME NEW db \in Database, Insert(p, db),
               db.events = work[p].events,
               \A j \in Jobs : file.status[j] # Absent
                                   => db.status[j] = work[p].status[j]
        PROVE  SerialInv'
    <3>1. /\ work'[p] = db /\ Writing(p)' /\ UNCHANGED file
          /\ lock'[p] # "SHARED"
      BY <1>1, <2>1, <2>2, InsertFacts DEF Writing
    <3>2. ApiInv(p)'
      BY <1>1, <2>1, <2>2, <3>1 DEF ProcessInv, ApiInv
    <3>3. QED
      BY <1>2, <1>3, <2>1, <2>2, <3>2 DEF ProcessInv, InsertRow
  <2>3. CASE Req(p).op = "store_artifact"
    <3> DEFINE db == [View(p) EXCEPT !.artifacts = @ \cup {Req(p).hash}]
    <3>1. Insert(p, db)
      BY <1>3, <2>3 DEF InsertRow
    <3>2. /\ db \in Database
          /\ db.events = work[p].events /\ db.status = work[p].status
      BY <1>1, <2>1, <2>3, RequestTypes DEF Database
    <3> HIDE DEF db
    <3>3. QED
      BY <2>2, <3>1, <3>2
  <2>4. CASE Req(p).op = "create_pilot_job"
    <3> DEFINE db == [View(p) EXCEPT !.status[Req(p).job] = "QUEUED"]
    <3>1. Insert(p, db)
      BY <1>3, <2>4 DEF InsertRow
    <3>2. /\ db \in Database
          /\ db.events = work[p].events
          /\ \A j \in Jobs \ {Req(p).job} : db.status[j] = work[p].status[j]
      BY <1>1, <2>1, <2>4, RequestTypes DEF Database, Status
    <3>3. Req(p).job \in Jobs /\ work[p].status[Req(p).job] = Absent
      BY <1>1, <2>1, <2>4, RequestTypes DEF CallInv
    <3>4. file.status[Req(p).job] = Absent
      BY <1>1, <2>1, <3>3 DEF ProcessInv, ApiInv
    <3> HIDE DEF db
    <3>5. QED
      BY <2>2, <3>1, <3>2, <3>4
  <2>5. QED
    BY <1>3, <2>3, <2>4 DEF InsertRow
<1>4. ASSUME InsertEvent(p) \/ DuplicateEvent(p)
      PROVE  /\ p \in Ingress /\ p \notin Api
             /\ Req(p).job \in Jobs /\ Req(p).row \in Row
             /\ View(p).events = file.events /\ View(p).status = file.status
             /\ Req(p).row.type \in Allowed(file.status[Req(p).job])
  <2>1. /\ p \in Ingress /\ p \notin Api
        /\ Req(p).job \in Jobs /\ Req(p).row \in Row
    BY <1>1, <1>4, Roles, RequestTypes DEF InsertEvent, DuplicateEvent
  <2>2. IngressInv(p)
    BY <1>1, <2>1 DEF ProcessInv
  <2>3. View(p).events = file.events /\ View(p).status = file.status
    BY <1>1, <2>2 DEF IngressInv, View
  <2>4. QED
    BY <1>1, <2>1, <2>2, <2>3 DEF IngressInv
<1>5. ASSUME InsertEvent(p) PROVE SerialInv'
  <2> DEFINE db == RecordEvent(View(p), Req(p).job, Req(p).row)
  <2>1. Insert(p, db) /\ GoTo(p, "commit") /\ ~Recorded(View(p), Req(p).row.id)
    BY <1>5 DEF InsertEvent
  <2>2. /\ db.events = [file.events EXCEPT ![Req(p).job] = Append(@, Req(p).row)]
        /\ db.status = [file.status EXCEPT ![Req(p).job] =
                            StatusAfter(@, Req(p).row.type)]
    BY <1>1, <1>4, <1>5 DEF RecordEvent, Database
  <2>3. db \in Database
    <3>1. Sound(View(p)) /\ ~Recorded(View(p), Req(p).row.id)
      BY <2>1, ViewSound
    <3>2. View(p).status[Req(p).job] # Absent
      BY <1>4, <1>5 DEF Allowed, Absent
    <3>3. QED
      BY <1>1, <1>4, <1>5, <3>1, <3>2, RecordEventFacts
  <2> HIDE DEF db
  <2>4. /\ work'[p] = db /\ UNCHANGED file
        /\ call'[p].at = "commit" /\ call'[p].req = call[p].req
    BY <1>1, <2>1, <2>3, InsertFacts, GoToFacts
  <2>5. ~Recorded(file, Req(p).row.id)
    BY <1>4, <1>5, <2>1 DEF Recorded
  <2>6. /\ At(p, "commit")' /\ ~At(p, "insert")'
        /\ Req(p)' = Req(p)
        /\ work[p]' = db
        /\ file' = file
    BY <2>4 DEF At, Req
  <2>7. Recorded(file', Req(p).row.id) <=> Recorded(file, Req(p).row.id)
    BY <2>6
  <2>8. IngressInv(p)'
    BY <1>4, <1>5, <2>2, <2>5, <2>6 DEF IngressInv, Recorded
  <2>9. QED
    BY <1>2, <1>4, <1>5, <2>1, <2>3, <2>8 DEF ProcessInv
<1>6. ASSUME DuplicateEvent(p) PROVE SerialInv'
  <2>1. Insert(p, View(p)) /\ Answer(p, {})
    BY <1>6 DEF DuplicateEvent
  <2>2. work'[p] = View(p) /\ UNCHANGED file /\ call'[p] = Idle
    BY <1>1, <2>1, InsertFacts, AnswerFacts
  <2>3. IngressInv(p)'
    BY <1>4, <1>6, <2>2 DEF IngressInv, At, Idle
  <2>4. QED
    BY <1>1, <1>2, <1>4, <1>6, <2>1, <2>3 DEF ProcessInv
<1>7. QED
  BY <1>3, <1>5, <1>6

\* The commit of the only ingress process has to wait for nobody: the API
\* processes keep no read locks, and none of them holds the write lock.
LEMMA IngressCommits ==
    ASSUME SingleIngress, IInv, SerialInv, NEW p \in Ingress, At(p, "commit")
    PROVE  MayCommit(p)
<1>1. p \in Process
  BY DEF Process
<1>2. Writing(p)
  BY <1>1 DEF IInv, CallInv
<1>3. ASSUME NEW q \in Others(p) PROVE lock[q] = "NONE"
  <2>1. q \in Process /\ q # p /\ lock[q] \in LockType
    BY DEF Others, IInv, TypeOK
  <2>2. ~Writing(q)
    BY <1>1, <1>2, <2>1 DEF IInv, OneWriter
  <2>3. q \in Api
    BY <2>1 DEF Process, SingleIngress
  <2>4. lock[q] # "SHARED"
    BY <2>1, <2>3 DEF SerialInv, ProcessInv, ApiInv
  <2>5. QED
    BY <2>1, <2>2, <2>4 DEF Writing, LockType
<1>4. QED
  BY <1>3 DEF MayCommit

LEMMA WaitSerial ==
    ASSUME SingleIngress, IInv, SerialInv, NEW p \in Process,
           CommitWaits(p) \/ BusyTimeout(p)
    PROVE  SerialInv'
<1>1. /\ UNCHANGED <<file, work>>
      /\ \A q \in Process \ {p} : lock'[q] = lock[q] /\ call'[q] = call[q]
      /\ lock'[p] = lock[p] \/ (lock[p] = "RESERVED" /\ lock'[p] = "PENDING")
  BY AnswerFacts DEF CommitWaits, BusyTimeout, IInv, TypeOK
<1>2. ApiInv(p) => ApiInv(p)'
  BY <1>1 DEF ApiInv, Writing
<1>3. ASSUME p \in Ingress, IngressInv(p) PROVE IngressInv(p)'
  <2>1. ~At(p, "commit")
    BY <1>3, IngressCommits DEF CommitWaits, BusyTimeout, Blocked, At
  <2>2. BusyTimeout(p)
    BY <2>1 DEF CommitWaits
  <2>3. call'[p] = Idle /\ lock'[p] = lock[p]
    BY <2>2, AnswerFacts DEF BusyTimeout, IInv
  <2>4. QED
    BY <1>1, <1>3, <2>1, <2>3 DEF IngressInv, At, Idle, Writing
<1>4. ProcessInv(p)'
  BY <1>2, <1>3 DEF SerialInv, ProcessInv
<1>5. QED
  BY <1>1, <1>4, SerialByOne DEF OnlyBy

LEMMA CrashSerial ==
    ASSUME IInv, SerialInv, NEW p \in Process, Crash(p)
    PROVE  SerialInv'
<1>1. /\ lock'[p] = "NONE" /\ call'[p] = Idle
      /\ UNCHANGED file
      /\ OnlyBy(p)
  BY DEF Crash, IInv, TypeOK, OnlyBy
<1>2. ApiInv(p)' /\ IngressInv(p)'
  BY <1>1 DEF ApiInv, IngressInv, Writing, At, Idle
<1>3. QED
  BY <1>1, <1>2, SerialByOne DEF ProcessInv
\* What a commit of a process changes: an API process creates a job or stores
\* an artifact, the ingress process records the event it checked.
LEMMA CommitEffect ==
    ASSUME IInv, SerialInv, NEW p \in Process, Commit(p)
    PROVE  /\ p \in Api =>
                  /\ file'.events = file.events
                  /\ \A j \in Jobs :
                         file.status[j] # Absent => file'.status[j] = file.status[j]
           /\ p \in Ingress =>
                  /\ Req(p).job \in Jobs /\ Req(p).row \in Row
                  /\ ~Recorded(file, Req(p).row.id)
                  /\ Req(p).row.type \in Allowed(file.status[Req(p).job])
                  /\ file'.events = [file.events EXCEPT
                                         ![Req(p).job] = Append(@, Req(p).row)]
                  /\ file'.status = [file.status EXCEPT
                                         ![Req(p).job] =
                                             StatusAfter(@, Req(p).row.type)]
<1>1. /\ file' = work[p]
      /\ At(p, "commit") /\ ~At(p, "idle")
      /\ TypeOK /\ CallInv(p) /\ ProcessInv(p) /\ Writing(p)
  BY DEF Commit, IInv, SerialInv, CallInv, At
<1>2. ASSUME p \in Ingress PROVE Req(p).job \in Jobs /\ Req(p).row \in Row
  BY <1>1, <1>2, Roles, RequestTypes
<1>3. QED
  BY <1>1, <1>2 DEF ProcessInv, ApiInv, IngressInv

LEMMA CommitSerial ==
    ASSUME SingleIngress, IInv, SerialInv, NEW p \in Process, Commit(p)
    PROVE  SerialInv'
<1>1. /\ lock'[p] = "NONE" /\ call'[p] = Idle
      /\ file' = work[p]
      /\ \A q \in Process \ {p} :
             lock'[q] = lock[q] /\ call'[q] = call[q] /\ ~Writing(q) /\ ~Writing(q)'
  BY DEF Commit, IInv, TypeOK, Answer, CallInv, OneWriter, Writing
<1>2. ASSUME NEW q \in Process \ {p}, q \in Api PROVE ApiInv(q)'
  BY <1>1, <1>2 DEF SerialInv, ProcessInv, ApiInv
<1>3. ASSUME NEW q \in Process \ {p}, q \in Ingress PROVE IngressInv(q)'
  <2>1. p \in Api
    BY <1>3 DEF Process, SingleIngress
  <2>2. /\ IngressInv(q) /\ CallInv(q) /\ TypeOK
        /\ ~At(q, "commit")
        /\ View(q) = file /\ View(q)' = file'
    BY <1>1, <1>3 DEF SerialInv, ProcessInv, IInv, CallInv, View
  <2>3. ASSUME At(q, "insert")
        PROVE  Req(q).row.type \in Allowed(file'.status[Req(q).job])
    <3>1. Req(q).job \in Jobs
      BY <1>3, <2>2, <2>3, Roles, RequestTypes DEF At
    <3>2. Req(q).row.type \in Allowed(file.status[Req(q).job])
      BY <2>2, <2>3 DEF IngressInv
    <3>3. file.status[Req(q).job] # Absent
      BY <3>2 DEF Allowed, Absent
    <3>4. QED
      BY <2>1, <3>1, <3>2, <3>3, CommitEffect
  <2>4. /\ At(q, "insert")' <=> At(q, "insert")
        /\ ~At(q, "commit")'
        /\ Req(q)' = Req(q)
        /\ ~Writing(q)'
    BY <1>1, <2>2 DEF At, Req
  <2>5. QED
    BY <2>2, <2>3, <2>4 DEF IngressInv
<1>4. ApiInv(p)' /\ IngressInv(p)'
  BY <1>1 DEF ApiInv, IngressInv, Writing, At, Idle
<1>5. QED
  BY <1>2, <1>3, <1>4 DEF SerialInv, ProcessInv

LEMMA NextSerial ==
    ASSUME SingleIngress, IInv, SerialInv, [Next]_vars
    PROVE  SerialInv'
<1>1. CASE UNCHANGED vars
  <2>1. ASSUME NEW p \in Process PROVE ProcessInv(p)'
    <3>1. UNCHANGED <<file, work, lock, call>> /\ ProcessInv(p)
      BY <1>1 DEF vars, SerialInv
    <3>2. ApiInv(p) => ApiInv(p)'
      BY <3>1 DEF ApiInv, Writing
    <3>3. IngressInv(p) => IngressInv(p)'
      BY <3>1 DEF IngressInv, Writing, At, Req, View, Recorded
    <3>4. QED
      BY <3>1, <3>2, <3>3 DEF ProcessInv
  <2>2. QED
    BY <2>1 DEF SerialInv
<1>2. ASSUME NEW p \in Process, Serve(p) PROVE SerialInv'
  BY <1>2, ProvisionSerial, SelectSerial, InsertSerial, CommitSerial,
     WaitSerial DEF Serve
<1>3. QED
  BY <1>1, <1>2, ReceiveSerial, CrashSerial DEF Next

LEMMA InitSerial == Init => SerialInv
BY DEF Init, SerialInv, ProcessInv, ApiInv, IngressInv, Writing, At, Idle

LEMMA AlwaysSerial ==
    ASSUME SingleIngress
    PROVE  Spec => [](IInv /\ SerialInv)
<1>1. Init => IInv /\ SerialInv
  BY InitIInv, InitSerial
<1>2. IInv /\ SerialInv /\ [Next]_vars => (IInv /\ SerialInv)'
  BY NextIInv, NextSerial
<1>3. QED
  BY <1>1, <1>2, PTL DEF Spec

\* No step but a commit changes the file.
LEMMA FileSteps ==
    ASSUME IInv, [Next]_vars
    PROVE  UNCHANGED file \/ \E p \in Process : Commit(p)
BY DEF vars, Next, Serve, Receive, Provision, SelectArtifact, SelectApproval,
   SelectOnly, SelectJob, InsertRow, InsertEvent, DuplicateEvent, CommitWaits,
   BusyTimeout, Crash, Select, Insert

\* The ledger's tables of statuses and events are the store's.
LEMMA SameTables ==
    /\ \A s : Ledger!Allowed(s) = Allowed(s)
    /\ \A rows : Ledger!StatusOf(rows) = StatusOf(rows)
BY Zenon DEF Ledger!Allowed, Ledger!Pausing, Ledger!StatusOf, Ledger!MovesIn,
       Ledger!LastMove, Ledger!Target, Ledger!Moves, Allowed, Pausing,
       StatusOf, MovesIn, LastMove, Target, Moves

\* While one process alone ingests callbacks, the committed event rows are a
\* ledger, whatever API processes do, and however requests fail half way: the
\* check before the transaction still holds when the transaction commits.
THEOREM ImplementsLedger ==
    ASSUME SingleIngress
    PROVE  Spec => LedgerSpec
<1>1. Init => Ledger!Init
  BY DEF Init, Empty, Ledger!Init
<1>2. ASSUME IInv, SerialInv, [Next]_vars
      PROVE  Ledger!Next \/ UNCHANGED file.events
  <2>1. ASSUME NEW p \in Process, Commit(p)
        PROVE  Ledger!Next \/ UNCHANGED file.events
    <3>1. CASE p \in Api
      BY <1>2, <2>1, <3>1, CommitEffect
    <3>2. CASE p \in Ingress
      <4>1. /\ Req(p).job \in Jobs /\ Req(p).row \in Row
            /\ ~Recorded(file, Req(p).row.id)
            /\ Req(p).row.type \in Allowed(file.status[Req(p).job])
            /\ file'.events = [file.events EXCEPT
                                   ![Req(p).job] = Append(@, Req(p).row)]
        BY <1>2, <2>1, <3>2, CommitEffect
      <4>2. file.status[Req(p).job] = StatusOf(file.events[Req(p).job])
        BY <1>2, <4>1 DEF IInv, Sound, Explained, Allowed, Absent
      <4>3. Req(p).row.type
                \in Ledger!Allowed(Ledger!StatusOf(file.events[Req(p).job]))
        BY <4>1, <4>2, SameTables
      <4>4. Ledger!Fresh(Req(p).row.id)
        BY <4>1 DEF Recorded, Ledger!Fresh
      <4>5. Ledger!Accept(Req(p).job, Req(p).row)
        BY <4>1, <4>3, <4>4 DEF Ledger!Accept
      <4>6. QED
        BY <4>1, <4>5 DEF Ledger!Next
    <3>3. QED
      BY <3>1, <3>2 DEF Process
  <2>2. QED
    BY <1>2, <2>1, FileSteps
<1>3. QED
  BY <1>1, <1>2, AlwaysSerial, PTL DEF Spec, LedgerSpec, Ledger!Spec

\* The body of PausedNotResumed.
PausedStays ==
    \A j \in Jobs :
        file.status[j] = "PAUSED" => file'.status[j] \in {"PAUSED", "REVERTED"}

\* With one ingress process a paused job is never turned back into RUNNING.
\* Two are enough to do it: each reads the status before its transaction.
THEOREM SingleIngressNeverResumes ==
    ASSUME SingleIngress
    PROVE  Spec => PausedNotResumed
<1>1. ASSUME IInv, SerialInv, [Next]_vars PROVE PausedStays
  <2>1. ASSUME NEW p \in Process, Commit(p), NEW j \in Jobs,
               file.status[j] = "PAUSED"
        PROVE  file'.status[j] \in {"PAUSED", "REVERTED"}
    <3>1. CASE p \in Api
      BY <1>1, <2>1, <3>1, CommitEffect DEF Absent
    <3>2. CASE p \in Ingress
      <4>1. /\ Req(p).row.type \in Allowed(file.status[Req(p).job])
            /\ file'.status = [file.status EXCEPT
                                   ![Req(p).job] =
                                       StatusAfter(@, Req(p).row.type)]
            /\ DOMAIN file.status = Jobs
        BY <1>1, <2>1, <3>2, CommitEffect DEF IInv, TypeOK, Database
      <4>2. Req(p).row.type \in Allowed("PAUSED")
                => StatusAfter("PAUSED", Req(p).row.type) = "REVERTED"
        BY DEF Allowed, StatusAfter, Moves, Target
      <4>3. QED
        BY <2>1, <4>1, <4>2
    <3>3. QED
      BY <3>1, <3>2 DEF Process
  <2>2. QED
    BY <1>1, <2>1, FileSteps DEF PausedStays
<1>2. IInv /\ SerialInv /\ [Next]_vars => [PausedStays]_vars
  BY <1>1
<1>3. QED
  BY <1>2, AlwaysSerial, PTL DEF Spec, PausedNotResumed, PausedStays

-----------------------------------------------------------------------------
(* What the rows of the file amount to, with a single ingress.             *)

LEMMA SameOrder == \A rows : Ledger!WellOrdered(rows) <=> WellOrdered(rows)
BY Zenon DEF Ledger!WellOrdered, Ledger!Pausing, Ledger!Allowed, WellOrdered,
       Pausing, Allowed

LEMMA LedgerNext ==
    ASSUME Promises(file.events, Jobs, Row), [Ledger!Next]_(file.events)
    PROVE  Promises(file.events, Jobs, Row)'
<1>1. CASE UNCHANGED file.events
  BY <1>1 DEF Promises, OnceIn
<1>2. ASSUME NEW j \in Jobs, NEW r \in Row, Ledger!Accept(j, r)
      PROVE  Promises(file'.events, Jobs, Row)
  <2>1. /\ file.events \in [Jobs -> Seq(Row)]
        /\ file'.events = [file.events EXCEPT ![j] = Append(@, r)]
    BY <1>2 DEF Ledger!Accept, Promises
  <2>2. /\ file'.events \in [Jobs -> Seq(Row)]
        /\ IsAppended(file'.events, file.events, Jobs, j, r)
    BY <2>1 DEF IsAppended
  <2>3. \A k \in Jobs : \A i \in DOMAIN file.events[k] :
            file.events[k][i].id # r.id
    BY <1>2 DEF Ledger!Accept, Ledger!Fresh
  <2>4. r.type \in Allowed(StatusOf(file.events[j]))
    BY <1>2, SameTables DEF Ledger!Accept
  <2>5. QED
    BY <2>2, <2>3, <2>4, PromisesAccept
<1>3. CASE Ledger!Next
  <2>1. Promises(file'.events, Jobs, Row)
    BY <1>2, <1>3 DEF Ledger!Next
  <2>2. QED
    BY <2>1 DEF Promises, OnceIn
<1>4. QED
  BY <1>1, <1>3

\* With one ingress process the file is fail-closed: behind a breach it holds nothing
\* but the compensation, whatever API processes lock, abandon and commit meanwhile.
THEOREM SingleIngressFailsClosed ==
    ASSUME SingleIngress
    PROVE  Spec => []Ledger!FailClosed
<1>1. Ledger!Init => Promises(file.events, Jobs, Row)
  BY PromisesInit, RowsTyped DEF Ledger!Init
<1>2. Promises(file.events, Jobs, Row) => Ledger!FailClosed
  BY SameOrder DEF Promises, Ledger!FailClosed
<1>3. QED
  BY <1>1, <1>2, LedgerNext, ImplementsLedger, PTL DEF LedgerSpec, Ledger!Spec
=============================================================================
