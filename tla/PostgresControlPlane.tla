----------------------- MODULE PostgresControlPlane -----------------------
(***************************************************************************)
(* PostgresControlPlaneStore: processes with one connection each, serving  *)
(* callbacks and callback authorizations.  A step is one SQL statement,    *)
(* under READ COMMITTED; SELECT ... FOR UPDATE and UPDATE lock a row until *)
(* the transaction ends, and nothing bounds the wait for such a lock.      *)
(*                                                                         *)
(* psycopg's transaction() is a transaction on a connection that is not in *)
(* one, and only a savepoint on a connection that is.  The store's own     *)
(* methods always leave the connection out of a transaction, except        *)
(* readiness(), whose SELECT opens one that nothing commits: the "open"    *)
(* connections below.                                                      *)
(*                                                                         *)
(* One tenant, whose jobs have been created; the row-level policies and    *)
(* the tables of artifacts and approvals are not in this module.           *)
(***************************************************************************)
EXTENDS PilotStatus

CONSTANTS Process,   \* processes, each with a store and its connection
          Probed,    \* those whose readiness() is called
          Jobs, EventIds,
          Routes,    \* route ids, uuid4 drawn by issue_callback_authorization
          Reports,   \* the event types workers report
          Ttl,       \* lifetime of an authorization, in ticks of the clock
          MaxTime    \* the last tick: bounds the model

ASSUME ReportsAssumption == Reports \subseteq EventType

ASSUME TimeAssumption == Ttl \in Nat /\ MaxTime \in Nat

ASSUME ProbedAssumption == Probed \subseteq Process

\* They are the rows of two tables.
ASSUME RowsAssumption == Jobs \cap Routes = {}

VARIABLES committed,  \* the database as committed
          pending,    \* pending[p]: what p's transaction has written
          locks,      \* locks[p]: the rows p's transaction has locked
          open,       \* open[p]: p's connection was left in a transaction
          begun,      \* begun[p]: now() in p's transaction, its start time,
                      \* and 0 outside of a transaction
          call,       \* call[p]: the method p is executing and how far it is
          now,        \* the clock
          acked       \* what calls returned normally for (a history variable)

vars == <<committed, pending, locks, open, begun, call, now, acked>>

\* The route of an event recorded through record_callback.
Direct == "direct"

Row == [id : EventIds, type : Reports, route : Routes \cup {Direct}]

\* A row of callback_authorizations, or none yet.
NoAuth == [state |-> "none"]

Auth == {NoAuth} \cup [state : {"active", "revoked"}, job : Jobs, expires : Nat]

\* A status column a transaction has not written.
Same == "SAME"

Database == [status : [Jobs -> Status], events : [Jobs -> Seq(Row)],
             auths : [Routes -> Auth]]

Writes == [status : [Jobs -> Status \cup {Same}], events : [Jobs -> Seq(Row)],
           auths : [Routes -> Auth]]

Nothing == [status |-> [j \in Jobs |-> Same], events |-> [j \in Jobs |-> <<>>],
            auths |-> [r \in Routes |-> NoAuth]]

Request ==
    [op : {"callback"}, job : Jobs, row : Row]
        \cup [op : {"issue"}, job : Jobs, route : Routes]
        \cup [op : {"revoke"}, route : Routes]

Stage == {"resolve", "lock_auth", "check_dup", "lock_job", "insert", "issue",
          "revoke", "end"}

\* since and saved* are the clock, the writes and the locks at the beginning.
Idle == [at |-> "idle"]

Call == {Idle} \cup [at : Stage, req : Request, since : Nat,
                     savedWrites : Writes, savedLocks : SUBSET (Jobs \cup Routes)]

\* Mutant: __init__ does not commit its SET.
NotCommitted == [p \in Process |-> TRUE]

\* __init__ sets the session's organization to none and commits.
Connected == [p \in Process |-> FALSE]

TypeOK ==
    /\ committed \in Database
    /\ pending \in [Process -> Writes]
    /\ locks \in [Process -> SUBSET (Jobs \cup Routes)]
    /\ open \in [Process -> BOOLEAN]
    /\ begun \in [Process -> Nat]
    /\ call \in [Process -> Call]
    /\ now \in Nat
    /\ acked \in [callback : SUBSET EventIds, issue : SUBSET Routes,
                  revoke : SUBSET Routes]

Init ==
    /\ committed = [status |-> [j \in Jobs |-> "QUEUED"],
                    events |-> [j \in Jobs |-> <<>>],
                    auths |-> [r \in Routes |-> NoAuth]]
    /\ pending = [p \in Process |-> Nothing]
    /\ locks = [p \in Process |-> {}]
    /\ open = Connected
    /\ begun = [p \in Process |-> 0]
    /\ call = [p \in Process |-> Idle]
    /\ now = 0
    /\ acked = [callback |-> {}, issue |-> {}, revoke |-> {}]

-----------------------------------------------------------------------------
(* Statements and transactions                                             *)

\* The database with a transaction's writes applied.
Apply(db, writes) ==
    [status |-> [j \in Jobs |-> IF writes.status[j] = Same
                                THEN db.status[j] ELSE writes.status[j]],
     events |-> [j \in Jobs |-> db.events[j] \o writes.events[j]],
     auths |-> [r \in Routes |-> IF writes.auths[r] = NoAuth
                                 THEN db.auths[r] ELSE writes.auths[r]]]

\* What a statement of p sees: the last commit and its own writes.
View(p) == Apply(committed, pending[p])

At(p, stage) == call[p].at = stage

Req(p) == call[p].req

GoTo(p, stage) == call' = [call EXCEPT ![p].at = stage]

Recorded(db, id) ==
    \E j \in Jobs : \E i \in DOMAIN db.events[j] : db.events[j][i].id = id

\* The next statement of p waits for the end of q's transaction: for a row that
\* q has locked, or to learn whether the event id that q has inserted stays.
WaitsFor(p, q) ==
    \/ At(p, "lock_auth") /\ Req(p).row.route \in locks[q]
    \/ At(p, "revoke") /\ Req(p).route \in locks[q]
    \/ (At(p, "lock_job") \/ At(p, "issue")) /\ Req(p).job \in locks[q]
    \/ At(p, "insert") /\ Recorded(pending[q], Req(p).row.id)

Granted(p) == \A q \in Process \ {p} : ~WaitsFor(p, q)

\* Mutant: SELECT without FOR UPDATE.
OnlyRead(p, row) == UNCHANGED locks

\* The row is free, and locked by p until its transaction ends.
LockRow(p, row) ==
    /\ \A q \in Process \ {p} : row \notin locks[q]
    /\ locks' = [locks EXCEPT ![p] = @ \cup {row}]

\* p's call is over, and its transaction too unless it was only a savepoint.
Return(p) ==
    /\ call' = [call EXCEPT ![p] = Idle]
    /\ begun' = [begun EXCEPT ![p] = IF open[p] THEN @ ELSE 0]

\* Mutant: the exception is caught inside the transaction.
StillLocked(p) == locks[p]

\* The locks p has after an exception has left transaction().
LocksAfterFailure(p) == IF open[p] THEN call[p].savedLocks ELSE {}

\* An exception leaves transaction(): it rolls the transaction back, or, on an
\* open connection, to the savepoint.
Fail(p) ==
    /\ pending' = [pending EXCEPT ![p] =
           IF open[p] THEN call[p].savedWrites ELSE Nothing]
    /\ locks' = [locks EXCEPT ![p] = LocksAfterFailure(p)]
    /\ Return(p)
    /\ UNCHANGED <<committed, open, now, acked>>

\* The processes that are issuing an authorization.
Issuing == {q \in Process : ~At(q, "idle") /\ Req(q).op = "issue"}

\* A uuid4 that no call has drawn so far.
Undrawn(r) ==
    /\ committed.auths[r] = NoAuth
    /\ \A q \in Process : pending[q].auths[r] = NoAuth
    /\ r \notin {Req(q).route : q \in Issuing}

\* The first statement of the method that serves a request.
FirstStatement(req) ==
    IF req.op # "callback" THEN req.op
    ELSE IF req.row.route = Direct THEN "check_dup" ELSE "resolve"

\* transaction() begins; the in-process RLock admits one call at a time.
Begin(p) ==
    /\ At(p, "idle")
    /\ \E req \in Request :
           /\ req.op = "issue" => Undrawn(req.route)
           /\ call' = [call EXCEPT ![p] =
                  [at |-> FirstStatement(req), req |-> req, since |-> now,
                   savedWrites |-> pending[p], savedLocks |-> locks[p]]]
    /\ begun' = [begun EXCEPT ![p] = IF open[p] THEN @ ELSE now]
    /\ UNCHANGED <<committed, pending, locks, open, now, acked>>

\* transaction() ends: COMMIT, or RELEASE of the savepoint.
End(p) ==
    /\ At(p, "end")
    /\ acked' = [acked EXCEPT ![Req(p).op] = @ \cup
           {IF Req(p).op = "callback" THEN Req(p).row.id ELSE Req(p).route}]
    /\ Return(p)
    /\ IF open[p]
       THEN UNCHANGED <<committed, pending, locks>>
       ELSE /\ committed' = View(p)
            /\ pending' = [pending EXCEPT ![p] = Nothing]
            /\ locks' = [locks EXCEPT ![p] = {}]
    /\ UNCHANGED <<open, now>>

-----------------------------------------------------------------------------
(* record_authorized_callback and record_callback                          *)

\* Not revoked and not expired at the start of p's transaction.
Active(p, r) ==
    LET auth == View(p).auths[r]
    IN  auth.state = "active" /\ auth.expires > begun[p]

\* SELECT * FROM active_callback_authorization(route_id).
Resolve(p) ==
    /\ At(p, "resolve")
    /\ IF Active(p, Req(p).row.route)
       THEN /\ GoTo(p, "lock_auth")
            /\ UNCHANGED <<committed, pending, locks, open, begun, now, acked>>
       ELSE Fail(p)

\* Mutant: the lock is asked of the function, which locks no row.
SelectAuth(p) ==
    /\ At(p, "lock_auth")
    /\ IF View(p).auths[Req(p).row.route].job = Req(p).job
       THEN /\ GoTo(p, "check_dup")
            /\ UNCHANGED <<committed, pending, locks, open, begun, now, acked>>
       ELSE Fail(p)

\* SELECT ... FOR UPDATE of the authorization, which by now may be revoked,
\* and the check that the event is one of its job.
LockAuth(p) ==
    LET r == Req(p).row.route
    IN  /\ At(p, "lock_auth")
        /\ Granted(p)
        /\ IF Active(p, r) /\ View(p).auths[r].job = Req(p).job
           THEN /\ LockRow(p, r)
                /\ GoTo(p, "check_dup")
                /\ UNCHANGED <<committed, pending, open, begun, now, acked>>
           ELSE Fail(p)

CheckDuplicate(p) ==
    /\ At(p, "check_dup")
    /\ IF Recorded(View(p), Req(p).row.id)
       THEN Fail(p)
       ELSE /\ GoTo(p, "lock_job")
            /\ UNCHANGED <<committed, pending, locks, open, begun, now, acked>>

\* SELECT ... FOR UPDATE of the job, and the check of the event against the
\* status it has then.
LockJob(p) ==
    LET j == Req(p).job
    IN  /\ At(p, "lock_job")
        /\ Granted(p)
        /\ IF Req(p).row.type \in Allowed(View(p).status[j])
           THEN /\ LockRow(p, j)
                /\ GoTo(p, "insert")
                /\ UNCHANGED <<committed, pending, open, begun, now, acked>>
           ELSE Fail(p)

\* INSERT the event and UPDATE the status: an id another transaction has
\* inserted makes the INSERT wait, one it has committed makes it fail.
InsertEvent(p) ==
    LET j == Req(p).job
        row == Req(p).row
    IN  /\ At(p, "insert")
        /\ Granted(p)
        /\ IF Recorded(View(p), row.id)
           THEN Fail(p)
           ELSE /\ pending' = [pending EXCEPT
                      ![p].events[j] = Append(@, row),
                      ![p].status[j] = StatusAfter(@, row.type)]
                /\ GoTo(p, "end")
                /\ UNCHANGED <<committed, locks, open, begun, now, acked>>

-----------------------------------------------------------------------------
(* Callback authorizations, readiness and the environment                  *)

\* issue_callback_authorization: lock the job, which must not be terminal, and
\* insert an authorization that expires Ttl after the transaction's start.
Issue(p) ==
    LET j == Req(p).job
    IN  /\ At(p, "issue")
        /\ Granted(p)
        /\ IF View(p).status[j] \in {"QUEUED", "RUNNING", "PAUSED"}
           THEN /\ LockRow(p, j)
                /\ pending' = [pending EXCEPT ![p].auths[Req(p).route] =
                       [state |-> "active", job |-> j, expires |-> begun[p] + Ttl]]
                /\ GoTo(p, "end")
                /\ UNCHANGED <<committed, open, begun, now, acked>>
           ELSE Fail(p)

\* Mutant: the job is locked first, and then the authorization.
RevokeUnderJob(p) ==
    LET r == Req(p).route
        auth == View(p).auths[r]
    IN  /\ At(p, "revoke")
        /\ Granted(p)
        /\ IF auth.state # "active" THEN Fail(p)
           ELSE IF auth.job \notin locks[p]
           THEN /\ LockRow(p, auth.job)
                /\ UNCHANGED <<committed, pending, open, begun, call, now, acked>>
           ELSE /\ LockRow(p, r)
                /\ pending' = [pending EXCEPT ![p].auths[r] =
                       [auth EXCEPT !.state = "revoked"]]
                /\ GoTo(p, "end")
                /\ UNCHANGED <<committed, open, begun, now, acked>>

\* revoke_callback_authorization: an UPDATE that must hit one unrevoked row.
Revoke(p) ==
    LET r == Req(p).route
    IN  /\ At(p, "revoke")
        /\ Granted(p)
        /\ IF View(p).auths[r].state = "active"
           THEN /\ LockRow(p, r)
                /\ pending' = [pending EXCEPT ![p].auths[r] =
                       [View(p).auths[r] EXCEPT !.state = "revoked"]]
                /\ GoTo(p, "end")
                /\ UNCHANGED <<committed, open, begun, now, acked>>
           ELSE Fail(p)

\* readiness: SELECT 1 outside of transaction(), with autocommit off.
Readiness(p) ==
    /\ p \in Probed
    /\ At(p, "idle")
    /\ ~open[p]
    /\ open' = [open EXCEPT ![p] = TRUE]
    /\ begun' = [begun EXCEPT ![p] = now]
    /\ UNCHANGED <<committed, pending, locks, call, now, acked>>

\* The process dies and starts again; the server rolls its transaction back.
Crash(p) ==
    /\ pending' = [pending EXCEPT ![p] = Nothing]
    /\ locks' = [locks EXCEPT ![p] = {}]
    /\ open' = [open EXCEPT ![p] = FALSE]
    /\ call' = [call EXCEPT ![p] = Idle]
    /\ begun' = [begun EXCEPT ![p] = 0]
    /\ UNCHANGED <<committed, now, acked>>

Tick ==
    /\ now < MaxTime
    /\ now' = now + 1
    /\ UNCHANGED <<committed, pending, locks, open, begun, call, acked>>

Serve(p) ==
    \/ Resolve(p)
    \/ LockAuth(p)
    \/ CheckDuplicate(p)
    \/ LockJob(p)
    \/ InsertEvent(p)
    \/ Issue(p)
    \/ Revoke(p)
    \/ End(p)

Next ==
    \/ \E p \in Process : Begin(p) \/ Serve(p) \/ Readiness(p) \/ Crash(p)
    \/ Tick

Spec == Init /\ [][Next]_vars

\* A process goes on with a call it has begun.  The server grants a row lock
\* to those who wait for it in turn, hence strong fairness.
FairSpec == Spec /\ \A p \in Process : SF_vars(Serve(p))

-----------------------------------------------------------------------------
\* In the database, after any crash or rollback, a job's status is what its
\* event rows amount to.
StatusExplained ==
    \A j \in Jobs : committed.status[j] = StatusOf(committed.events[j])

\* What is committed and what each transaction has written, locked and read is
\* of its type, and the committed statuses agree with the committed events.
Consistent == TypeOK /\ StatusExplained

\* The committed event rows implement the ledger: however callbacks of one job
\* race through several processes, the row lock serializes check and insert.
Ledger == INSTANCE PilotLedger WITH Rows <- Row, log <- committed.events

LedgerSpec == Ledger!Spec

\* Event rows that this step commits for job j.
NewRows(j) ==
    {committed'.events[j][i] :
        i \in DOMAIN committed'.events[j] \ DOMAIN committed.events[j]}

\* Revocation is final: once it has committed, no event that came over the
\* route is committed any more, not even one that found it active before.
RevokedIsSilent ==
    [][\A j \in Jobs : \A row \in NewRows(j) :
          row.route # Direct => committed.auths[row.route].state = "active"]_vars

\* No authorization comes into being for a job that has meanwhile ended.
IssuedForLiveJob ==
    [][\A r \in Routes :
          committed.auths[r] = NoAuth /\ committed'.auths[r] # NoAuth
              => committed.status[committed'.auths[r].job] \notin Terminal]_vars

\* "Durable Postgres storage with tenant-scoped transactions"
\* (postgres_control_plane.py:39): what a method returned normally for is in
\* the database and survives the crash of any process.
AckedDurable ==
    /\ \A id \in acked.callback : Recorded(committed, id)
    /\ \A r \in acked.issue : committed.auths[r] # NoAuth
    /\ \A r \in acked.revoke : committed.auths[r].state = "revoked"

\* The route function "returns only active data" (postgres_control_plane.py:
\* 206-208): no event passes on an authorization that had expired when the
\* call began.  In a transaction that readiness() has opened now() stands still,
\* and one may pass.
ExpiredRefused ==
    \A p \in Process :
        (/\ call[p].at \in {"check_dup", "lock_job", "insert"}
         /\ Req(p).row.route # Direct)
            => call[p].since < View(p).auths[Req(p).row.route].expires

\* No deadlock: among any processes there is one that waits for none of the
\* others, as callbacks lock their authorization before their job and nobody
\* takes the two the other way round; and whoever is waited for is in a call.
NoDeadlock ==
    /\ \A S \in (SUBSET Process) \ {{}} :
           \E p \in S : \A q \in S \ {p} : ~WaitsFor(p, q)
    /\ \A p \in Process : \A q \in Process \ {p} :
           WaitsFor(p, q) => ~At(q, "idle")

\* No two calls wait for each other's row locks forever: a call that runs
\* ends, and gives the connection back.
EveryCallEnds == \A p \in Process : (call[p] # Idle) ~> (call[p] = Idle)
=============================================================================
