-------------------- MODULE PostgresControlPlane_proofs --------------------
(***************************************************************************)
(* The PostgreSQL store for any number of processes, jobs, events and      *)
(* routes: what row locks guarantee.  A connection that readiness() left   *)
(* in a transaction never commits, so that nothing but its types is needed *)
(* of it; what a call on any other connection has read under a lock still  *)
(* holds when it commits.                                                  *)
(***************************************************************************)
EXTENDS PostgresControlPlane, PilotStatus_proofs

\* p's calls are transactions of their own.
Closed(p) == ~open[p]

Busy(p) == ~At(p, "idle")

\* p's callback came over a route, and this is the route.
Routed(p) == Req(p).row.route # Direct

\* The statement p is about to execute is one of the method it is in.
InMethod(p) ==
    /\ At(p, "resolve") \/ At(p, "lock_auth") => Routed(p)
    /\ At(p, "resolve") \/ At(p, "lock_auth") \/ At(p, "check_dup")
           \/ At(p, "lock_job") \/ At(p, "insert") => Req(p).op = "callback"
    /\ At(p, "issue") => Req(p).op = "issue"
    /\ At(p, "revoke") => Req(p).op = "revoke"

\* Between statements that write, a closed connection has written nothing, and
\* nothing from before its call is left.
Rested(p) ==
    /\ Busy(p) => /\ call[p].savedWrites = Nothing
                  /\ call[p].savedLocks = {}
                  /\ call[p].since = begun[p]
    /\ ~Busy(p) => locks[p] = {}
    /\ ~At(p, "end") => pending[p] = Nothing

\* p has checked the authorization its callback came with: it is locked.
HoldsAuth(p) ==
    /\ At(p, "check_dup") \/ At(p, "lock_job") \/ At(p, "insert") \/ At(p, "end")
    /\ Req(p).op = "callback"
    /\ Routed(p)

AuthHeld(p) ==
    LET r == Req(p).row.route
    IN  /\ r \in locks[p]
        /\ committed.auths[r].state = "active"
        /\ call[p].since < committed.auths[r].expires

\* p has checked its event against the status of the job, which is locked.
HoldsJob(p) ==
    \/ At(p, "insert")
    \/ At(p, "end") /\ Req(p).op = "callback"

JobHeld(p) ==
    /\ Req(p).job \in locks[p]
    /\ Req(p).row.type \in Allowed(committed.status[Req(p).job])

\* What p is about to commit.
EventWritten(p) ==
    At(p, "end") /\ Req(p).op = "callback" =>
        /\ pending[p].events = [Nothing.events EXCEPT ![Req(p).job] = <<Req(p).row>>]
        /\ pending[p].status = [Nothing.status EXCEPT ![Req(p).job] =
                                    StatusAfter(Same, Req(p).row.type)]
        /\ pending[p].auths = Nothing.auths
        /\ ~Recorded(committed, Req(p).row.id)

AuthWritten(p) ==
    At(p, "end") /\ Req(p).op = "issue" =>
        /\ pending[p].events = Nothing.events
        /\ pending[p].status = Nothing.status
        /\ pending[p].auths = [Nothing.auths EXCEPT ![Req(p).route] =
               [state |-> "active", job |-> Req(p).job, expires |-> begun[p] + Ttl]]
        /\ Req(p).job \in locks[p]
        /\ committed.status[Req(p).job] \notin Terminal

RevocationWritten(p) ==
    LET r == Req(p).route
    IN  At(p, "end") /\ Req(p).op = "revoke" =>
            /\ pending[p].events = Nothing.events
            /\ pending[p].status = Nothing.status
            /\ pending[p].auths = [Nothing.auths EXCEPT ![r] =
                                       [committed.auths[r] EXCEPT !.state = "revoked"]]
            /\ r \in locks[p]
            /\ committed.auths[r].state = "active"

\* A route that is being issued is not in the database yet.
RouteUnused(p) ==
    Busy(p) /\ Req(p).op = "issue" => committed.auths[Req(p).route] = NoAuth

CallInv(p) ==
    /\ InMethod(p)
    /\ Closed(p) => /\ Rested(p)
                    /\ HoldsAuth(p) => AuthHeld(p)
                    /\ HoldsJob(p) => JobHeld(p)
                    /\ EventWritten(p)
                    /\ AuthWritten(p)
                    /\ RevocationWritten(p)
                    /\ RouteUnused(p)

\* Two closed connections never hold the same lock, write the same event id or
\* issue the same route.
Apart(p, q) ==
    /\ locks[p] \cap locks[q] = {}
    /\ (At(p, "end") /\ At(q, "end") /\ Req(p).op = "callback"
                 /\ Req(q).op = "callback") => Req(p).row.id # Req(q).row.id
    /\ (Busy(p) /\ Busy(q) /\ Req(p).op = "issue" /\ Req(q).op = "issue")
           => Req(p).route # Req(q).route

\* The committed rows of every job form a log, which explains its status.
LogInv ==
    \A j \in Jobs :
        /\ IsLog(committed.events[j], Row)
        /\ committed.status[j] = StatusOf(committed.events[j])

IInv ==
    /\ TypeOK
    /\ LogInv
    /\ \A p \in Process : CallInv(p)
    /\ \A p \in Process : \A q \in Process \ {p} :
           Closed(p) /\ Closed(q) => Apart(p, q)

-----------------------------------------------------------------------------
(* Types                                                                   *)

\* What the fields of a request are.
LEMMA RequestTypes ==
    ASSUME NEW r \in Request
    PROVE  /\ r.op \in {"callback", "issue", "revoke"}
           /\ r.op = "callback" => /\ r.job \in Jobs
                                   /\ r.row \in Row
                                   /\ r.row.id \in EventIds
                                   /\ r.row.type \in EventType
                                   /\ r.row.route \in Routes \cup {Direct}
           /\ r.op = "issue" => r.job \in Jobs /\ r.route \in Routes
           /\ r.op = "revoke" => r.route \in Routes
BY ReportsAssumption DEF Request, Row

\* What is known of a process that is in a call.
LEMMA BusyTypes ==
    ASSUME TypeOK, NEW p \in Process, Busy(p)
    PROVE  /\ call[p].at \in Stage
           /\ Req(p) \in Request
           /\ call[p].since \in Nat
           /\ call[p].savedWrites \in Writes
           /\ call[p].savedLocks \in SUBSET (Jobs \cup Routes)
BY DEF TypeOK, Call, Idle, Busy, At, Req

\* Going on in a call changes nothing but where it is.
LEMMA GoToFacts ==
    ASSUME TypeOK, NEW p \in Process, Busy(p), NEW stage \in Stage,
           GoTo(p, stage)
    PROVE  /\ call' \in [Process -> Call]
           /\ call'[p].at = stage
           /\ call'[p].req = call[p].req
           /\ call'[p].since = call[p].since
           /\ call'[p].savedWrites = call[p].savedWrites
           /\ call'[p].savedLocks = call[p].savedLocks
           /\ \A q \in Process \ {p} : call'[q] = call[q]
<1>1. call[p] \in [at : Stage, req : Request, since : Nat,
                   savedWrites : Writes, savedLocks : SUBSET (Jobs \cup Routes)]
  BY DEF TypeOK, Call, Idle, Busy, At
<1>2. call \in [Process -> Call]
  BY DEF TypeOK
<1>3. call'[p] = [call[p] EXCEPT !.at = stage]
  BY <1>2 DEF GoTo
<1>4. call'[p] \in Call
  BY <1>1, <1>3 DEF Call
<1>5. QED
  BY <1>1, <1>2, <1>3, <1>4 DEF GoTo

LEMMA ReturnType ==
    ASSUME TypeOK, NEW p \in Process, Return(p)
    PROVE  /\ call' \in [Process -> Call]
           /\ begun' \in [Process -> Nat]
BY DEF TypeOK, Return, Call

\* The empty transaction writes nothing.
LEMMA NothingType == Nothing \in Writes
BY DEF Nothing, Writes, Auth

LEMMA ViewType ==
    ASSUME TypeOK, NEW p \in Process
    PROVE  View(p) \in Database
<1>1. committed \in Database /\ pending[p] \in Writes
  BY DEF TypeOK
<1>2. \A j \in Jobs : committed.events[j] \o pending[p].events[j] \in Seq(Row)
  BY <1>1 DEF Database, Writes
<1>3. QED
  BY <1>1, <1>2 DEF View, Apply, Database, Writes

LEMMA FailType ==
    ASSUME TypeOK, NEW p \in Process, Busy(p), Fail(p)
    PROVE  TypeOK'
<1>1. call' \in [Process -> Call] /\ begun' \in [Process -> Nat]
  BY ReturnType DEF Fail
<1>2. pending' \in [Process -> Writes]
  BY BusyTypes, NothingType DEF Fail, TypeOK
<1>3. locks' \in [Process -> SUBSET (Jobs \cup Routes)]
  BY BusyTypes DEF Fail, TypeOK, LocksAfterFailure
<1>4. QED
  BY <1>1, <1>2, <1>3 DEF Fail, TypeOK

LEMMA LockRowFacts ==
    ASSUME TypeOK, NEW p \in Process, NEW row \in Jobs \cup Routes,
           LockRow(p, row)
    PROVE  /\ locks' \in [Process -> SUBSET (Jobs \cup Routes)]
           /\ locks'[p] = locks[p] \cup {row}
           /\ \A q \in Process \ {p} : locks'[q] = locks[q] /\ row \notin locks[q]
BY DEF TypeOK, LockRow

\* The request of a call at a statement of record_callback names a job and a
\* row, at one of issue and revoke a route.
LEMMA MethodTypes ==
    ASSUME TypeOK, NEW p \in Process, Busy(p), InMethod(p)
    PROVE  /\ At(p, "resolve") \/ At(p, "lock_auth")
                  => Req(p).row.route \in Routes
           /\ At(p, "resolve") \/ At(p, "lock_auth") \/ At(p, "check_dup")
                  \/ At(p, "lock_job") \/ At(p, "insert")
                  => /\ Req(p).job \in Jobs
                     /\ Req(p).row \in Row
                     /\ Req(p).row.type \in EventType
           /\ At(p, "issue") => Req(p).job \in Jobs /\ Req(p).route \in Routes
           /\ At(p, "revoke") => Req(p).route \in Routes
BY BusyTypes, RequestTypes DEF InMethod, Routed

\* A clean start of a call.
LEMMA BeginFacts ==
    ASSUME TypeOK, NEW p \in Process, Begin(p)
    PROVE  \E req \in Request :
               /\ req.op = "issue" => Undrawn(req.route)
               /\ call'[p].at \in Stage
               /\ call'[p].at = "resolve" =>
                      req.op = "callback" /\ req.row.route # Direct
               /\ call'[p].at = "check_dup" =>
                      req.op = "callback" /\ req.row.route = Direct
               /\ call'[p].at = "issue" => req.op = "issue"
               /\ call'[p].at = "revoke" => req.op = "revoke"
               /\ call'[p].at \in {"resolve", "check_dup", "issue", "revoke"}
               /\ call'[p].req = req
               /\ call'[p].since = now
               /\ call'[p].savedWrites = pending[p]
               /\ call'[p].savedLocks = locks[p]
               /\ call' \in [Process -> Call]
               /\ \A q \in Process \ {p} : call'[q] = call[q]
<1> DEFINE new(req) == [at |-> FirstStatement(req), req |-> req, since |-> now,
                        savedWrites |-> pending[p], savedLocks |-> locks[p]]
<1>1. PICK req \in Request :
          /\ req.op = "issue" => Undrawn(req.route)
          /\ call' = [call EXCEPT ![p] = new(req)]
  BY DEF Begin
<1> DEFINE stage == FirstStatement(req)
<1>2. /\ stage \in {"resolve", "check_dup", "issue", "revoke"}
      /\ stage = "resolve" => req.op = "callback" /\ req.row.route # Direct
      /\ stage = "check_dup" => req.op = "callback" /\ req.row.route = Direct
      /\ stage = "issue" => req.op = "issue"
      /\ stage = "revoke" => req.op = "revoke"
  BY RequestTypes DEF FirstStatement
<1>3. new(req) \in Call
  BY <1>2 DEF TypeOK, Call, Stage
<1>4. call \in [Process -> Call]
  BY DEF TypeOK
<1>5. call'[p] = new(req) /\ call' \in [Process -> Call]
      /\ \A q \in Process \ {p} : call'[q] = call[q]
  BY <1>1, <1>3, <1>4
<1>6. QED
  BY <1>1, <1>2, <1>5 DEF Stage

LEMMA BeginType ==
    ASSUME TypeOK, NEW p \in Process, Begin(p)
    PROVE  TypeOK'
<1>1. call' \in [Process -> Call]
  BY BeginFacts
<1>2. begun' \in [Process -> Nat]
  BY DEF Begin, TypeOK
<1>3. QED
  BY <1>1, <1>2 DEF Begin, TypeOK

\* The event row and the status a callback writes.
LEMMA InsertEventType ==
    ASSUME TypeOK, NEW p \in Process, Busy(p), InMethod(p), InsertEvent(p),
           ~Fail(p)
    PROVE  TypeOK'
<1> DEFINE j == Req(p).job
           row == Req(p).row
<1>1. j \in Jobs /\ row \in Row /\ row.type \in EventType
  BY MethodTypes DEF InsertEvent
<1>2. pending' = [pending EXCEPT
          ![p].events[j] = Append(@, row),
          ![p].status[j] = StatusAfter(@, row.type)]
  BY DEF InsertEvent
<1>3. pending[p] \in Writes
  BY DEF TypeOK
<1>4. Append(pending[p].events[j], row) \in Seq(Row)
  BY <1>1, <1>3 DEF Writes
<1>5. StatusAfter(pending[p].status[j], row.type) \in Status \cup {Same}
  BY <1>1, <1>3 DEF Writes, StatusAfter, Target, Status
<1>6. pending'[p] \in Writes
  <2>1. [pending[p].events EXCEPT ![j] = Append(@, row)] \in [Jobs -> Seq(Row)]
    BY <1>1, <1>3, <1>4 DEF Writes
  <2>2. [pending[p].status EXCEPT ![j] = StatusAfter(@, row.type)]
            \in [Jobs -> Status \cup {Same}]
    BY <1>1, <1>3, <1>5 DEF Writes
  <2>3. pending'[p] = [pending[p] EXCEPT
            !.events = [pending[p].events EXCEPT ![j] = Append(@, row)],
            !.status = [pending[p].status EXCEPT ![j] = StatusAfter(@, row.type)]]
    BY <1>2, <1>3 DEF TypeOK, Writes
  <2>4. QED
    BY <2>1, <2>2, <2>3, <1>3 DEF Writes
<1>7. pending' \in [Process -> Writes]
  BY <1>2, <1>6 DEF TypeOK
<1>8. call' \in [Process -> Call]
  BY GoToFacts DEF InsertEvent, Stage
<1>9. QED
  BY <1>7, <1>8 DEF InsertEvent, TypeOK

-----------------------------------------------------------------------------
(* A step of one process leaves the others what they know                  *)

\* p's call, transaction and locks stay as they are.
Untouched(p) ==
    /\ call'[p] = call[p]
    /\ pending'[p] = pending[p]
    /\ locks'[p] = locks[p]
    /\ open'[p] = open[p]
    /\ begun'[p] = begun[p]

\* Nothing is committed, and of the processes only p changes.
OnlyBy(p) ==
    /\ UNCHANGED committed
    /\ \A q \in Process \ {p} : Untouched(q)

LEMMA UntouchedKeeps ==
    ASSUME UNCHANGED committed, NEW p \in Process, Untouched(p), CallInv(p)
    PROVE  CallInv(p)'
BY DEF Untouched, CallInv, InMethod, Closed, Rested, Busy, At, Req, Routed,
       HoldsAuth, AuthHeld, HoldsJob, JobHeld, EventWritten, AuthWritten,
       RevocationWritten, RouteUnused, Recorded

\* What has to be shown of a step by which only p changes.
LEMMA StepByOne ==
    ASSUME IInv, NEW p \in Process, OnlyBy(p), TypeOK', CallInv(p)',
           \A q \in Process \ {p} :
               Closed(p)' /\ Closed(q) => Apart(p, q)'
    PROVE  IInv'
<1>1. \A q \in Process : CallInv(q)'
  BY UntouchedKeeps DEF IInv, OnlyBy
<1>2. ASSUME NEW q \in Process, NEW s \in Process \ {q},
             Closed(q)', Closed(s)'
      PROVE  Apart(q, s)'
  <2>1. CASE q = p
    BY <2>1, <1>2 DEF OnlyBy, Untouched, Closed
  <2>2. CASE s = p
    <3>1. Closed(q)
      BY <2>2, <1>2 DEF OnlyBy, Untouched, Closed
    <3>2. Apart(p, q)'
      BY <3>1, <2>2, <1>2
    <3>3. QED
      BY <3>2, <2>2 DEF Apart
  <2>3. CASE q # p /\ s # p
    <3>1. Apart(q, s)
      BY <2>3, <1>2 DEF OnlyBy, Untouched, Closed, IInv
    <3>2. QED
      BY <3>1, <2>3, <1>2 DEF OnlyBy, Untouched, Apart, At, Busy, Req
  <2>4. QED
    BY <2>1, <2>2, <2>3
<1>3. LogInv'
  BY DEF IInv, LogInv, OnlyBy
<1>4. QED
  BY <1>1, <1>2, <1>3 DEF IInv

\* An exception: the call and what it has done are gone.
LEMMA FailIInv ==
    ASSUME IInv, NEW p \in Process, Busy(p), Fail(p)
    PROVE  IInv'
<1>1. TypeOK'
  BY FailType DEF IInv
<1>2. OnlyBy(p)
  BY DEF OnlyBy, Untouched, Fail, Return, IInv, TypeOK
<1>3. call'[p] = Idle /\ open' = open
  BY DEF Fail, Return, IInv, TypeOK
<1>4. Closed(p) => pending'[p] = Nothing /\ locks'[p] = {}
  BY DEF Fail, LocksAfterFailure, Closed, IInv, TypeOK
<1>5. CallInv(p)'
  BY <1>3, <1>4 DEF CallInv, InMethod, Closed, Rested, Busy, At, Idle,
     HoldsAuth, HoldsJob, EventWritten, AuthWritten, RevocationWritten,
     RouteUnused
<1>6. ASSUME NEW q \in Process \ {p}, Closed(p)' PROVE Apart(p, q)'
  BY <1>3, <1>4, <1>6 DEF Apart, Closed, Busy, At, Idle
<1>7. QED
  BY <1>1, <1>2, <1>5, <1>6, StepByOne

\* A process that dies.
LEMMA CrashIInv ==
    ASSUME IInv, NEW p \in Process, Crash(p)
    PROVE  IInv'
<1>1. TypeOK'
  BY NothingType DEF IInv, TypeOK, Crash, Call
<1>2. OnlyBy(p)
  BY DEF OnlyBy, Untouched, Crash, IInv, TypeOK
<1>3. call'[p] = Idle /\ pending'[p] = Nothing /\ locks'[p] = {}
  BY DEF Crash, IInv, TypeOK
<1>4. CallInv(p)'
  BY <1>3 DEF CallInv, InMethod, Closed, Rested, Busy, At, Idle,
     HoldsAuth, HoldsJob, EventWritten, AuthWritten, RevocationWritten,
     RouteUnused
<1>5. \A q \in Process \ {p} : Apart(p, q)'
  BY <1>3 DEF Apart, Busy, At, Idle
<1>6. QED
  BY <1>1, <1>2, <1>4, <1>5, StepByOne

\* A readiness probe: from here on p's connection is open.
LEMMA ReadinessIInv ==
    ASSUME IInv, NEW p \in Process, Readiness(p)
    PROVE  IInv'
<1>1. TypeOK'
  BY DEF IInv, TypeOK, Readiness
<1>2. OnlyBy(p)
  BY DEF OnlyBy, Untouched, Readiness, IInv, TypeOK
<1>3. ~Closed(p)' /\ call' = call /\ CallInv(p)
  BY DEF Readiness, Closed, IInv, TypeOK
<1>4. CallInv(p)'
  BY <1>3 DEF CallInv, InMethod, Closed, At, Req, Routed
<1>5. QED
  BY <1>1, <1>2, <1>3, <1>4, StepByOne

LEMMA TickIInv ==
    ASSUME IInv, Tick
    PROVE  IInv'
<1>1. TypeOK'
  BY DEF IInv, TypeOK, Tick
<1>2. LogInv'
  BY DEF IInv, LogInv, Tick
<1>3. ASSUME NEW p \in Process PROVE CallInv(p)'
  BY UntouchedKeeps DEF Tick, IInv, Untouched
<1>4. ASSUME NEW p \in Process, NEW q \in Process \ {p}, Closed(p)', Closed(q)'
      PROVE  Apart(p, q)'
  BY <1>4 DEF Tick, IInv, Apart, Closed, Busy, At, Req
<1>5. QED
  BY <1>1, <1>2, <1>3, <1>4 DEF IInv

-----------------------------------------------------------------------------
(* The statements of a call                                                *)

\* A closed connection that has written nothing sees the last commit.
LEMMA RestedView ==
    ASSUME TypeOK, NEW p \in Process, pending[p] = Nothing
    PROVE  /\ \A j \in Jobs : /\ View(p).status[j] = committed.status[j]
                              /\ View(p).events[j] = committed.events[j]
           /\ \A r \in Routes : View(p).auths[r] = committed.auths[r]
BY DEF TypeOK, Database, View, Apply, Nothing

LEMMA BeginIInv ==
    ASSUME IInv, NEW p \in Process, Begin(p)
    PROVE  IInv'
<1>1. TypeOK'
  BY BeginType DEF IInv
<1>2. PICK req \in Request :
          /\ req.op = "issue" => Undrawn(req.route)
          /\ call'[p].at \in {"resolve", "check_dup", "issue", "revoke"}
          /\ call'[p].at = "resolve" => req.op = "callback" /\ req.row.route # Direct
          /\ call'[p].at = "check_dup" => req.op = "callback" /\ req.row.route = Direct
          /\ call'[p].at = "issue" => req.op = "issue"
          /\ call'[p].at = "revoke" => req.op = "revoke"
          /\ call'[p].req = req
          /\ call'[p].since = now
          /\ call'[p].savedWrites = pending[p]
          /\ call'[p].savedLocks = locks[p]
          /\ \A q \in Process \ {p} : call'[q] = call[q]
  BY BeginFacts DEF IInv
<1>3. /\ UNCHANGED <<committed, pending, locks, open, now>>
      /\ ~open[p] => begun'[p] = now
      /\ At(p, "idle")
      /\ \A q \in Process \ {p} : begun'[q] = begun[q]
  BY DEF Begin, IInv, TypeOK
<1>4. OnlyBy(p)
  BY <1>2, <1>3 DEF OnlyBy, Untouched
<1>5. CallInv(p)'
  <2>1. CallInv(p)
    BY DEF IInv
  <2>2. InMethod(p)'
    BY <1>2 DEF InMethod, At, Req, Routed
  <2>3. ASSUME Closed(p)'
        PROVE  /\ Rested(p)'
               /\ ~HoldsAuth(p)'
               /\ ~HoldsJob(p)'
               /\ ~At(p, "end")'
    BY <1>2, <1>3, <2>1, <2>3 DEF CallInv, Closed, Rested, Busy, At, Req,
       HoldsAuth, HoldsJob, Routed
  <2>4. RouteUnused(p)'
    BY <1>2, <1>3 DEF RouteUnused, Req, Undrawn
  <2>5. QED
    BY <2>2, <2>3, <2>4 DEF CallInv, EventWritten, AuthWritten,
       RevocationWritten
<1>6. ASSUME NEW q \in Process \ {p}, Closed(p)', Closed(q) PROVE Apart(p, q)'
  <2>1. locks'[p] \cap locks'[q] = {}
    BY <1>3, <1>6 DEF IInv, Closed, Apart
  <2>2. (Busy(q) /\ Req(q).op = "issue")' /\ call'[p].req.op = "issue"
            => call'[p].req.route # call'[q].req.route
    BY <1>2 DEF Undrawn, Issuing, Busy, At, Req
  <2>3. QED
    BY <2>1, <2>2, <1>2 DEF Apart, At, Busy, Req
<1>7. QED
  BY <1>1, <1>4, <1>5, <1>6, StepByOne

\* A statement after which the call goes on, having written nothing and
\* taken no lock.
LEMMA ReadOnly ==
    ASSUME IInv, NEW p \in Process, Busy(p), ~At(p, "issue"), ~At(p, "end"),
           ~At(p, "revoke"), ~At(p, "insert"),
           NEW stage \in {"lock_auth", "check_dup", "lock_job"},
           GoTo(p, stage),
           UNCHANGED <<committed, pending, locks, open, begun, now, acked>>,
           Closed(p) /\ HoldsAuth(p)' => AuthHeld(p),
           stage = "lock_auth" => Routed(p),
           Req(p).op = "callback"
    PROVE  IInv'
<1>1. /\ call' \in [Process -> Call]
      /\ call'[p].at = stage
      /\ call'[p].req = call[p].req
      /\ call'[p].since = call[p].since
      /\ call'[p].savedWrites = call[p].savedWrites
      /\ call'[p].savedLocks = call[p].savedLocks
      /\ \A q \in Process \ {p} : call'[q] = call[q]
  BY GoToFacts DEF IInv, Stage
<1>2. TypeOK'
  BY <1>1 DEF IInv, TypeOK
<1>3. OnlyBy(p)
  BY <1>1 DEF OnlyBy, Untouched
<1>4. CallInv(p)'
  <2>1. CallInv(p)
    BY DEF IInv
  <2>2. Closed(p)' => Rested(p)'
    BY <1>1, <2>1 DEF CallInv, Closed, Rested, Busy, At
  <2>3. Closed(p)' /\ HoldsAuth(p)' => AuthHeld(p)'
    BY <1>1 DEF AuthHeld, Closed, Req
  <2>4. QED
    BY <1>1, <2>2, <2>3 DEF CallInv, InMethod, At, Req, Routed, HoldsJob,
       EventWritten, AuthWritten, RevocationWritten, RouteUnused
<1>5. ASSUME NEW q \in Process \ {p}, Closed(p)', Closed(q) PROVE Apart(p, q)'
  BY <1>1, <1>5 DEF IInv, Closed, Apart, At, Busy, Req
<1>6. QED
  BY <1>2, <1>3, <1>4, <1>5, StepByOne

LEMMA ResolveIInv ==
    ASSUME IInv, NEW p \in Process, Resolve(p)
    PROVE  IInv'
<1>1. Busy(p) /\ InMethod(p) /\ At(p, "resolve")
  BY DEF Resolve, Busy, At, IInv, CallInv
<1>2. CASE Fail(p)
  BY <1>1, <1>2, FailIInv
<1>3. CASE ~Fail(p)
  <2>1. /\ GoTo(p, "lock_auth")
        /\ UNCHANGED <<committed, pending, locks, open, begun, now, acked>>
    BY <1>3 DEF Resolve
  <2>2. ~HoldsAuth(p)'
    BY <1>1, <2>1, GoToFacts DEF HoldsAuth, At, IInv, Stage
  <2>3. QED
    BY <1>1, <2>1, <2>2, ReadOnly DEF InMethod, At
<1>4. QED
  BY <1>2, <1>3

LEMMA CheckDuplicateIInv ==
    ASSUME IInv, NEW p \in Process, CheckDuplicate(p)
    PROVE  IInv'
<1>1. Busy(p) /\ CallInv(p) /\ At(p, "check_dup")
  BY DEF CheckDuplicate, Busy, At, IInv
<1>2. CASE Fail(p)
  BY <1>1, <1>2, FailIInv
<1>3. CASE ~Fail(p)
  <2>1. /\ GoTo(p, "lock_job")
        /\ UNCHANGED <<committed, pending, locks, open, begun, now, acked>>
    BY <1>3 DEF CheckDuplicate
  <2>2. Closed(p) /\ HoldsAuth(p)' => AuthHeld(p)
    BY <1>1, <2>1, GoToFacts DEF HoldsAuth, At, IInv, Stage, CallInv, Req, Routed
  <2>3. QED
    BY <1>1, <2>1, <2>2, ReadOnly DEF CallInv, InMethod, At
<1>4. QED
  BY <1>2, <1>3

LEMMA LockAuthIInv ==
    ASSUME IInv, NEW p \in Process, LockAuth(p)
    PROVE  IInv'
<1> DEFINE r == Req(p).row.route
<1>1. Busy(p) /\ CallInv(p) /\ At(p, "lock_auth") /\ TypeOK
  BY DEF LockAuth, Busy, At, IInv
<1>2. r \in Routes
  BY <1>1, MethodTypes DEF CallInv
<1>3. CASE Fail(p)
  BY <1>1, <1>3, FailIInv
<1>4. CASE ~Fail(p)
  <2>1. /\ Active(p, r)
        /\ LockRow(p, r)
        /\ GoTo(p, "check_dup")
        /\ UNCHANGED <<committed, pending, open, begun, now, acked>>
    BY <1>4 DEF LockAuth
  <2>2. /\ call' \in [Process -> Call]
        /\ call'[p].at = "check_dup"
        /\ call'[p].req = call[p].req
        /\ call'[p].since = call[p].since
        /\ call'[p].savedWrites = call[p].savedWrites
        /\ call'[p].savedLocks = call[p].savedLocks
        /\ \A q \in Process \ {p} : call'[q] = call[q]
    BY <1>1, <2>1, GoToFacts DEF Stage
  <2>3. /\ locks' \in [Process -> SUBSET (Jobs \cup Routes)]
        /\ locks'[p] = locks[p] \cup {r}
        /\ \A q \in Process \ {p} : locks'[q] = locks[q] /\ r \notin locks[q]
    BY <1>1, <1>2, <2>1, LockRowFacts
  <2>4. TypeOK'
    BY <1>1, <2>1, <2>2, <2>3 DEF TypeOK
  <2>5. OnlyBy(p)
    BY <2>1, <2>2, <2>3 DEF OnlyBy, Untouched
  <2>6. ASSUME Closed(p) PROVE AuthHeld(p)'
    <3>1. committed.auths[r].state = "active" /\ committed.auths[r].expires > begun[p]
      BY <1>1, <1>2, <2>1, <2>6, RestedView DEF Active, CallInv, Rested, At
    <3>2. call[p].since = begun[p]
      BY <1>1, <2>6 DEF CallInv, Rested
    <3>3. committed.auths[r].expires \in Nat /\ begun[p] \in Nat
      BY <1>1, <1>2, <3>1 DEF TypeOK, Database, Auth, NoAuth
    <3>4. QED
      BY <2>1, <2>2, <2>3, <3>1, <3>2, <3>3 DEF AuthHeld, Req
  <2>7. CallInv(p)'
    BY <1>1, <2>1, <2>2, <2>6 DEF CallInv, Closed, Rested, Busy, At, Req,
       Routed, InMethod, HoldsJob, EventWritten, AuthWritten,
       RevocationWritten, RouteUnused
  <2>8. ASSUME NEW q \in Process \ {p}, Closed(p)', Closed(q) PROVE Apart(p, q)'
    BY <1>1, <2>1, <2>2, <2>3, <2>8 DEF IInv, Closed, Apart, At, Busy, Req
  <2>9. QED
    BY <2>4, <2>5, <2>7, <2>8, StepByOne
<1>5. QED
  BY <1>3, <1>4

LEMMA LockJobIInv ==
    ASSUME IInv, NEW p \in Process, LockJob(p)
    PROVE  IInv'
<1> DEFINE j == Req(p).job
<1>1. Busy(p) /\ CallInv(p) /\ At(p, "lock_job") /\ TypeOK
  BY DEF LockJob, Busy, At, IInv
<1>2. j \in Jobs
  BY <1>1, MethodTypes DEF CallInv
<1>3. CASE Fail(p)
  BY <1>1, <1>3, FailIInv
<1>4. CASE ~Fail(p)
  <2>1. /\ Req(p).row.type \in Allowed(View(p).status[j])
        /\ LockRow(p, j)
        /\ GoTo(p, "insert")
        /\ UNCHANGED <<committed, pending, open, begun, now, acked>>
    BY <1>4 DEF LockJob
  <2>2. /\ call' \in [Process -> Call]
        /\ call'[p].at = "insert"
        /\ call'[p].req = call[p].req
        /\ call'[p].since = call[p].since
        /\ call'[p].savedWrites = call[p].savedWrites
        /\ call'[p].savedLocks = call[p].savedLocks
        /\ \A q \in Process \ {p} : call'[q] = call[q]
    BY <1>1, <2>1, GoToFacts DEF Stage
  <2>3. /\ locks' \in [Process -> SUBSET (Jobs \cup Routes)]
        /\ locks'[p] = locks[p] \cup {j}
        /\ \A q \in Process \ {p} : locks'[q] = locks[q] /\ j \notin locks[q]
    BY <1>1, <1>2, <2>1, LockRowFacts
  <2>4. TypeOK'
    BY <1>1, <2>1, <2>2, <2>3 DEF TypeOK
  <2>5. OnlyBy(p)
    BY <2>1, <2>2, <2>3 DEF OnlyBy, Untouched
  <2>6. ASSUME Closed(p) PROVE JobHeld(p)'
    <3>1. View(p).status[j] = committed.status[j]
      BY <1>1, <1>2, <2>6, RestedView DEF CallInv, Rested, At
    <3>2. QED
      BY <2>1, <2>2, <2>3, <3>1 DEF JobHeld, Req
  <2>7. Closed(p) /\ HoldsAuth(p)' => AuthHeld(p)'
    BY <1>1, <2>1, <2>2, <2>3 DEF CallInv, HoldsAuth, AuthHeld, Req, Routed, At
  <2>8. CallInv(p)'
    BY <1>1, <2>1, <2>2, <2>6, <2>7 DEF CallInv, Closed, Rested, Busy, At, Req,
       Routed, InMethod, EventWritten, AuthWritten, RevocationWritten,
       RouteUnused
  <2>9. ASSUME NEW q \in Process \ {p}, Closed(p)', Closed(q) PROVE Apart(p, q)'
    BY <1>1, <2>1, <2>2, <2>3, <2>9 DEF IInv, Closed, Apart, At, Busy, Req
  <2>10. QED
    BY <2>4, <2>5, <2>8, <2>9, StepByOne
<1>5. QED
  BY <1>3, <1>4

\* What a closed connection has written after its INSERT and UPDATE.
LEMMA InsertEventWrites ==
    ASSUME TypeOK, NEW p \in Process, Busy(p), CallInv(p), InsertEvent(p),
           ~Fail(p), Closed(p)
    PROVE  EventWritten(p)'
<1> DEFINE j == Req(p).job
           row == Req(p).row
<1>1. /\ At(p, "insert")
      /\ j \in Jobs /\ row \in Row
      /\ Req(p).op = "callback"
  BY MethodTypes DEF InsertEvent, CallInv, InMethod
<1>2. pending[p] = Nothing
  BY <1>1 DEF CallInv, Rested, At
<1>3. /\ pending' = [pending EXCEPT ![p].events[j] = Append(@, row),
                                    ![p].status[j] = StatusAfter(@, row.type)]
      /\ GoTo(p, "end")
      /\ UNCHANGED committed
      /\ ~Recorded(View(p), row.id)
  BY DEF InsertEvent
<1>4. call'[p].at = "end" /\ call'[p].req = call[p].req
  BY <1>3, GoToFacts DEF Stage
<1>5. pending'[p].events = [Nothing.events EXCEPT ![j] = Append(Nothing.events[j], row)]
  BY <1>2, <1>3 DEF TypeOK, Nothing
<1>6. pending'[p].status = [Nothing.status EXCEPT ![j] = StatusAfter(Same, row.type)]
  BY <1>1, <1>2, <1>3 DEF TypeOK, Nothing
<1>7. pending'[p].auths = Nothing.auths
  BY <1>2, <1>3 DEF TypeOK, Nothing
<1>8. Append(Nothing.events[j], row) = <<row>>
  <2>1. Nothing.events[j] = <<>>
    BY <1>1 DEF Nothing
  <2>2. Append(<<>>, row) = <<row>>
    BY <1>1
  <2>3. QED
    BY <2>1, <2>2
<1>9. ~Recorded(committed, row.id)
  BY <1>2, <1>3, RestedView DEF Recorded
<1>10. QED
  BY <1>1, <1>3, <1>4, <1>5, <1>6, <1>7, <1>8, <1>9 DEF EventWritten, Req

LEMMA InsertEventIInv ==
    ASSUME IInv, NEW p \in Process, InsertEvent(p)
    PROVE  IInv'
<1>1. Busy(p) /\ CallInv(p) /\ At(p, "insert") /\ TypeOK
  BY DEF InsertEvent, Busy, At, IInv
<1>2. CASE Fail(p)
  BY <1>1, <1>2, FailIInv
<1>3. CASE ~Fail(p)
  <2>1. TypeOK'
    BY <1>1, <1>3, InsertEventType DEF CallInv
  <2>2. /\ GoTo(p, "end")
        /\ UNCHANGED <<committed, locks, open, begun, now, acked>>
        /\ \A q \in Process \ {p} : ~Recorded(pending[q], Req(p).row.id)
        /\ \A q \in Process \ {p} : pending'[q] = pending[q]
    <3>1. \A q \in Process \ {p} : ~Recorded(pending[q], Req(p).row.id)
      BY <1>1 DEF InsertEvent, Granted, WaitsFor
    <3>2. QED
      BY <1>1, <1>3, <3>1 DEF InsertEvent, TypeOK
  <2>3. /\ call'[p].at = "end"
        /\ call'[p].req = call[p].req
        /\ call'[p].since = call[p].since
        /\ call'[p].savedWrites = call[p].savedWrites
        /\ call'[p].savedLocks = call[p].savedLocks
        /\ \A q \in Process \ {p} : call'[q] = call[q]
    BY <1>1, <2>2, GoToFacts DEF Stage
  <2>4. OnlyBy(p)
    BY <2>2, <2>3 DEF OnlyBy, Untouched
  <2>5. CallInv(p)'
    <3>1. Closed(p)' => EventWritten(p)'
      BY <1>1, <1>3, <2>2, InsertEventWrites DEF Closed
    <3>2. Req(p).op = "callback"
      BY <1>1 DEF CallInv, InMethod
    <3>3. Closed(p)' /\ HoldsAuth(p)' => AuthHeld(p)'
      BY <1>1, <2>2, <2>3 DEF CallInv, HoldsAuth, AuthHeld, Req, Routed, At,
         Closed
    <3>4. Closed(p)' /\ HoldsJob(p)' => JobHeld(p)'
      BY <1>1, <2>2, <2>3 DEF CallInv, HoldsJob, JobHeld, Req, At, Closed
    <3>5. QED
      BY <1>1, <2>2, <2>3, <3>1, <3>2, <3>3, <3>4 DEF CallInv, Closed, Rested,
         Busy, At, Req, InMethod, AuthWritten, RevocationWritten, RouteUnused
  <2>6. ASSUME NEW q \in Process \ {p}, Closed(p)', Closed(q) PROVE Apart(p, q)'
    <3>1. ASSUME At(q, "end"), Req(q).op = "callback"
          PROVE  Req(p).row.id # Req(q).row.id
      <4>1. EventWritten(q)
        BY <2>6 DEF IInv, CallInv
      <4>2. Req(q).job \in Jobs /\ Req(q).row \in Row
        BY <1>1, <3>1, BusyTypes, RequestTypes DEF Busy, At
      <4>3. pending[q].events[Req(q).job] = <<Req(q).row>>
        BY <3>1, <4>1, <4>2 DEF EventWritten, Nothing
      <4>4. Recorded(pending[q], Req(q).row.id)
        BY <4>2, <4>3 DEF Recorded
      <4>5. QED
        BY <2>2, <4>4
    <3>2. Apart(p, q)
      BY <2>2, <2>6 DEF IInv, Closed
    <3>3. Req(p).op = "callback"
      BY <1>1 DEF CallInv, InMethod
    <3>4. QED
      BY <2>2, <2>3, <3>1, <3>2, <3>3 DEF Apart, At, Busy, Req
  <2>7. QED
    BY <2>1, <2>4, <2>5, <2>6, StepByOne
<1>4. QED
  BY <1>2, <1>3

\* A statement that writes one authorization.
LEMMA AuthWriteType ==
    ASSUME TypeOK, NEW p \in Process, NEW r \in Routes, NEW auth \in Auth,
           pending' = [pending EXCEPT ![p].auths[r] = auth]
    PROVE  /\ pending' \in [Process -> Writes]
           /\ pending'[p].auths = [pending[p].auths EXCEPT ![r] = auth]
           /\ pending'[p].events = pending[p].events
           /\ pending'[p].status = pending[p].status
           /\ \A q \in Process \ {p} : pending'[q] = pending[q]
<1>1. pending[p] \in Writes /\ pending \in [Process -> Writes]
  BY DEF TypeOK
<1>2. [pending[p].auths EXCEPT ![r] = auth] \in [Routes -> Auth]
  BY <1>1 DEF Writes
<1>3. pending'[p] = [pending[p] EXCEPT !.auths = [pending[p].auths EXCEPT ![r] = auth]]
  BY <1>1 DEF Writes
<1>4. pending'[p] \in Writes
  BY <1>1, <1>2, <1>3 DEF Writes
<1>5. QED
  BY <1>1, <1>3, <1>4 DEF Writes

LEMMA IssueIInv ==
    ASSUME IInv, NEW p \in Process, Issue(p)
    PROVE  IInv'
<1> DEFINE j == Req(p).job
           r == Req(p).route
           auth == [state |-> "active", job |-> j, expires |-> begun[p] + Ttl]
<1>1. Busy(p) /\ CallInv(p) /\ At(p, "issue") /\ TypeOK
  BY DEF Issue, Busy, At, IInv
<1>2. j \in Jobs /\ r \in Routes /\ Req(p).op = "issue"
  BY <1>1, MethodTypes DEF CallInv, InMethod
<1>3. CASE Fail(p)
  BY <1>1, <1>3, FailIInv
<1>4. CASE ~Fail(p)
  <2>1. /\ View(p).status[j] \in {"QUEUED", "RUNNING", "PAUSED"}
        /\ LockRow(p, j)
        /\ pending' = [pending EXCEPT ![p].auths[r] = auth]
        /\ GoTo(p, "end")
        /\ UNCHANGED <<committed, open, begun, now, acked>>
    BY <1>4 DEF Issue
  <2>2. /\ call' \in [Process -> Call]
        /\ call'[p].at = "end"
        /\ call'[p].req = call[p].req
        /\ call'[p].since = call[p].since
        /\ call'[p].savedWrites = call[p].savedWrites
        /\ call'[p].savedLocks = call[p].savedLocks
        /\ \A q \in Process \ {p} : call'[q] = call[q]
    BY <1>1, <2>1, GoToFacts DEF Stage
  <2>3. /\ locks' \in [Process -> SUBSET (Jobs \cup Routes)]
        /\ locks'[p] = locks[p] \cup {j}
        /\ \A q \in Process \ {p} : locks'[q] = locks[q] /\ j \notin locks[q]
    BY <1>1, <1>2, <2>1, LockRowFacts
  <2>4. auth \in Auth
    BY <1>1, <1>2, TimeAssumption DEF TypeOK, Auth
  <2>5. /\ pending' \in [Process -> Writes]
        /\ pending'[p].auths = [pending[p].auths EXCEPT ![r] = auth]
        /\ pending'[p].events = pending[p].events
        /\ pending'[p].status = pending[p].status
        /\ \A q \in Process \ {p} : pending'[q] = pending[q]
    BY <1>1, <1>2, <2>1, <2>4, AuthWriteType
  <2>6. TypeOK'
    BY <1>1, <2>1, <2>2, <2>3, <2>5 DEF TypeOK
  <2>7. OnlyBy(p)
    BY <2>1, <2>2, <2>3, <2>5 DEF OnlyBy, Untouched
  <2>8. ASSUME Closed(p) PROVE AuthWritten(p)'
    <3>1. pending[p] = Nothing
      BY <1>1, <2>8 DEF CallInv, Rested, At
    <3>2. View(p).status[j] = committed.status[j]
      BY <1>1, <1>2, <3>1, RestedView
    <3>3. committed.status[j] \notin Terminal
      BY <2>1, <3>2 DEF Terminal
    <3>4. QED
      BY <2>1, <2>2, <2>3, <2>5, <3>1, <3>3 DEF AuthWritten, Req
  <2>9. CallInv(p)'
    BY <1>1, <1>2, <2>1, <2>2, <2>8 DEF CallInv, Closed, Rested, Busy, At, Req,
       InMethod, HoldsAuth, HoldsJob, EventWritten, RevocationWritten,
       RouteUnused
  <2>10. ASSUME NEW q \in Process \ {p}, Closed(p)', Closed(q) PROVE Apart(p, q)'
    BY <1>1, <1>2, <2>1, <2>2, <2>3, <2>10 DEF IInv, Closed, Apart, At, Busy, Req
  <2>11. QED
    BY <2>6, <2>7, <2>9, <2>10, StepByOne
<1>5. QED
  BY <1>3, <1>4

LEMMA RevokeIInv ==
    ASSUME IInv, NEW p \in Process, Revoke(p)
    PROVE  IInv'
<1> DEFINE r == Req(p).route
           auth == [View(p).auths[r] EXCEPT !.state = "revoked"]
<1>1. Busy(p) /\ CallInv(p) /\ At(p, "revoke") /\ TypeOK
  BY DEF Revoke, Busy, At, IInv
<1>2. r \in Routes /\ Req(p).op = "revoke"
  BY <1>1, MethodTypes DEF CallInv, InMethod
<1>3. CASE Fail(p)
  BY <1>1, <1>3, FailIInv
<1>4. CASE ~Fail(p)
  <2>1. /\ View(p).auths[r].state = "active"
        /\ LockRow(p, r)
        /\ pending' = [pending EXCEPT ![p].auths[r] = auth]
        /\ GoTo(p, "end")
        /\ UNCHANGED <<committed, open, begun, now, acked>>
    BY <1>4 DEF Revoke
  <2>2. /\ call' \in [Process -> Call]
        /\ call'[p].at = "end"
        /\ call'[p].req = call[p].req
        /\ call'[p].since = call[p].since
        /\ call'[p].savedWrites = call[p].savedWrites
        /\ call'[p].savedLocks = call[p].savedLocks
        /\ \A q \in Process \ {p} : call'[q] = call[q]
    BY <1>1, <2>1, GoToFacts DEF Stage
  <2>3. /\ locks' \in [Process -> SUBSET (Jobs \cup Routes)]
        /\ locks'[p] = locks[p] \cup {r}
        /\ \A q \in Process \ {p} : locks'[q] = locks[q] /\ r \notin locks[q]
    BY <1>1, <1>2, <2>1, LockRowFacts
  <2>4. auth \in Auth
    <3>1. View(p).auths[r] \in Auth
      BY <1>1, <1>2, ViewType DEF Database
    <3>2. View(p).auths[r] \in [state : {"active", "revoked"}, job : Jobs,
                                expires : Nat]
      BY <2>1, <3>1 DEF Auth, NoAuth
    <3>3. QED
      BY <3>2 DEF Auth
  <2>5. /\ pending' \in [Process -> Writes]
        /\ pending'[p].auths = [pending[p].auths EXCEPT ![r] = auth]
        /\ pending'[p].events = pending[p].events
        /\ pending'[p].status = pending[p].status
        /\ \A q \in Process \ {p} : pending'[q] = pending[q]
    BY <1>1, <1>2, <2>1, <2>4, AuthWriteType
  <2>6. TypeOK'
    BY <1>1, <2>1, <2>2, <2>3, <2>5 DEF TypeOK
  <2>7. OnlyBy(p)
    BY <2>1, <2>2, <2>3, <2>5 DEF OnlyBy, Untouched
  <2>8. ASSUME Closed(p) PROVE RevocationWritten(p)'
    <3>1. pending[p] = Nothing
      BY <1>1, <2>8 DEF CallInv, Rested, At
    <3>2. View(p).auths[r] = committed.auths[r]
      BY <1>1, <1>2, <3>1, RestedView
    <3>3. QED
      BY <2>1, <2>2, <2>3, <2>5, <3>1, <3>2 DEF RevocationWritten, Req
  <2>9. CallInv(p)'
    BY <1>1, <1>2, <2>1, <2>2, <2>8 DEF CallInv, Closed, Rested, Busy, At, Req,
       InMethod, HoldsAuth, HoldsJob, EventWritten, AuthWritten, RouteUnused
  <2>10. ASSUME NEW q \in Process \ {p}, Closed(p)', Closed(q) PROVE Apart(p, q)'
    BY <1>1, <1>2, <2>1, <2>2, <2>3, <2>10 DEF IInv, Closed, Apart, At, Busy, Req
  <2>11. QED
    BY <2>6, <2>7, <2>9, <2>10, StepByOne
<1>5. QED
  BY <1>3, <1>4

-----------------------------------------------------------------------------
(* COMMIT                                                                  *)

\* p's commit adds its event to the log of its job and moves its status.
EventCommitted(p) ==
    /\ committed'.events = [committed.events EXCEPT ![Req(p).job] =
                                Append(@, Req(p).row)]
    /\ committed'.status = [committed.status EXCEPT ![Req(p).job] =
                                StatusAfter(@, Req(p).row.type)]
    /\ committed'.auths = committed.auths

\* p's commit writes one authorization.
AuthCommitted(p, auth) ==
    /\ committed'.events = committed.events
    /\ committed'.status = committed.status
    /\ committed'.auths = [committed.auths EXCEPT ![Req(p).route] = auth]

LEMMA EventCommit ==
    ASSUME IInv, NEW p \in Process, At(p, "end"), Closed(p),
           Req(p).op = "callback", committed' = View(p)
    PROVE  EventCommitted(p)
<1> DEFINE j == Req(p).job
           row == Req(p).row
<1>1. j \in Jobs /\ row \in Row /\ row.type \in EventType
  BY BusyTypes, RequestTypes DEF IInv, Busy, At
<1>2. /\ pending[p].events = [Nothing.events EXCEPT ![j] = <<row>>]
      /\ pending[p].status = [Nothing.status EXCEPT ![j] =
                                  StatusAfter(Same, row.type)]
      /\ pending[p].auths = Nothing.auths
  BY DEF IInv, CallInv, EventWritten
<1>3. committed \in Database
  BY DEF IInv, TypeOK
<1>4. /\ committed'.status = [k \in Jobs |-> IF pending[p].status[k] = Same
                                             THEN committed.status[k]
                                             ELSE pending[p].status[k]]
      /\ committed'.events = [k \in Jobs |-> committed.events[k]
                                                 \o pending[p].events[k]]
      /\ committed'.auths = [r \in Routes |-> IF pending[p].auths[r] = NoAuth
                                              THEN committed.auths[r]
                                              ELSE pending[p].auths[r]]
  BY DEF View, Apply
<1>5. committed'.auths = committed.auths
  BY <1>2, <1>3, <1>4 DEF Nothing, Database
<1>6. committed'.events = [committed.events EXCEPT ![j] = Append(@, row)]
  <2>1. committed.events[j] \o <<row>> = Append(committed.events[j], row)
    BY <1>1, <1>3 DEF Database
  <2>2. \A k \in Jobs : committed.events[k] \o <<>> = committed.events[k]
    BY <1>3 DEF Database
  <2>3. \A k \in Jobs : pending[p].events[k] = IF k = j THEN <<row>> ELSE <<>>
    BY <1>1, <1>2 DEF Nothing
  <2>4. \A k \in Jobs : committed'.events[k] =
            IF k = j THEN Append(committed.events[j], row) ELSE committed.events[k]
    <3> SUFFICES ASSUME NEW k \in Jobs
                 PROVE  committed'.events[k] =
                            IF k = j THEN Append(committed.events[j], row)
                                     ELSE committed.events[k]
      OBVIOUS
    <3>1. committed'.events[k] = committed.events[k] \o pending[p].events[k]
      BY <1>4
    <3>2. CASE k = j
      BY <3>1, <3>2, <2>1, <2>3
    <3>3. CASE k # j
      BY <3>1, <3>3, <2>2, <2>3
    <3>4. QED
      BY <3>2, <3>3
  <2>5. DOMAIN committed'.events = Jobs /\ committed.events \in [Jobs -> Seq(Row)]
    BY <1>3, <1>4 DEF Database
  <2>6. committed'.events = [k \in Jobs |-> committed'.events[k]]
    BY <1>4
  <2>7. QED
    BY <1>1, <2>4, <2>5, <2>6
<1>7. committed'.status = [committed.status EXCEPT ![j] = StatusAfter(@, row.type)]
  <2>1. StatusAfter(Same, row.type) =
            IF row.type \in Moves THEN Target(row.type) ELSE Same
    BY DEF StatusAfter
  <2>2. Target(row.type) # Same
    BY DEF Target, Same
  <2>3. \A k \in Jobs \ {j} : pending[p].status[k] = Same
    BY <1>1, <1>2 DEF Nothing
  <2>4. pending[p].status[j] = StatusAfter(Same, row.type)
    BY <1>1, <1>2 DEF Nothing
  <2>5. QED
    BY <1>1, <1>3, <1>4, <2>1, <2>2, <2>3, <2>4 DEF Database, StatusAfter
<1>8. QED
  BY <1>5, <1>6, <1>7 DEF EventCommitted

LEMMA AuthCommit ==
    ASSUME IInv, NEW p \in Process, At(p, "end"), Closed(p),
           committed' = View(p), NEW auth \in Auth, auth # NoAuth,
           Req(p).route \in Routes,
           pending[p].events = Nothing.events,
           pending[p].status = Nothing.status,
           pending[p].auths = [Nothing.auths EXCEPT ![Req(p).route] = auth]
    PROVE  AuthCommitted(p, auth)
<1>1. committed \in Database
  BY DEF IInv, TypeOK
<1>2. /\ committed'.status = [k \in Jobs |-> IF pending[p].status[k] = Same
                                             THEN committed.status[k]
                                             ELSE pending[p].status[k]]
      /\ committed'.events = [k \in Jobs |-> committed.events[k]
                                                 \o pending[p].events[k]]
      /\ committed'.auths = [r \in Routes |-> IF pending[p].auths[r] = NoAuth
                                              THEN committed.auths[r]
                                              ELSE pending[p].auths[r]]
  BY DEF View, Apply
<1>3. committed'.status = committed.status
  BY <1>1, <1>2 DEF Nothing, Database
<1>4. committed'.events = committed.events
  <2>1. \A k \in Jobs : committed.events[k] \o <<>> = committed.events[k]
    BY <1>1 DEF Database
  <2>2. \A k \in Jobs : pending[p].events[k] = <<>>
    BY DEF Nothing
  <2>3. ASSUME NEW k \in Jobs PROVE committed'.events[k] = committed.events[k]
    <3>1. committed'.events[k] = committed.events[k] \o pending[p].events[k]
      BY <1>2
    <3>2. QED
      BY <3>1, <2>1, <2>2
  <2>4. committed'.events = [k \in Jobs |-> committed'.events[k]]
    BY <1>2
  <2>5. committed.events = [k \in Jobs |-> committed.events[k]]
    BY <1>1 DEF Database
  <2>6. QED
    BY <2>3, <2>4, <2>5
<1>5. committed'.auths = [committed.auths EXCEPT ![Req(p).route] = auth]
  BY <1>1, <1>2 DEF Nothing, Database
<1>6. QED
  BY <1>3, <1>4, <1>5 DEF AuthCommitted

\* The three commits there are.
LEMMA CommitFacts ==
    ASSUME IInv, NEW p \in Process, At(p, "end"), Closed(p), committed' = View(p)
    PROVE  \/ Req(p).op = "callback" /\ EventCommitted(p)
           \/ /\ Req(p).op = "issue"
              /\ AuthCommitted(p, [state |-> "active", job |-> Req(p).job,
                                   expires |-> begun[p] + Ttl])
           \/ /\ Req(p).op = "revoke"
              /\ AuthCommitted(p, [committed.auths[Req(p).route] EXCEPT
                                       !.state = "revoked"])
<1>1. /\ Req(p) \in Request
      /\ CallInv(p)
      /\ TypeOK
  BY BusyTypes DEF IInv, Busy, At
<1>2. CASE Req(p).op = "callback"
  BY <1>2, EventCommit
<1>3. CASE Req(p).op = "issue"
  <2> DEFINE auth == [state |-> "active", job |-> Req(p).job,
                      expires |-> begun[p] + Ttl]
  <2>1. Req(p).route \in Routes /\ Req(p).job \in Jobs
    BY <1>1, <1>3, RequestTypes
  <2>2. auth \in Auth /\ auth # NoAuth
    BY <1>1, <2>1, TimeAssumption DEF TypeOK, Auth, NoAuth
  <2>3. AuthCommitted(p, auth)
    BY <1>1, <1>3, <2>1, <2>2, AuthCommit DEF CallInv, AuthWritten
  <2>4. QED
    BY <1>3, <2>3
<1>4. CASE Req(p).op = "revoke"
  <2> DEFINE r == Req(p).route
             auth == [committed.auths[r] EXCEPT !.state = "revoked"]
  <2>1. r \in Routes
    BY <1>1, <1>4, RequestTypes
  <2>2. committed.auths[r].state = "active"
    BY <1>1, <1>4 DEF CallInv, RevocationWritten
  <2>3. committed.auths[r] \in [state : {"active", "revoked"}, job : Jobs,
                                expires : Nat]
    BY <1>1, <2>1, <2>2 DEF TypeOK, Database, Auth, NoAuth
  <2>4. auth \in Auth /\ auth # NoAuth
    BY <2>3 DEF Auth, NoAuth
  <2>5. AuthCommitted(p, auth)
    BY <1>1, <1>4, <2>1, <2>4, AuthCommit DEF CallInv, RevocationWritten
  <2>6. QED
    BY <1>4, <2>5
<1>5. QED
  BY <1>1, <1>2, <1>3, <1>4, RequestTypes

\* A commit changes what its transaction has locked, and a new route.
LEMMA CommitTouches ==
    ASSUME IInv, NEW p \in Process, At(p, "end"), Closed(p), committed' = View(p)
    PROVE  /\ \A j \in Jobs :
                  committed'.status[j] # committed.status[j] => j \in locks[p]
           /\ \A r \in Routes : committed'.auths[r] # committed.auths[r] =>
                  \/ r \in locks[p] /\ committed.auths[r].state = "active"
                  \/ /\ Req(p).op = "issue"
                     /\ r = Req(p).route
                     /\ committed.auths[r] = NoAuth
           /\ Req(p).op # "callback" => committed'.events = committed.events
<1>1. TypeOK /\ CallInv(p) /\ Req(p) \in Request
  BY BusyTypes DEF IInv, Busy, At
<1>2. committed \in Database
  BY <1>1 DEF TypeOK
<1>3. CASE Req(p).op = "callback"
  <2>1. EventCommitted(p)
    BY <1>3, CommitFacts
  <2>2. Req(p).job \in locks[p]
    BY <1>1, <1>3 DEF CallInv, HoldsJob, JobHeld
  <2>3. QED
    BY <1>2, <1>3, <2>1, <2>2 DEF EventCommitted, Database
<1>4. CASE Req(p).op = "issue"
  <2>1. PICK auth : AuthCommitted(p, auth)
    BY <1>4, CommitFacts
  <2>2. committed.auths[Req(p).route] = NoAuth
    BY <1>1, <1>4 DEF CallInv, RouteUnused, Busy, At
  <2>3. QED
    BY <1>2, <1>4, <2>1, <2>2 DEF AuthCommitted, Database
<1>5. CASE Req(p).op = "revoke"
  <2>1. PICK auth : AuthCommitted(p, auth)
    BY <1>5, CommitFacts
  <2>2. Req(p).route \in locks[p] /\ committed.auths[Req(p).route].state = "active"
    BY <1>1, <1>5 DEF CallInv, RevocationWritten
  <2>3. QED
    BY <1>2, <1>5, <2>1, <2>2 DEF AuthCommitted, Database
<1>6. QED
  BY <1>1, <1>3, <1>4, <1>5, RequestTypes

\* What a call on another closed connection knows outlives p's commit.
LEMMA CommitKeeps ==
    ASSUME IInv, NEW p \in Process, At(p, "end"), Closed(p), committed' = View(p),
           NEW q \in Process \ {p}, Untouched(q)
    PROVE  CallInv(q)'
<1>1. TypeOK /\ CallInv(p) /\ CallInv(q)
  BY DEF IInv
<1>2. CASE ~Closed(q)
  BY <1>1, <1>2 DEF Untouched, CallInv, InMethod, Closed, At, Req, Routed
<1>3. CASE Closed(q)
  <2>1. Apart(p, q)
    BY <1>3 DEF IInv
  <2>2. InMethod(q)' /\ Rested(q)'
    BY <1>1, <1>3 DEF Untouched, CallInv, InMethod, Closed, At, Req, Routed,
       Rested, Busy
  <2>3. Busy(q) => Req(q) \in Request
    BY <1>1, BusyTypes
  <2>4. Req(p) \in Request
    BY <1>1, BusyTypes DEF Busy, At
  <2>5. ASSUME NEW r \in Routes, r \in locks[q], committed.auths[r].state = "active"
        PROVE  committed'.auths[r] = committed.auths[r]
    <3>1. r \notin locks[p] /\ committed.auths[r] # NoAuth
      BY <2>1, <2>5 DEF Apart, NoAuth
    <3>2. QED
      BY <3>1, CommitTouches
  <2>6. ASSUME NEW j \in Jobs, j \in locks[q]
        PROVE  committed'.status[j] = committed.status[j]
    <3>1. j \notin locks[p]
      BY <2>1, <2>6 DEF Apart
    <3>2. QED
      BY <3>1, CommitTouches
  <2>7. HoldsAuth(q)' => AuthHeld(q)'
    <3>1. ASSUME HoldsAuth(q)
          PROVE  Req(q).row.route \in Routes
      BY <2>3, <3>1, RequestTypes DEF HoldsAuth, Busy, At, Routed
    <3>2. QED
      BY <1>1, <1>3, <2>5, <3>1 DEF Untouched, CallInv, HoldsAuth, AuthHeld, At,
         Req, Routed
  <2>8. HoldsJob(q)' => JobHeld(q)'
    <3>1. ASSUME HoldsJob(q)
          PROVE  Req(q).job \in Jobs
      BY <1>1, <2>3, <3>1, RequestTypes DEF HoldsJob, Busy, At, CallInv, InMethod
    <3>2. QED
      BY <1>1, <1>3, <2>6, <3>1 DEF Untouched, CallInv, HoldsJob, JobHeld, At, Req
  <2>9. EventWritten(q)'
    <3>1. ASSUME At(q, "end"), Req(q).op = "callback"
          PROVE  ~Recorded(committed', Req(q).row.id)
      <4>1. ~Recorded(committed, Req(q).row.id)
        BY <1>1, <1>3, <3>1 DEF CallInv, EventWritten
      <4>2. CASE Req(p).op = "callback"
        <5> DEFINE j == Req(p).job
                   row == Req(p).row
        <5>1. j \in Jobs /\ row \in Row
          BY <2>4, <4>2, RequestTypes
        <5>2. committed'.events = [committed.events EXCEPT ![j] = Append(@, row)]
          BY <4>2, CommitFacts DEF EventCommitted
        <5>3. row.id # Req(q).row.id
          BY <2>1, <3>1, <4>2 DEF Apart
        <5>4. committed.events \in [Jobs -> Seq(Row)]
          BY <1>1 DEF TypeOK, Database
        <5>5. ASSUME NEW k \in Jobs, NEW i \in DOMAIN committed'.events[k]
              PROVE  \/ committed'.events[k][i] = row
                     \/ /\ i \in DOMAIN committed.events[k]
                        /\ committed'.events[k][i] = committed.events[k][i]
          <6>1. CASE k # j
            BY <5>2, <5>4, <5>5, <6>1
          <6>2. CASE k = j
            <7>1. committed'.events[k] = Append(committed.events[k], row)
              BY <5>1, <5>2, <5>4, <6>2
            <7>2. QED
              BY <5>1, <5>4, <5>5, <7>1, AppendFacts
          <6>3. QED
            BY <6>1, <6>2
        <5>6. QED
          BY <4>1, <5>3, <5>5 DEF Recorded
      <4>3. CASE Req(p).op # "callback"
        BY <4>1, <4>3, CommitTouches DEF Recorded
      <4>4. QED
        BY <4>2, <4>3
    <3>2. QED
      BY <1>1, <1>3, <3>1 DEF Untouched, CallInv, EventWritten, At, Req
  <2>10. AuthWritten(q)'
    <3>1. ASSUME At(q, "end"), Req(q).op = "issue"
          PROVE  Req(q).job \in Jobs
      BY <2>3, <3>1, RequestTypes DEF Busy, At
    <3>2. QED
      BY <1>1, <1>3, <2>6, <3>1 DEF Untouched, CallInv, AuthWritten, At, Req
  <2>11. RevocationWritten(q)'
    <3>1. ASSUME At(q, "end"), Req(q).op = "revoke"
          PROVE  Req(q).route \in Routes
      BY <2>3, <3>1, RequestTypes DEF Busy, At
    <3>2. QED
      BY <1>1, <1>3, <2>5, <3>1 DEF Untouched, CallInv, RevocationWritten, At, Req
  <2>12. RouteUnused(q)'
    <3>1. ASSUME Busy(q), Req(q).op = "issue"
          PROVE  committed'.auths[Req(q).route] = committed.auths[Req(q).route]
      <4>1. committed.auths[Req(q).route] = NoAuth /\ Req(q).route \in Routes
        BY <1>1, <1>3, <2>3, <3>1, RequestTypes DEF CallInv, RouteUnused
      <4>2. committed.auths[Req(q).route].state # "active"
        BY <4>1 DEF NoAuth
      <4>3. Req(p).op = "issue" => Req(p).route # Req(q).route
        BY <2>1, <3>1 DEF Apart, Busy, At
      <4>4. QED
        BY <4>1, <4>2, <4>3, CommitTouches
    <3>2. QED
      BY <1>1, <1>3, <3>1 DEF Untouched, CallInv, RouteUnused, Busy, At, Req
  <2>13. QED
    BY <2>2, <2>7, <2>8, <2>9, <2>10, <2>11, <2>12 DEF CallInv
<1>4. QED
  BY <1>2, <1>3

LEMMA RowsTyped == \A r \in Row : r.type \in EventType
BY ReportsAssumption DEF Row

\* A commit keeps the log of every job a log that explains its status.
LEMMA CommitLogInv ==
    ASSUME IInv, NEW p \in Process, At(p, "end"), Closed(p), committed' = View(p)
    PROVE  LogInv'
<1>1. TypeOK /\ LogInv /\ CallInv(p) /\ Req(p) \in Request
  BY BusyTypes DEF IInv, Busy, At
<1>2. committed \in Database
  BY <1>1 DEF TypeOK
<1>3. CASE Req(p).op = "callback"
  <2> DEFINE j == Req(p).job
             row == Req(p).row
  <2>1. j \in Jobs /\ row \in Row
    BY <1>1, <1>3, RequestTypes
  <2>2. EventCommitted(p)
    BY <1>3, CommitFacts
  <2>3. /\ committed'.events[j] = Append(committed.events[j], row)
        /\ committed'.status[j] = StatusAfter(committed.status[j], row.type)
        /\ \A k \in Jobs \ {j} : /\ committed'.events[k] = committed.events[k]
                                 /\ committed'.status[k] = committed.status[k]
    BY <1>2, <2>1, <2>2 DEF EventCommitted, Database
  <2>4. /\ IsLog(committed'.events[j], Row)
        /\ committed'.status[j] = StatusOf(committed'.events[j])
    BY <1>1, <2>1, <2>3, StatusOfAppend DEF LogInv
  <2>5. QED
    BY <1>1, <2>3, <2>4 DEF LogInv
<1>4. CASE Req(p).op # "callback"
  <2>1. committed'.events = committed.events /\ committed'.status = committed.status
    BY <1>4, CommitFacts DEF AuthCommitted
  <2>2. QED
    BY <1>1, <2>1 DEF LogInv
<1>5. QED
  BY <1>3, <1>4

\* The history variable keeps its type.
LEMMA AckedType ==
    ASSUME TypeOK, NEW p \in Process, End(p)
    PROVE  acked' \in [callback : SUBSET EventIds, issue : SUBSET Routes,
                       revoke : SUBSET Routes]
<1>1. Req(p) \in Request
  BY BusyTypes DEF End, Busy, At
<1>2. acked \in [callback : SUBSET EventIds, issue : SUBSET Routes,
                 revoke : SUBSET Routes]
  BY DEF TypeOK
<1>3. CASE Req(p).op = "callback"
  BY <1>1, <1>2, <1>3, RequestTypes DEF End
<1>4. CASE Req(p).op = "issue"
  BY <1>1, <1>2, <1>4, RequestTypes DEF End
<1>5. CASE Req(p).op = "revoke"
  BY <1>1, <1>2, <1>5, RequestTypes DEF End
<1>6. QED
  BY <1>1, <1>3, <1>4, <1>5, RequestTypes

LEMMA EndIInv ==
    ASSUME IInv, NEW p \in Process, End(p)
    PROVE  IInv'
<1>1. TypeOK /\ CallInv(p) /\ At(p, "end") /\ Busy(p)
  BY DEF End, Busy, At, IInv
<1>2. /\ call' = [call EXCEPT ![p] = Idle]
      /\ begun' = [begun EXCEPT ![p] = IF open[p] THEN @ ELSE 0]
      /\ UNCHANGED <<open, now>>
  BY DEF End, Return
<1>3. /\ call' \in [Process -> Call]
      /\ begun' \in [Process -> Nat]
      /\ call'[p] = Idle
      /\ \A q \in Process \ {p} : call'[q] = call[q] /\ begun'[q] = begun[q]
  BY <1>1, <1>2 DEF TypeOK, Call
<1>4. acked' \in [callback : SUBSET EventIds, issue : SUBSET Routes,
                  revoke : SUBSET Routes]
  BY <1>1, AckedType
<1>5. CASE open[p]
  <2>1. UNCHANGED <<committed, pending, locks>>
    BY <1>5 DEF End
  <2>2. TypeOK'
    BY <1>1, <1>2, <1>3, <1>4, <2>1 DEF TypeOK
  <2>3. OnlyBy(p)
    BY <1>2, <1>3, <2>1 DEF OnlyBy, Untouched
  <2>4. ~Closed(p)' /\ CallInv(p)'
    BY <1>2, <1>3, <1>5 DEF CallInv, Closed, InMethod, At, Idle
  <2>5. QED
    BY <2>2, <2>3, <2>4, StepByOne
<1>6. CASE ~open[p]
  <2>1. /\ committed' = View(p)
        /\ pending' = [pending EXCEPT ![p] = Nothing]
        /\ locks' = [locks EXCEPT ![p] = {}]
        /\ Closed(p)
    BY <1>6 DEF End, Closed
  <2>2. /\ pending' \in [Process -> Writes]
        /\ pending'[p] = Nothing
        /\ locks' \in [Process -> SUBSET (Jobs \cup Routes)]
        /\ locks'[p] = {}
        /\ \A q \in Process \ {p} : /\ pending'[q] = pending[q]
                                    /\ locks'[q] = locks[q]
    BY <1>1, <2>1, NothingType DEF TypeOK
  <2>3. TypeOK'
    BY <1>1, <1>2, <1>3, <1>4, <2>1, <2>2, ViewType DEF TypeOK
  <2>4. \A q \in Process \ {p} : Untouched(q)
    BY <1>2, <1>3, <2>2 DEF Untouched
  <2>5. \A q \in Process \ {p} : CallInv(q)'
    BY <1>1, <2>1, <2>4, CommitKeeps
  <2>6. CallInv(p)'
    BY <1>3, <2>2 DEF CallInv, InMethod, Closed, Rested, Busy, At, Idle,
       HoldsAuth, HoldsJob, EventWritten, AuthWritten, RevocationWritten,
       RouteUnused
  <2>7. ASSUME NEW q \in Process, NEW s \in Process \ {q}, Closed(q)', Closed(s)'
        PROVE  Apart(q, s)'
    <3>1. CASE q = p \/ s = p
      BY <1>3, <2>2, <3>1 DEF Apart, Busy, At, Idle
    <3>2. CASE q # p /\ s # p
      <4>1. Apart(q, s)
        BY <1>2, <2>7 DEF IInv, Closed
      <4>2. QED
        BY <2>4, <3>2, <4>1 DEF Untouched, Apart, At, Busy, Req
    <3>3. QED
      BY <3>1, <3>2
  <2>8. LogInv'
    BY <1>1, <2>1, CommitLogInv
  <2>9. QED
    BY <2>3, <2>5, <2>6, <2>7, <2>8 DEF IInv
<1>7. QED
  BY <1>5, <1>6

-----------------------------------------------------------------------------
(* The invariant                                                           *)

LEMMA InitIInv == Init => IInv
<1> SUFFICES ASSUME Init PROVE IInv
  OBVIOUS
<1>1. committed \in Database
  BY DEF Init, Database, Auth, Status
<1>2. TypeOK
  BY <1>1, NothingType DEF Init, TypeOK, Connected, Call
<1>3. LogInv
  BY EmptyLog, RowsTyped DEF Init, LogInv
<1>4. \A p \in Process : CallInv(p)
  BY DEF Init, CallInv, InMethod, Rested, Busy, At, Idle, HoldsAuth, HoldsJob,
     EventWritten, AuthWritten, RevocationWritten, RouteUnused
<1>5. \A p, q \in Process : Apart(p, q)
  BY DEF Init, Apart, Busy, At, Idle
<1>6. QED
  BY <1>2, <1>3, <1>4, <1>5 DEF IInv

LEMMA NextIInv == IInv /\ [Next]_vars => IInv'
<1> SUFFICES ASSUME IInv, [Next]_vars PROVE IInv'
  OBVIOUS
<1>1. CASE UNCHANGED vars
  <2>1. UNCHANGED committed /\ \A p \in Process : Untouched(p)
    BY <1>1 DEF vars, Untouched
  <2>2. TypeOK' /\ LogInv'
    BY <1>1 DEF IInv, TypeOK, LogInv, vars
  <2>3. \A p \in Process : CallInv(p)'
    BY <2>1, UntouchedKeeps DEF IInv
  <2>4. ASSUME NEW p \in Process, NEW q \in Process \ {p}, Closed(p)', Closed(q)'
        PROVE  Apart(p, q)'
    <3>1. Apart(p, q)
      BY <2>1, <2>4 DEF IInv, Closed, Untouched
    <3>2. QED
      BY <2>1, <2>4, <3>1 DEF Untouched, Apart, At, Busy, Req
  <2>5. QED
    BY <2>2, <2>3, <2>4 DEF IInv
<1>2. ASSUME NEW p \in Process, Serve(p) PROVE IInv'
  BY <1>2, ResolveIInv, LockAuthIInv, CheckDuplicateIInv, LockJobIInv,
     InsertEventIInv, IssueIInv, RevokeIInv, EndIInv DEF Serve
<1>3. QED
  BY <1>1, <1>2, BeginIInv, ReadinessIInv, CrashIInv, TickIInv DEF Next

LEMMA AlwaysIInv == Spec => []IInv
BY InitIInv, NextIInv, PTL DEF Spec

\* What is committed, written, locked and read is of its type, and in the
\* database, whatever crashed or was rolled back, a job's status is what its
\* event rows amount to.
THEOREM DatabaseConsistent == Spec => []Consistent
<1>1. IInv => Consistent
  BY DEF IInv, LogInv, Consistent, StatusExplained
<1>2. QED
  BY <1>1, AlwaysIInv, PTL

-----------------------------------------------------------------------------
(* What a commit may do                                                    *)

\* A step that changes the database is the commit of a closed connection.
LEMMA OnlyEndCommits ==
    ASSUME IInv, [Next]_vars, committed' # committed
    PROVE  \E p \in Process : End(p) /\ Closed(p) /\ committed' = View(p)
<1>1. \A p \in Process : Fail(p) => committed' = committed
  BY DEF Fail
<1>2. PICK p \in Process : End(p)
  BY <1>1 DEF Next, vars, Tick, Begin, Readiness, Crash, Serve, Resolve,
     LockAuth, CheckDuplicate, LockJob, InsertEvent, Issue, Revoke
<1>3. QED
  BY <1>2 DEF End, Closed

\* The ledger's tables are this module's.
LEMMA SameTables ==
    /\ \A s : Ledger!Allowed(s) = Allowed(s)
    /\ \A rows : Ledger!StatusOf(rows) = StatusOf(rows)
BY Zenon DEF Ledger!Allowed, Ledger!Pausing, Ledger!StatusOf, Ledger!MovesIn,
       Ledger!LastMove, Ledger!Target, Ledger!Moves, Allowed, Pausing,
       StatusOf, MovesIn, LastMove, Target, Moves

\* The committed event rows implement the ledger, for any number of processes,
\* jobs and events: the row lock that record_callback takes before it checks
\* an event still protects the check when the event commits.
THEOREM ImplementsLedger == Spec => LedgerSpec
<1>1. Init => Ledger!Init
  BY DEF Init, Ledger!Init
<1>2. ASSUME IInv, [Next]_vars, committed'.events # committed.events
      PROVE  Ledger!Next
  <2>1. PICK p \in Process : End(p) /\ Closed(p) /\ committed' = View(p)
    BY <1>2, OnlyEndCommits
  <2>2. At(p, "end") /\ CallInv(p) /\ Req(p) \in Request
    BY <1>2, <2>1, BusyTypes DEF End, IInv, Busy, At
  <2>3. Req(p).op = "callback" /\ EventCommitted(p)
    BY <1>2, <2>1, <2>2, CommitFacts DEF AuthCommitted
  <2> DEFINE j == Req(p).job
             row == Req(p).row
  <2>4. j \in Jobs /\ row \in Row
    BY <2>2, <2>3, RequestTypes
  <2>5. Ledger!Fresh(row.id)
    BY <2>1, <2>2, <2>3 DEF CallInv, EventWritten, Recorded, Ledger!Fresh
  <2>6. row.type \in Ledger!Allowed(Ledger!StatusOf(committed.events[j]))
    <3>1. row.type \in Allowed(committed.status[j])
      BY <2>1, <2>2, <2>3 DEF CallInv, HoldsJob, JobHeld
    <3>2. committed.status[j] = StatusOf(committed.events[j])
      BY <1>2, <2>4 DEF IInv, LogInv
    <3>3. QED
      BY <3>1, <3>2, SameTables
  <2>7. committed'.events = [committed.events EXCEPT ![j] = Append(@, row)]
    BY <2>3 DEF EventCommitted
  <2>8. QED
    BY <2>4, <2>5, <2>6, <2>7 DEF Ledger!Next, Ledger!Accept
<1>3. IInv /\ [Next]_vars => Ledger!Next \/ UNCHANGED committed.events
  BY <1>2
<1>4. QED
  BY <1>1, <1>3, AlwaysIInv, PTL DEF Spec, LedgerSpec, Ledger!Spec

\* Revocation is final, for any number of processes and routes: an event that
\* came over a route is committed only while the route is active.
THEOREM RevocationIsFinal == Spec => RevokedIsSilent
<1> DEFINE Silent == \A j \in Jobs : \A row \in NewRows(j) :
               row.route # Direct => committed.auths[row.route].state = "active"
<1>1. ASSUME IInv, Next, NEW j \in Jobs, NEW row \in NewRows(j), row.route # Direct
      PROVE  committed.auths[row.route].state = "active"
  <2>1. committed'.events # committed.events
    BY <1>1 DEF NewRows
  <2>2. PICK p \in Process : End(p) /\ Closed(p) /\ committed' = View(p)
    BY <1>1, <2>1, OnlyEndCommits
  <2>3. At(p, "end") /\ CallInv(p) /\ Req(p) \in Request
    BY <1>1, <2>2, BusyTypes DEF End, IInv, Busy, At
  <2>4. Req(p).op = "callback" /\ EventCommitted(p)
    BY <1>1, <2>1, <2>2, <2>3, CommitFacts DEF AuthCommitted
  <2>5. row = Req(p).row
    <3>1. Req(p).job \in Jobs /\ Req(p).row \in Row
      BY <2>3, <2>4, RequestTypes
    <3>2. committed.events \in [Jobs -> Seq(Row)]
      BY <1>1 DEF IInv, TypeOK, Database
    <3>3. PICK i \in DOMAIN committed'.events[j] \ DOMAIN committed.events[j] :
              row = committed'.events[j][i]
      BY <1>1 DEF NewRows
    <3>4. j = Req(p).job
      BY <2>4, <3>2, <3>3 DEF EventCommitted
    <3>5. committed'.events[j] = Append(committed.events[j], Req(p).row)
      BY <2>4, <3>1, <3>2, <3>4 DEF EventCommitted
    <3>6. QED
      BY <3>1, <3>2, <3>3, <3>5, AppendFacts
  <2>6. QED
    BY <1>1, <2>2, <2>3, <2>4, <2>5 DEF CallInv, HoldsAuth, AuthHeld, Routed
<1>2. IInv /\ [Next]_vars => [Silent]_vars
  BY <1>1
<1>3. QED
  BY <1>2, AlwaysIInv, PTL DEF Spec, RevokedIsSilent

\* No authorization comes into being for a job that has meanwhile ended: the
\* job is locked from the check of its status to the commit.
THEOREM AuthorizationsAreForLiveJobs == Spec => IssuedForLiveJob
<1> DEFINE Live == \A r \in Routes :
               committed.auths[r] = NoAuth /\ committed'.auths[r] # NoAuth
                   => committed.status[committed'.auths[r].job] \notin Terminal
<1>1. ASSUME IInv, Next, NEW r \in Routes, committed.auths[r] = NoAuth,
             committed'.auths[r] # NoAuth
      PROVE  committed.status[committed'.auths[r].job] \notin Terminal
  <2>1. PICK p \in Process : End(p) /\ Closed(p) /\ committed' = View(p)
    BY <1>1, OnlyEndCommits
  <2>2. At(p, "end") /\ CallInv(p)
    BY <1>1, <2>1 DEF End, IInv
  <2>3. Req(p).op = "issue" /\ r = Req(p).route
    BY <1>1, <2>1, <2>2, CommitTouches DEF NoAuth
  <2>4. AuthCommitted(p, [state |-> "active", job |-> Req(p).job,
                          expires |-> begun[p] + Ttl])
    BY <1>1, <2>1, <2>2, <2>3, CommitFacts
  <2>5. committed'.auths[r].job = Req(p).job
    BY <1>1, <2>3, <2>4 DEF AuthCommitted, IInv, TypeOK, Database
  <2>6. QED
    BY <2>1, <2>2, <2>3, <2>5 DEF CallInv, AuthWritten
<1>2. IInv /\ [Next]_vars => [Live]_vars
  BY <1>1
<1>3. QED
  BY <1>2, AlwaysIInv, PTL DEF Spec, IssuedForLiveJob

-----------------------------------------------------------------------------
(* What the committed rows amount to                                       *)

LEMMA SameOrder == \A rows : Ledger!WellOrdered(rows) <=> WellOrdered(rows)
BY Zenon DEF Ledger!WellOrdered, Ledger!Pausing, Ledger!Allowed, WellOrdered,
       Pausing, Allowed

LEMMA LedgerNext ==
    ASSUME Promises(committed.events, Jobs, Row), [Ledger!Next]_(committed.events)
    PROVE  Promises(committed.events, Jobs, Row)'
<1>1. CASE UNCHANGED committed.events
  BY <1>1 DEF Promises, OnceIn
<1>2. ASSUME NEW j \in Jobs, NEW r \in Row, Ledger!Accept(j, r)
      PROVE  Promises(committed'.events, Jobs, Row)
  <2>1. /\ committed.events \in [Jobs -> Seq(Row)]
        /\ committed'.events = [committed.events EXCEPT ![j] = Append(@, r)]
    BY <1>2 DEF Ledger!Accept, Promises
  <2>2. /\ committed'.events \in [Jobs -> Seq(Row)]
        /\ IsAppended(committed'.events, committed.events, Jobs, j, r)
    BY <2>1 DEF IsAppended
  <2>3. \A k \in Jobs : \A i \in DOMAIN committed.events[k] :
            committed.events[k][i].id # r.id
    BY <1>2 DEF Ledger!Accept, Ledger!Fresh
  <2>4. r.type \in Allowed(StatusOf(committed.events[j]))
    BY <1>2, SameTables DEF Ledger!Accept
  <2>5. QED
    BY <2>2, <2>3, <2>4, PromisesAccept
<1>3. CASE Ledger!Next
  <2>1. Promises(committed'.events, Jobs, Row)
    BY <1>2, <1>3 DEF Ledger!Next
  <2>2. QED
    BY <2>1 DEF Promises, OnceIn
<1>4. QED
  BY <1>1, <1>3

\* However callbacks race, over routes and without, through any number of
\* processes: a redelivered one is recorded once, and behind a breach the
\* database records nothing but the compensation.
THEOREM CallbacksKeepOrder ==
    Spec => [](Ledger!RecordedOnce /\ Ledger!FailClosed)
<1>1. Ledger!Init => Promises(committed.events, Jobs, Row)
  BY PromisesInit, RowsTyped DEF Ledger!Init
<1>2. Promises(committed.events, Jobs, Row)
          => Ledger!RecordedOnce /\ Ledger!FailClosed
  BY SameOrder DEF Promises, OnceIn, Ledger!RecordedOnce, Ledger!FailClosed
<1>3. QED
  BY <1>1, <1>2, LedgerNext, ImplementsLedger, PTL DEF LedgerSpec, Ledger!Spec

\* The ways a job goes.
Forward ==
    {<<"QUEUED", "RUNNING">>, <<"QUEUED", "PAUSED">>, <<"RUNNING", "PAUSED">>,
     <<"RUNNING", "REVERTED">>, <<"PAUSED", "REVERTED">>}

\* A commit moves a job forward or leaves its status, keeps the event rows that
\* are there, and of an authorization changes nothing but that it is revoked.
Advances ==
    /\ \A j \in Jobs :
           /\ \/ committed'.status[j] = committed.status[j]
              \/ <<committed.status[j], committed'.status[j]>> \in Forward
           /\ \A i \in DOMAIN committed.events[j] :
                  /\ i \in DOMAIN committed'.events[j]
                  /\ committed'.events[j][i] = committed.events[j][i]
    /\ \A r \in Routes :
           \/ committed.auths[r] = NoAuth
           \/ committed'.auths[r] = committed.auths[r]
           \/ /\ committed.auths[r].state = "active"
              /\ committed'.auths[r] = [committed.auths[r] EXCEPT !.state = "revoked"]

\* Whatever processes do at the same time, and whichever of them die: no job is
\* taken back, out of PAUSED or out of REVERTED in particular, no event row is
\* removed or rewritten, and no authorization comes back, is prolonged or changes jobs.
THEOREM DatabaseOnlyAdvances == Spec => [][Advances]_vars
<1>1. ASSUME IInv, [Next]_vars, committed' # committed PROVE Advances
  <2>1. PICK p \in Process : End(p) /\ Closed(p) /\ committed' = View(p)
    BY <1>1, OnlyEndCommits
  <2>2. /\ At(p, "end") /\ CallInv(p) /\ Req(p) \in Request
        /\ committed \in Database
    BY <1>1, <2>1, BusyTypes DEF End, IInv, TypeOK, Busy, At
  <2>3. CASE Req(p).op = "callback" /\ EventCommitted(p)
    <3> DEFINE j == Req(p).job
               row == Req(p).row
    <3>1. j \in Jobs /\ row \in Row
      BY <2>2, <2>3, RequestTypes
    <3>2. row.type \in Allowed(committed.status[j])
      BY <2>1, <2>2, <2>3 DEF CallInv, HoldsJob, JobHeld
    <3>3. /\ committed'.status[j] = StatusAfter(committed.status[j], row.type)
          /\ \A k \in Jobs \ {j} : committed'.status[k] = committed.status[k]
      BY <2>2, <2>3, <3>1 DEF EventCommitted, Database
    <3>4. \/ committed'.status[j] = committed.status[j]
          \/ <<committed.status[j], committed'.status[j]>> \in Forward
      BY <3>2, <3>3 DEF Allowed, Pausing, StatusAfter, Moves, Target, Forward
    <3>5. /\ committed'.events[j] = Append(committed.events[j], row)
          /\ \A k \in Jobs \ {j} : committed'.events[k] = committed.events[k]
          /\ committed.events[j] \in Seq(Row)
      BY <2>2, <2>3, <3>1 DEF EventCommitted, Database
    <3>6. \A i \in DOMAIN committed.events[j] :
              /\ i \in DOMAIN committed'.events[j]
              /\ committed'.events[j][i] = committed.events[j][i]
      BY <3>1, <3>5, AppendFacts
    <3>7. committed'.auths = committed.auths
      BY <2>3 DEF EventCommitted
    <3>8. QED
      BY <3>3, <3>4, <3>5, <3>6, <3>7 DEF Advances
  <2>4. ASSUME Req(p).op \in {"issue", "revoke"} PROVE Advances
    <3>1. CASE Req(p).op = "issue"
      <4>1. AuthCommitted(p, [state |-> "active", job |-> Req(p).job,
                              expires |-> begun[p] + Ttl])
        BY <1>1, <2>1, <2>2, <3>1, CommitFacts
      <4>2. committed.auths[Req(p).route] = NoAuth
        BY <2>1, <2>2, <3>1 DEF CallInv, RouteUnused, Busy, At
      <4>3. \A r \in Routes : r # Req(p).route
                => committed'.auths[r] = committed.auths[r]
        BY <2>2, <4>1 DEF AuthCommitted, Database
      <4>4. QED
        BY <4>1, <4>2, <4>3 DEF Advances, AuthCommitted
    <3>2. CASE Req(p).op = "revoke"
      <4>1. AuthCommitted(p, [committed.auths[Req(p).route] EXCEPT
                                  !.state = "revoked"])
        BY <1>1, <2>1, <2>2, <3>2, CommitFacts
      <4>2. committed.auths[Req(p).route].state = "active"
        BY <2>1, <2>2, <3>2 DEF CallInv, RevocationWritten
      <4>3. QED
        BY <2>2, <4>1, <4>2 DEF Advances, AuthCommitted, Database
    <3>3. QED
      BY <2>4, <3>1, <3>2
  <2>5. QED
    BY <1>1, <2>1, <2>2, <2>3, <2>4, CommitFacts
<1>2. UNCHANGED committed => Advances
  BY DEF Advances
<1>3. IInv /\ [Next]_vars => [Advances]_vars
  BY <1>1, <1>2
<1>4. QED
  BY <1>3, AlwaysIInv, PTL DEF Spec

-----------------------------------------------------------------------------
(* Processes that are never probed                                         *)

\* Without readiness probes no connection is ever left open.
LEMMA AllClosed ==
    ASSUME Probed = {}
    PROVE  Spec => [](\A p \in Process : Closed(p))
<1> DEFINE Inv == open \in [Process -> BOOLEAN] /\ \A p \in Process : Closed(p)
<1>1. Init => Inv
  BY DEF Init, Connected, Closed
<1>2. ASSUME Inv, [Next]_vars PROVE Inv'
  <2>1. \A p \in Process : Fail(p) => open' = open
    BY DEF Fail
  <2>2. \A p \in Process : Crash(p) => Inv'
    BY <1>2 DEF Crash, Closed
  <2>3. open' = open \/ \E p \in Process : Crash(p)
    BY <1>2, <2>1 DEF Next, vars, Tick, Begin, Readiness, Serve, Resolve,
       LockAuth, CheckDuplicate, LockJob, InsertEvent, Issue, Revoke, End
  <2>4. QED
    BY <1>2, <2>2, <2>3 DEF Closed
<1>3. QED
  BY <1>1, <1>2, PTL DEF Spec

\* An event never passes on an authorization that had expired when its call
\* began, for any number of processes none of which is probed: it is active in
\* a snapshot taken under the row's lock, which is held until the end.
THEOREM ExpiredAreRefused ==
    ASSUME Probed = {}
    PROVE  Spec => []ExpiredRefused
<1>1. ASSUME IInv, \A p \in Process : Closed(p) PROVE ExpiredRefused
  <2> SUFFICES ASSUME NEW p \in Process,
                      call[p].at \in {"check_dup", "lock_job", "insert"},
                      Req(p).row.route # Direct
               PROVE  call[p].since < View(p).auths[Req(p).row.route].expires
    BY DEF ExpiredRefused
  <2>1. /\ TypeOK /\ CallInv(p) /\ Closed(p)
        /\ Req(p) \in Request /\ Req(p).op = "callback"
    BY <1>1, BusyTypes DEF IInv, CallInv, InMethod, Busy, At
  <2>2. Req(p).row.route \in Routes
    BY <2>1, RequestTypes
  <2>3. AuthHeld(p)
    BY <2>1 DEF CallInv, HoldsAuth, Routed, At
  <2>4. View(p).auths[Req(p).row.route] = committed.auths[Req(p).row.route]
    BY <2>1, <2>2, RestedView DEF CallInv, Rested, At
  <2>5. QED
    BY <2>3, <2>4 DEF AuthHeld
<1>2. QED
  BY <1>1, AlwaysIInv, AllClosed, PTL

\* What a method returned normally for is in the database and survives crashes
\* of any process, as long as no process is probed.
THEOREM AckedIsDurable ==
    ASSUME Probed = {}
    PROVE  Spec => []AckedDurable
<1>1. Init => AckedDurable
  BY DEF Init, AckedDurable
<1>2. ASSUME IInv, \A p \in Process : Closed(p), AckedDurable, [Next]_vars
      PROVE  AckedDurable'
  <2>1. ASSUME UNCHANGED <<committed, acked>> PROVE AckedDurable'
    BY <1>2, <2>1 DEF AckedDurable, Recorded
  <2>2. ASSUME NEW p \in Process, End(p) PROVE AckedDurable'
    <3>1. At(p, "end") /\ Closed(p) /\ committed' = View(p)
      BY <1>2, <2>2 DEF End, Closed
    <3>2. TypeOK /\ CallInv(p) /\ Req(p) \in Request /\ committed \in Database
      BY <1>2, <3>1, BusyTypes DEF IInv, TypeOK, Busy, At
    <3>3. /\ \A r \in Routes :
                 /\ committed.auths[r] # NoAuth => committed'.auths[r] # NoAuth
                 /\ committed.auths[r].state = "revoked"
                        => committed'.auths[r].state = "revoked"
          /\ Req(p).op = "issue" => committed'.auths[Req(p).route] # NoAuth
          /\ Req(p).op = "revoke" => committed'.auths[Req(p).route].state = "revoked"
      <4>1. CASE Req(p).op = "callback"
        <5>1. committed'.auths = committed.auths
          BY <1>2, <3>1, <4>1, CommitFacts DEF EventCommitted
        <5>2. QED
          BY <4>1, <5>1
      <4>2. CASE Req(p).op = "issue"
        <5> DEFINE r == Req(p).route
                   auth == [state |-> "active", job |-> Req(p).job,
                            expires |-> begun[p] + Ttl]
        <5>1. AuthCommitted(p, auth) /\ r \in Routes
          BY <1>2, <3>1, <3>2, <4>2, CommitFacts, RequestTypes
        <5>2. committed.auths[r] = NoAuth /\ NoAuth.state # "revoked"
          BY <3>1, <3>2, <4>2 DEF CallInv, RouteUnused, Busy, At, NoAuth
        <5>3. auth # NoAuth
          BY DEF NoAuth
        <5>4. QED
          BY <3>2, <4>2, <5>1, <5>2, <5>3 DEF AuthCommitted, Database
      <4>3. CASE Req(p).op = "revoke"
        <5> DEFINE r == Req(p).route
                   auth == [committed.auths[r] EXCEPT !.state = "revoked"]
        <5>1. AuthCommitted(p, auth) /\ r \in Routes
          BY <1>2, <3>1, <3>2, <4>3, CommitFacts, RequestTypes
        <5>2. committed.auths[r] \in Auth /\ committed.auths[r].state = "active"
          BY <3>1, <3>2, <4>3, <5>1 DEF CallInv, RevocationWritten, Database
        <5>3. auth.state = "revoked" /\ auth # NoAuth
          BY <5>2 DEF Auth, NoAuth
        <5>4. QED
          BY <3>2, <4>3, <5>1, <5>3 DEF AuthCommitted, Database
      <4>4. QED
        BY <3>2, <4>1, <4>2, <4>3, RequestTypes
    <3>4. /\ \A id : Recorded(committed, id) => Recorded(committed', id)
          /\ Req(p).op = "callback" => Recorded(committed', Req(p).row.id)
      <4>1. CASE Req(p).op = "callback"
        <5> DEFINE j == Req(p).job
                   row == Req(p).row
        <5>1. EventCommitted(p) /\ j \in Jobs /\ row \in Row
          BY <1>2, <3>1, <3>2, <4>1, CommitFacts, RequestTypes
        <5>2. /\ committed'.events[j] = Append(committed.events[j], row)
              /\ \A k \in Jobs \ {j} : committed'.events[k] = committed.events[k]
              /\ committed.events[j] \in Seq(Row)
          BY <3>2, <5>1 DEF EventCommitted, Database
        <5>3. /\ \A i \in DOMAIN committed.events[j] :
                     /\ i \in DOMAIN committed'.events[j]
                     /\ committed'.events[j][i] = committed.events[j][i]
              /\ Len(committed.events[j]) + 1 \in DOMAIN committed'.events[j]
              /\ committed'.events[j][Len(committed.events[j]) + 1] = row
          BY <5>1, <5>2, AppendFacts
        <5>4. QED
          BY <5>1, <5>2, <5>3 DEF Recorded
      <4>2. CASE Req(p).op # "callback"
        BY <1>2, <3>1, <4>2, CommitTouches DEF Recorded
      <4>3. QED
        BY <4>1, <4>2
    <3>5. /\ acked'.callback \subseteq acked.callback
                 \cup (IF Req(p).op = "callback" THEN {Req(p).row.id} ELSE {})
          /\ acked'.issue \subseteq acked.issue
                 \cup (IF Req(p).op = "issue" THEN {Req(p).route} ELSE {})
          /\ acked'.revoke \subseteq acked.revoke
                 \cup (IF Req(p).op = "revoke" THEN {Req(p).route} ELSE {})
      <4>1. acked \in [callback : SUBSET EventIds, issue : SUBSET Routes,
                       revoke : SUBSET Routes]
        BY <3>2 DEF TypeOK
      <4>2. CASE Req(p).op = "callback"
        BY <2>2, <4>1, <4>2 DEF End
      <4>3. CASE Req(p).op = "issue"
        BY <2>2, <4>1, <4>3 DEF End
      <4>4. CASE Req(p).op = "revoke"
        BY <2>2, <4>1, <4>4 DEF End
      <4>5. QED
        BY <3>2, <4>2, <4>3, <4>4, RequestTypes
    <3>6. acked.issue \subseteq Routes /\ acked.revoke \subseteq Routes
      BY <3>2 DEF TypeOK
    <3>7. QED
      BY <1>2, <3>3, <3>4, <3>5, <3>6 DEF AckedDurable
  <2>3. QED
    BY <1>2, <2>1, <2>2 DEF Next, vars, Tick, Begin, Readiness, Serve, Resolve,
       LockAuth, CheckDuplicate, LockJob, InsertEvent, Issue, Revoke, Crash, Fail
<1>3. QED
  BY <1>1, <1>2, AlwaysIInv, AllClosed, PTL DEF Spec

-----------------------------------------------------------------------------
(* Deadlock                                                                *)

\* What p has locked by the statement it is about to execute: no job before the
\* INSERT of an event, and nothing at the first statement of a call.
LocksInOrder(p) ==
    /\ ~Busy(p) \/ At(p, "resolve") \/ At(p, "lock_auth") \/ At(p, "issue")
           \/ At(p, "revoke") => locks[p] = {}
    /\ At(p, "check_dup") \/ At(p, "lock_job") => locks[p] \subseteq Routes

\* Who has not changed still has its locks in order.
LEMMA OrderUntouched ==
    ASSUME NEW p \in Process, LocksInOrder(p), call'[p] = call[p],
           locks'[p] = locks[p]
    PROVE  LocksInOrder(p)'
BY DEF LocksInOrder, Busy, At

\* An exception or a crash gives every lock back.
LEMMA OrderAtRest ==
    ASSUME NEW p \in Process, call'[p] = Idle, locks'[p] = {}
    PROVE  LocksInOrder(p)'
BY DEF LocksInOrder, Busy, At, Idle

\* What a step of a call does to the locks of the process and of the others.
LEMMA OrderServe ==
    ASSUME IInv, NEW p \in Process, Closed(p), LocksInOrder(p), Serve(p)
    PROVE  /\ LocksInOrder(p)'
           /\ \A q \in Process \ {p} : call'[q] = call[q] /\ locks'[q] = locks[q]
<1>1. TypeOK /\ Busy(p) /\ CallInv(p)
  BY DEF IInv, Serve, Resolve, LockAuth, CheckDuplicate, LockJob, InsertEvent,
     Issue, Revoke, End, Busy, At
<1>2. CASE Fail(p)
  <2>1. /\ call'[p] = Idle /\ locks'[p] = {}
        /\ \A q \in Process \ {p} : call'[q] = call[q] /\ locks'[q] = locks[q]
    BY <1>1, <1>2 DEF Fail, Return, LocksAfterFailure, Closed, TypeOK
  <2>2. QED
    BY <2>1, OrderAtRest
<1>3. CASE End(p)
  <2>1. /\ call'[p] = Idle /\ locks'[p] = {}
        /\ \A q \in Process \ {p} : call'[q] = call[q] /\ locks'[q] = locks[q]
    BY <1>1, <1>3 DEF End, Return, Closed, TypeOK
  <2>2. QED
    BY <2>1, OrderAtRest
<1>4. ASSUME NEW stage \in Stage, GoTo(p, stage)
      PROVE  /\ call'[p].at = stage
             /\ \A q \in Process \ {p} : call'[q] = call[q]
  BY <1>1, <1>4, GoToFacts
<1>5. CASE Resolve(p) /\ ~Fail(p)
  <2>1. /\ At(p, "resolve") /\ GoTo(p, "lock_auth") /\ UNCHANGED locks
    BY <1>5 DEF Resolve
  <2>2. QED
    BY <1>4, <2>1 DEF Stage, LocksInOrder, At
<1>6. CASE LockAuth(p) /\ ~Fail(p)
  <2>1. /\ At(p, "lock_auth") /\ GoTo(p, "check_dup")
        /\ LockRow(p, Req(p).row.route)
    BY <1>6 DEF LockAuth
  <2>2. Req(p).row.route \in Routes
    BY <1>1, <2>1, MethodTypes DEF CallInv
  <2>3. /\ locks'[p] = locks[p] \cup {Req(p).row.route}
        /\ \A q \in Process \ {p} : locks'[q] = locks[q]
    BY <1>1, <2>1, <2>2, LockRowFacts
  <2>4. call'[p].at = "check_dup" /\ \A q \in Process \ {p} : call'[q] = call[q]
    BY <1>4, <2>1 DEF Stage
  <2>5. locks[p] = {}
    BY <2>1 DEF LocksInOrder
  <2>6. QED
    BY <2>2, <2>3, <2>4, <2>5 DEF LocksInOrder, Busy, At
<1>7. CASE CheckDuplicate(p) /\ ~Fail(p)
  <2>1. /\ At(p, "check_dup") /\ GoTo(p, "lock_job") /\ UNCHANGED locks
    BY <1>7 DEF CheckDuplicate
  <2>2. call'[p].at = "lock_job" /\ \A q \in Process \ {p} : call'[q] = call[q]
    BY <1>4, <2>1 DEF Stage
  <2>3. QED
    BY <2>1, <2>2 DEF LocksInOrder, Busy, At
<1>8. CASE LockJob(p) /\ ~Fail(p)
  <2>1. /\ GoTo(p, "insert") /\ LockRow(p, Req(p).job) /\ At(p, "lock_job")
    BY <1>8 DEF LockJob
  <2>2. Req(p).job \in Jobs
    BY <1>1, <2>1, MethodTypes DEF CallInv
  <2>3. \A q \in Process \ {p} : locks'[q] = locks[q]
    BY <1>1, <2>1, <2>2, LockRowFacts
  <2>4. call'[p].at = "insert" /\ \A q \in Process \ {p} : call'[q] = call[q]
    BY <1>4, <2>1 DEF Stage
  <2>5. QED
    BY <2>3, <2>4 DEF LocksInOrder, Busy, At
<1>9. CASE InsertEvent(p) /\ ~Fail(p)
  <2>1. GoTo(p, "end") /\ UNCHANGED locks
    BY <1>9 DEF InsertEvent
  <2>2. call'[p].at = "end" /\ \A q \in Process \ {p} : call'[q] = call[q]
    BY <1>4, <2>1 DEF Stage
  <2>3. QED
    BY <2>1, <2>2 DEF LocksInOrder, Busy, At
<1>10. CASE Issue(p) /\ ~Fail(p)
  <2>1. GoTo(p, "end") /\ LockRow(p, Req(p).job) /\ At(p, "issue")
    BY <1>10 DEF Issue
  <2>2. Req(p).job \in Jobs
    BY <1>1, <2>1, MethodTypes DEF CallInv
  <2>3. \A q \in Process \ {p} : locks'[q] = locks[q]
    BY <1>1, <2>1, <2>2, LockRowFacts
  <2>4. call'[p].at = "end" /\ \A q \in Process \ {p} : call'[q] = call[q]
    BY <1>4, <2>1 DEF Stage
  <2>5. QED
    BY <2>3, <2>4 DEF LocksInOrder, Busy, At
<1>11. CASE Revoke(p) /\ ~Fail(p)
  <2>1. GoTo(p, "end") /\ LockRow(p, Req(p).route) /\ At(p, "revoke")
    BY <1>11 DEF Revoke
  <2>2. Req(p).route \in Routes
    BY <1>1, <2>1, MethodTypes DEF CallInv
  <2>3. \A q \in Process \ {p} : locks'[q] = locks[q]
    BY <1>1, <2>1, <2>2, LockRowFacts
  <2>4. call'[p].at = "end" /\ \A q \in Process \ {p} : call'[q] = call[q]
    BY <1>4, <2>1 DEF Stage
  <2>5. QED
    BY <2>3, <2>4 DEF LocksInOrder, Busy, At
<1>12. QED
  BY <1>2, <1>3, <1>5, <1>6, <1>7, <1>8, <1>9, <1>10, <1>11 DEF Serve

LEMMA OrderNext ==
    ASSUME IInv, \A p \in Process : Closed(p), \A p \in Process : LocksInOrder(p),
           [Next]_vars
    PROVE  \A p \in Process : LocksInOrder(p)'
<1>1. TypeOK
  BY DEF IInv
<1>2. ASSUME NEW p \in Process, Begin(p) PROVE \A q \in Process : LocksInOrder(q)'
  <2>1. /\ call'[p].at \in {"resolve", "check_dup", "issue", "revoke"}
        /\ \A q \in Process \ {p} : call'[q] = call[q]
    BY <1>1, <1>2, BeginFacts
  <2>2. locks[p] = {} /\ locks' = locks
    BY <1>2 DEF Begin, LocksInOrder, Busy
  <2>3. LocksInOrder(p)'
    BY <2>1, <2>2 DEF LocksInOrder, Busy, At
  <2>4. QED
    BY <2>1, <2>2, <2>3, OrderUntouched
<1>3. ASSUME NEW p \in Process, Crash(p) PROVE \A q \in Process : LocksInOrder(q)'
  <2>1. /\ call'[p] = Idle /\ locks'[p] = {}
        /\ \A q \in Process \ {p} : call'[q] = call[q] /\ locks'[q] = locks[q]
    BY <1>1, <1>3 DEF Crash, TypeOK
  <2>2. QED
    BY <2>1, OrderAtRest, OrderUntouched
<1>4. ASSUME NEW p \in Process, Serve(p) PROVE \A q \in Process : LocksInOrder(q)'
  BY <1>4, OrderServe, OrderUntouched
<1>5. CASE UNCHANGED <<call, locks>>
  BY <1>5, OrderUntouched
<1>6. QED
  BY <1>2, <1>3, <1>4, <1>5 DEF Next, vars, Tick, Readiness

\* Who waits, and for whom.
LEMMA WaitsDown ==
    ASSUME IInv, \A p \in Process : Closed(p), \A p \in Process : LocksInOrder(p),
           NEW p \in Process, NEW q \in Process \ {p}, WaitsFor(p, q)
    PROVE  \/ At(p, "insert") /\ At(q, "end")
           \/ /\ At(p, "lock_job") \/ At(p, "issue")
              /\ At(q, "insert") \/ At(q, "end")
           \/ /\ At(p, "lock_auth") \/ At(p, "revoke")
              /\ At(q, "check_dup") \/ At(q, "lock_job") \/ At(q, "insert")
                     \/ At(q, "end")
<1>1. /\ TypeOK /\ Busy(p) /\ InMethod(p)
      /\ LocksInOrder(q) /\ Closed(q) /\ CallInv(q)
  BY DEF WaitsFor, Busy, At, IInv, CallInv
<1>2. At(q, "idle") \/ call[q].at \in Stage
  BY <1>1, BusyTypes DEF Busy
<1>3. CASE At(p, "insert") /\ Recorded(pending[q], Req(p).row.id)
  <2>1. pending[q] # Nothing
    BY <1>3 DEF Recorded, Nothing
  <2>2. QED
    BY <1>1, <1>3, <2>1 DEF CallInv, Rested
<1>4. CASE (At(p, "lock_job") \/ At(p, "issue")) /\ Req(p).job \in locks[q]
  <2>1. Req(p).job \in Jobs
    BY <1>1, <1>4, MethodTypes
  <2>2. ~(locks[q] \subseteq Routes)
    BY <1>4, <2>1, RowsAssumption
  <2>3. QED
    BY <1>1, <1>2, <1>4, <2>2 DEF LocksInOrder, Stage, Busy, At
<1>5. CASE (At(p, "lock_auth") \/ At(p, "revoke")) /\ locks[q] # {}
  BY <1>1, <1>2, <1>5 DEF LocksInOrder, Stage, Busy, At
<1>6. QED
  BY <1>3, <1>4, <1>5 DEF WaitsFor

\* No deadlock, whatever the number of processes and of calls in progress: the
\* nearer a call is to its end, the fewer it can wait for, and whoever is nearest
\* waits for no one.
THEOREM NeverDeadlocked ==
    ASSUME Probed = {}
    PROVE  Spec => []NoDeadlock
<1>1. ASSUME IInv, \A p \in Process : Closed(p), \A p \in Process : LocksInOrder(p)
      PROVE  NoDeadlock
  <2>1. ASSUME NEW p \in Process, NEW q \in Process \ {p}, WaitsFor(p, q)
        PROVE  ~At(q, "idle")
    BY <1>1, <2>1, WaitsDown DEF At
  <2>2. ASSUME NEW S \in (SUBSET Process) \ {{}}
        PROVE  \E p \in S : \A q \in S \ {p} : ~WaitsFor(p, q)
    <3>1. \A p \in S : \A q \in S \ {p} : WaitsFor(p, q) =>
              \/ At(p, "insert") /\ At(q, "end")
              \/ /\ At(p, "lock_job") \/ At(p, "issue")
                 /\ At(q, "insert") \/ At(q, "end")
              \/ /\ At(p, "lock_auth") \/ At(p, "revoke")
                 /\ At(q, "check_dup") \/ At(q, "lock_job") \/ At(q, "insert")
                        \/ At(q, "end")
      BY <1>1, WaitsDown
    <3>2. CASE \E p \in S : At(p, "end")
      BY <3>1, <3>2 DEF At
    <3>3. CASE (\E p \in S : At(p, "insert")) /\ \A p \in S : ~At(p, "end")
      BY <3>1, <3>3 DEF At
    <3>4. CASE /\ \E p \in S : At(p, "lock_job") \/ At(p, "check_dup")
               /\ \A p \in S : ~At(p, "insert") /\ ~At(p, "end")
      BY <3>1, <3>4 DEF At
    <3>5. CASE \A p \in S : /\ ~At(p, "lock_job") /\ ~At(p, "check_dup")
                            /\ ~At(p, "insert") /\ ~At(p, "end")
      BY <2>2, <3>1, <3>5 DEF At
    <3>6. QED
      BY <3>2, <3>3, <3>4, <3>5
  <2>3. QED
    BY <2>1, <2>2 DEF NoDeadlock
<1>2. Init => \A p \in Process : LocksInOrder(p)
  BY DEF Init, LocksInOrder, Busy, At, Idle
<1>3. IInv /\ (\A p \in Process : Closed(p)) /\ (\A p \in Process : LocksInOrder(p))
          /\ [Next]_vars => (\A p \in Process : LocksInOrder(p))'
  BY OrderNext
<1>4. QED
  BY <1>1, <1>2, <1>3, AlwaysIInv, AllClosed, PTL DEF Spec
=============================================================================
