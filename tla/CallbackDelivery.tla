-------------------------- MODULE CallbackDelivery --------------------------
(***************************************************************************)
(* Signed callbacks on their way from Pilot workers to the control plane.  *)
(* A worker reports the events of its job in order and signs an event      *)
(* again, under its id, as long as it has no receipt; the network delays,  *)
(* reorders, repeats and loses callbacks and receipts; the clock runs and  *)
(* is set back.  callback_ingestion.py accepts a callback on the route it *)
(* was signed for, within a window of time, and record_callback accepts an *)
(* event id once.  Worker, network and clocks are external.                *)
(***************************************************************************)
EXTENDS PilotStatus, Integers

CONSTANTS Jobs,        \* pilot jobs; the route pinned to a job has its name
          Script,      \* Script[j]: the types of the events of job j, in order
          MaxAge,      \* max_event_age
          MaxSkew,     \* max_future_skew
          MaxTime,     \* bounds the ingress's clock
          None

ASSUME DeliveryAssumption ==
    /\ \A j \in Jobs : Script[j] \in Seq(EventType)
    /\ MaxAge \in Nat /\ MaxSkew \in Nat /\ MaxTime \in Nat

VARIABLES secret,      \* secret[j]: the route whose secret the worker of j has
          now,         \* the ingress's clock
          signed,      \* signed[id]: occurred_at of the callbacks signed for the event
          column,      \* pilot_jobs.status
          log,         \* the rows of pilot_events, per job
          receipts     \* receipts[id]: the route whose receipt reached the worker

store == <<column, log>>
vars  == <<secret, now, signed, store, receipts>>

Ids == UNION {{<<j, i>> : i \in DOMAIN Script[j]} : j \in Jobs}
JobOf(id)  == id[1]
TypeOf(id) == Script[id[1]][id[2]]
Row(id)    == [id |-> id, type |-> TypeOf(id)]
Rows       == [id : Ids, type : EventType]

Init ==
    /\ secret \in [Jobs -> Jobs]
    /\ now = 0
    /\ signed = [id \in Ids |-> {}]
    /\ column = [j \in Jobs |-> "QUEUED"]
    /\ log = [j \in Jobs |-> <<>>]
    /\ receipts = [id \in Ids |-> None]

-----------------------------------------------------------------------------
(* Worker, network and clock.                                              *)

\* A worker signs its next event, or one it has no receipt for again.  From
\* then on the callback may arrive, any number of times or never.
Sign(id) ==
    /\ id[2] > 1 => signed[<<id[1], id[2] - 1>>] # {}
    /\ receipts[id] = None
    /\ signed' = [signed EXCEPT ![id] = @ \cup {now}]
    /\ UNCHANGED <<secret, now, store, receipts>>

\* Time passes, or the clock is set back.
Tick(time) ==
    /\ time \in {now - 1, now + 1} \cap 0..MaxTime
    /\ now' = time
    /\ UNCHANGED <<secret, signed, store, receipts>>

-----------------------------------------------------------------------------
(* CallbackIngestionAdapter.ingest on the route the signature is good for. *)

Route(id) == secret[JobOf(id)]

\* Mutant: the signature alone decides.
AnyJob(id) == TRUE

\* _require_authorized_lineage: the body names the job the route is pinned to.
Authorized(id) == JobOf(id) = Route(id)

\* _require_fresh_timestamp
InWindow(at) == at >= now - MaxAge /\ at <= now + MaxSkew

\* No row of pilot_events has the id.
NewId(id) == \A j \in Jobs : \A i \in DOMAIN log[j] : log[j][i].id # id

Acceptable(id) ==
    /\ Authorized(id)
    /\ \E at \in signed[id] : InWindow(at)
    /\ TypeOf(id) \in Allowed(column[JobOf(id)])
    /\ NewId(id)

\* ingest records the event, then makes the receipt; a callback that is not
\* acceptable raises ValueError and changes nothing.  The receipt may be lost,
\* or its process may die before it is sent.
Ingest(id) ==
    /\ Acceptable(id)
    /\ log' = [log EXCEPT ![JobOf(id)] = Append(@, Row(id))]
    /\ column' = [column EXCEPT ![JobOf(id)] = StatusAfter(@, TypeOf(id))]
    /\ \/ receipts' = [receipts EXCEPT ![id] = Route(id)]
       \/ UNCHANGED receipts
    /\ UNCHANGED <<secret, now, signed>>

Next ==
    \/ \E id \in Ids : Sign(id)
    \/ \E time \in 0..MaxTime : Tick(time)
    \/ \E id \in Ids : Ingest(id)

\* A worker that must stop its job goes on signing until it has a receipt, and
\* a callback that can be accepted again and again is not lost or late each time.
Fairness ==
    \A id \in {e \in Ids : TypeOf(e) \in Pausing} :
        WF_vars(Sign(id)) /\ SF_vars(Ingest(id))

Spec == Init /\ [][Next]_vars /\ Fairness

-----------------------------------------------------------------------------
TypeOK ==
    /\ secret \in [Jobs -> Jobs]
    /\ now \in 0..MaxTime
    /\ signed \in [Ids -> SUBSET (0..MaxTime)]
    /\ column \in [Jobs -> Status]
    /\ log \in [Jobs -> Seq(Rows)]
    /\ receipts \in [Ids -> Jobs \cup {None}]

\* The adapter and its store accept what the ledger of a Pilot accepts: it
\* refines the abstract specification of the stores.
Ledger == INSTANCE PilotLedger
LedgerSpec == Ledger!Spec

\* A receipt is only given for a row of the job the route is pinned to.
ReceiptMeansRecorded ==
    \A id \in Ids : receipts[id] # None =>
        \E i \in DOMAIN log[receipts[id]] : log[receipts[id]][i].id = id

\* However the network reorders, repeats and loses the callbacks of a job, what
\* is recorded is in the order the worker reported it, but for two events that
\* leave the status alone.
ReportedInOrder ==
    \A j \in Jobs : \A i, k \in DOMAIN log[j] :
        i < k => \/ log[j][i].id[2] < log[j][k].id[2]
                 \/ {log[j][i].type, log[j][k].type} \cap Moves = {}

\* A worker that reports a breach, a rollback or a pause, to its own route, stops
\* its job in the end: a callback that was late, or whose turn had not come, is
\* accepted when it is signed again.
BreachStops ==
    \A id \in Ids :
        signed[id] # {} /\ TypeOf(id) \in Pausing /\ Authorized(id)
            ~> column[JobOf(id)] \notin {"QUEUED", "RUNNING"}
=============================================================================
