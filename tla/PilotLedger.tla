---------------------------- MODULE PilotLedger ----------------------------
(***************************************************************************)
(* What a control plane promises of its Pilot jobs, without tables, locks  *)
(* or transactions: each job has a log of events; an event enters one log, *)
(* once, and only while the status the log itself amounts to admits it.    *)
(* There is no status column here: a store that implements this            *)
(* specification has a column that never disagrees with its log.           *)
(***************************************************************************)
EXTENDS PilotStatus

CONSTANTS Jobs,   \* pilot job ids
          Rows    \* event rows: records with at least an id and a type

VARIABLE log      \* log[j]: the rows accepted for job j, oldest first

TypeOK == log \in [Jobs -> Seq(Rows)]

Fresh(id) == \A j \in Jobs : \A i \in DOMAIN log[j] : log[j][i].id # id

Init == log = [j \in Jobs |-> <<>>]

Accept(j, r) ==
    /\ Fresh(r.id)
    /\ r.type \in Allowed(StatusOf(log[j]))
    /\ log' = [log EXCEPT ![j] = Append(@, r)]

Next == \E j \in Jobs, r \in Rows : Accept(j, r)

Spec == Init /\ [][Next]_log

-----------------------------------------------------------------------------
\* A callback that is delivered again, to the same job or to another one, is
\* recorded once: no two rows of the event table share an id.
RecordedOnce ==
    \A j, k \in Jobs : \A i \in DOMAIN log[j], m \in DOMAIN log[k] :
        log[j][i].id = log[k][m].id => <<j, i>> = <<k, m>>

\* A breach is fail-closed: whatever order callbacks arrive in, a job starts
\* at most once, and after a breach, a rollback or a pause it records nothing
\* but the compensating revert, and nothing at all after that.
FailClosed == \A j \in Jobs : WellOrdered(log[j])
=============================================================================
