---------------------------- MODULE PilotStatus ----------------------------
(***************************************************************************)
(* The life cycle of a Pilot job: the statuses of a pilot_jobs row, the    *)
(* types of a callback event, which events a status admits and where an    *)
(* event moves the job.  Both stores (control_plane.py on SQLite,          *)
(* postgres_control_plane.py) contain the same two tables.                 *)
(***************************************************************************)
EXTENDS Naturals, Sequences

Status == {"QUEUED", "RUNNING", "PAUSED", "REVERTED", "COMPLETE", "FAILED"}

Terminal == {"REVERTED", "COMPLETE", "FAILED"}

EventType == {"PILOT_STARTED", "ACTION_DENIED", "METRIC_RECORDED",
              "THRESHOLD_BREACHED", "ROLLBACK_FIRED",
              "COMPENSATING_REVERTED", "PILOT_PAUSED"}

\* The events that stop a Pilot until a human has looked at it.
Pausing == {"THRESHOLD_BREACHED", "ROLLBACK_FIRED", "PILOT_PAUSED"}

\* Mutant: the table is not consulted, only terminal jobs are refused.
AnyLiveJob(s) == IF s \in Terminal THEN {} ELSE EventType

\* Mutant: a job that has not started cannot be stopped.
StartFirst(s) == IF s = "QUEUED" THEN {"PILOT_STARTED"} ELSE AnyLiveJob(s)

\* allowed_events: what a callback may report while the job has status s.
Allowed(s) ==
    CASE s = "QUEUED"  -> {"PILOT_STARTED"} \cup Pausing
      [] s = "RUNNING" -> {"ACTION_DENIED", "METRIC_RECORDED",
                           "COMPENSATING_REVERTED"} \cup Pausing
      [] s = "PAUSED"  -> {"COMPENSATING_REVERTED"}
      [] OTHER         -> {}

\* The events that write the status column; the others leave it alone.
Moves == {"PILOT_STARTED", "COMPENSATING_REVERTED"} \cup Pausing

Target(t) ==
    CASE t = "PILOT_STARTED"         -> "RUNNING"
      [] t = "COMPENSATING_REVERTED" -> "REVERTED"
      [] OTHER                       -> "PAUSED"

\* Mutant: the UPDATE of the job is forgotten.
Unmoved(s, t) == s

\* The status column after an accepted event of type t.
StatusAfter(s, t) == IF t \in Moves THEN Target(t) ELSE s

-----------------------------------------------------------------------------
(* What the event rows of one job, in the order they were inserted, say.   *)

MovesIn(rows) == {i \in DOMAIN rows : rows[i].type \in Moves}

\* The last row that wrote the status column.
LastMove(rows) == CHOOSE i \in MovesIn(rows) : \A k \in MovesIn(rows) : k <= i

\* The status the rows amount to, for a job that was created QUEUED.
StatusOf(rows) ==
    IF MovesIn(rows) = {} THEN "QUEUED" ELSE Target(rows[LastMove(rows)].type)

\* The shape of a fail-closed Pilot: it starts at most once and first of all,
\* nothing but compensation follows a pausing event, nothing follows that.
WellOrdered(rows) ==
    /\ rows # <<>> => rows[1].type \in Allowed("QUEUED")
    /\ \A i, k \in DOMAIN rows :
           i < k => /\ rows[k].type # "PILOT_STARTED"
                    /\ rows[i].type # "COMPENSATING_REVERTED"
                    /\ rows[i].type \in Pausing
                           => rows[k].type = "COMPENSATING_REVERTED"
=============================================================================
