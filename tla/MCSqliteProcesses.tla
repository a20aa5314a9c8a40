------------------------- MODULE MCSqliteProcesses -------------------------
(* SqliteProcesses on small sets; the .cfg files choose their sizes.       *)
EXTENDS SqliteProcesses, TLC

\* Processes of one kind, event ids and hashes are interchangeable.
Symmetry ==
    Permutations(Api) \cup Permutations(Ingress) \cup Permutations(EventIds)
        \cup Permutations(Hashes) \cup Permutations(Jobs)

\* One event type of every kind: it starts the Pilot, leaves the status
\* alone, pauses it, compensates.
Reported == {"PILOT_STARTED", "METRIC_RECORDED", "THRESHOLD_BREACHED",
             "COMPENSATING_REVERTED"}

\* Enough where only locks matter.
Breach == {"THRESHOLD_BREACHED"}
=============================================================================
