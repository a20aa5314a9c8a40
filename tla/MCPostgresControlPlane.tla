---------------------- MODULE MCPostgresControlPlane ----------------------
(* PostgresControlPlane on small sets; the .cfg files choose their sizes.  *)
EXTENDS PostgresControlPlane, TLC

\* Jobs, event ids and routes are opaque, and so are processes of one kind.
Symmetry ==
    Permutations(Process \ Probed) \cup Permutations(Probed)
        \cup Permutations(Jobs) \cup Permutations(EventIds)
        \cup Permutations(Routes)

\* A start, a pause and a compensation: every way the status column moves.
Movers == {"PILOT_STARTED", "THRESHOLD_BREACHED", "COMPENSATING_REVERTED"}

\* A pause and a compensation: the shortest way to a terminal job.
Stops == {"THRESHOLD_BREACHED", "COMPENSATING_REVERTED"}
=============================================================================
