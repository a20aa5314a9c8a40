----------------------- MODULE MCControlPlaneStore -----------------------
(* ControlPlaneStore on small sets; the .cfg files choose their sizes.    *)
EXTENDS ControlPlaneStore, TLC

\* Clients' ids, uuids and hashes are compared for equality only; the hashes
\* that are blueprints are told apart from the others.
Symmetry ==
    Permutations(Organizations) \cup Permutations(EngagementIds)
        \cup Permutations(Blueprints) \cup Permutations(ApprovalIds)
        \cup Permutations(JobIds)
        \cup Permutations(EventIds)
=============================================================================
