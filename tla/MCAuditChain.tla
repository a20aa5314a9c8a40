--------------------------- MODULE MCAuditChain ---------------------------
(* AuditChain on small sets; the .cfg files choose their sizes.            *)
EXTENDS AuditChain, TLC

\* Sessions are alike, and artifacts are compared for equality only.
Symmetry == Permutations(Sessions) \cup Permutations(Artifacts)
=============================================================================
