\* Two tenants that share engagement ids and hashes, two approvals, two jobs,
\* and callbacks that may collide on event ids.
SPECIFICATION Spec
CONSTANTS
    Organizations = {o1, o2}
    EngagementIds = {e1, e2}
    Hashes = {b1, b2, scorecard}
    Blueprints = {b1, b2}
    ApprovalIds = {a1, a2}
    JobIds = {j1, j2}
    EventIds = {v1, v2, v3, v4}
SYMMETRY Symmetry
INVARIANTS Consistent TenantIsolation ApprovedLineage HashBoundOnce
PROPERTY LedgerSpec
\* The finite sets of ids run out.
CHECK_DEADLOCK FALSE
