\* Processes that are never probed; two jobs whose events may share an id.
SPECIFICATION FairSpec
CONSTANTS
    Process = {p1, p2}
    Probed = {}
    Jobs = {j1, j2}
    EventIds = {v1, v2}
    Routes = {r1}
    Reports <- Stops
    Ttl = 1
    MaxTime = 0
INVARIANTS AckedDurable NoDeadlock
PROPERTY EveryCallEnds
