\* A process whose readiness is probed acknowledges what it never commits.
SPECIFICATION Spec
CONSTANTS
    Process = {p1, p2}
    Probed = {p1}
    Jobs = {j1}
    EventIds = {v1}
    Routes = {r1}
    Reports <- Stops
    Ttl = 1
    MaxTime = 2
INVARIANT AckedDurable
