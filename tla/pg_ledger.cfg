\* Two processes race on one job; one of them is probed, and time passes.
SPECIFICATION Spec
CONSTANTS
    Process = {p1, p2}
    Probed = {p1}
    Jobs = {j1}
    EventIds = {v1, v2}
    Routes = {r1}
    Reports <- Movers
    Ttl = 1
    MaxTime = 1
SYMMETRY Symmetry
PROPERTIES LedgerSpec RevokedIsSilent IssuedForLiveJob
