\* Two ingress processes: a late PILOT_STARTED overtakes a breach.
SPECIFICATION Spec
CONSTANTS
    Api = {a1}
    Ingress = {i1, i2}
    Jobs = {j1}
    EventIds = {v1, v2}
    Reports <- Reported
    Hashes = {h1}
PROPERTY PausedNotResumed
