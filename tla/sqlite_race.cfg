\* One API process and two that ingest callbacks, on one file.
SPECIFICATION Spec
CONSTANTS
    Api = {a1}
    Ingress = {i1, i2}
    Jobs = {j1}
    EventIds = {v1, v2}
    Reports <- Reported
    Hashes = {h1}
SYMMETRY Symmetry
INVARIANTS Consistent RecordedOnce AckedDurable
