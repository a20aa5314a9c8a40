\* One process ingests callbacks, two others serve the API.
SPECIFICATION FairSpec
CONSTANTS
    Api = {a1, a2}
    Ingress = {i1}
    Jobs = {j1}
    EventIds = {v1, v2}
    Reports <- Reported
    Hashes = {h1}
PROPERTIES LedgerSpec EveryRequestAnswered
