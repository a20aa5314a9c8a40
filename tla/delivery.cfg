\* Two workers, of which one may hold the secret of the other's route; each
\* event may be signed again while the clock runs and is set back.
SPECIFICATION Spec
CONSTANTS
    Jobs = {"j1", "j2"}
    Script <- Reports
    MaxAge = 0
    MaxSkew = 0
    MaxTime = 1
    None = None
INVARIANTS ReceiptMeansRecorded ReportedInOrder
PROPERTY BreachStops
\* A worker that has its receipts sends nothing more.
CHECK_DEADLOCK FALSE
