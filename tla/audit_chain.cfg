\* Two sessions on one log, of up to five records, with torn writes.
SPECIFICATION Spec
CONSTANTS
    Sessions = {s1, s2}
    Artifacts = {x, y}
    MaxLines = 4
SYMMETRY Symmetry
INVARIANTS VerifiedIsComplete SerialLog
PROPERTY BrokenForever
\* A log that does not verify, or is full, admits no handoff.
CHECK_DEADLOCK FALSE
