\* A Pilot whose reverts conflict, and a corpus of up to four records.
SPECIFICATION Spec
CONSTANTS
    Actions <- MCActions
    TreeFiles = {"f"}
    Spikes <- MCSpikes
    MaxCommits = 2
    Records <- MCRecords
    Verticals <- MCVerticals
    Published <- MCPublished
    MinAccepted = 3
    MaxCorpus = 4
INVARIANTS
    RevertedIsGone
PROPERTIES
    OnlyEvidenceMoves
    ReleasedOnce
