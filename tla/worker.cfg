\* Local and GitHub evidence for one dispatch; a worktree that is edited once.
SPECIFICATION Spec
CONSTANTS
    Checks <- Three
    Paths <- Files
    Candidates <- Names
    RuleCandidates <- Names
    TextSuffix <- Files
    Approvals <- Given
    TreeOf <- Forest
    TextOf <- Contents
    Utf8 = {"helper", "undoes", "reverts", "checks", "vacuous"}
    MaxFiles = 2
    MaxFileBytes = 2
    MaxTotalBytes = 3
    Blueprints = {"b", "c"}
    HumanApprovals <- Humans
    Approved <- Registry
    Fixture <- TheFixture
    Trees <- Worktrees
    Unpinned = {1}
    NoValue = NoValue
    Roots = {{}, {"iam"}}
    MaxEdits = 1
INVARIANTS FactsHold NothingMissed QuietIsPinned
PROPERTIES NearerTheEnd EveryRequestEnds
\* There is one request.
CHECK_DEADLOCK FALSE
