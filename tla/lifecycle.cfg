\* Both modes and origins, one crash, main moving once, plans that fail: the lifecycle, and that it ends.
SPECIFICATION FairSpec
CONSTANTS
    n_rounds = 1
    MAX_QA_RETRIES = 2
    MAX_ADVERSARY_ROUNDS = 2
    MAX_MERGER_SPAWNS = 1
    Origins = {TRUE, FALSE}
    Modes = {TRUE, FALSE}
    Shapes = {"own"}
    MaxCrashes = 1
    MaxAdvances = 1
    MaxLeaks = 0
    OpsMayFail = TRUE
    LogMayFail = FALSE
PROPERTIES
    ImplementsLifecycle
    OwnIssueEnds
    ApprovedIsResumed
\* The pump stops when every issue is terminal.
CHECK_DEADLOCK FALSE
