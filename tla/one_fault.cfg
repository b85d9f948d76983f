\* Local mode, one crash, one workspace that cannot be forgotten, requeues by QA and by findings.
SPECIFICATION Spec
CONSTANTS
    n_rounds = 2
    MAX_QA_RETRIES = 2
    MAX_ADVERSARY_ROUNDS = 2
    MAX_MERGER_SPAWNS = 1
    Origins = {TRUE, FALSE}
    Modes = {FALSE}
    Shapes = {"own", "below"}
    MaxCrashes = 1
    MaxAdvances = 1
    MaxLeaks = 1
    OpsMayFail = FALSE
    LogMayFail = TRUE
INVARIANTS
    OnlyVettedLands
    Reclaimed
\* The pump stops when every issue is terminal.
CHECK_DEADLOCK FALSE
