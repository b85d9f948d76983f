\* Two crashes land work nobody reviewed.
SPECIFICATION Spec
CONSTANTS
    n_rounds = 1
    MAX_QA_RETRIES = 1
    MAX_ADVERSARY_ROUNDS = 1
    MAX_MERGER_SPAWNS = 1
    Origins = {FALSE}
    Modes = {FALSE}
    Shapes = {"own"}
    MaxCrashes = 2
    MaxAdvances = 0
    MaxLeaks = 0
    OpsMayFail = FALSE
    LogMayFail = FALSE
INVARIANTS
    OnlyVettedLands
\* The pump stops when every issue is terminal.
CHECK_DEADLOCK FALSE
