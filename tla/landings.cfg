\* Both modes, an issue of a peer that may be approved at any time (one approved early takes
\* the path of an own issue), two crashes anywhere, main moving once, failing remote and plans.
SPECIFICATION Spec
CONSTANTS
    n_rounds = 2
    MAX_QA_RETRIES = 1
    MAX_ADVERSARY_ROUNDS = 2
    MAX_MERGER_SPAWNS = 1
    Origins = {TRUE}
    Modes = {TRUE, FALSE}
    Shapes = {"own"}
    MaxCrashes = 2
    MaxAdvances = 1
    MaxLeaks = 0
    OpsMayFail = TRUE
    LogMayFail = TRUE
INVARIANTS
    TypeOK
    ChosenWorkIsVetted
    PumpInboundGate
    NoUnresolvedMergeLands
    LandsOnce
    PrIsVetted
    OneOpenPr
PROPERTIES
    OnlyRacedIsLost
\* The pump stops when every issue is terminal.
CHECK_DEADLOCK FALSE
