\* Two attempts, two crashes, scripts that write more than is captured.
SPECIFICATION FairSpec
CONSTANTS
    MaxAttempts = 2
    MaxCrashes = 2
    MAX_CAPTURE = 2
    PIPE = 1
    MaxOutput = 3
INVARIANT VerdictIsTheScripts
INVARIANT QuietRemoval
INVARIANT QaReadsQuietTree
PROPERTY RoundEnds
\* The issue's last round ends the model.
CHECK_DEADLOCK FALSE
