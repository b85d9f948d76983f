\* Two issues, one kill, one refused write, readers and views at any time.
SPECIFICATION FairSpec
CONSTANTS
    Issues = {1, 2}
    Wide = {1}
    Limit = 2
    MaxCrashes = 1
    MaxFaults = 1
INVARIANT ReaderSeesPrefix
INVARIANT ViewsAreHonest
INVARIANT LabelsFollowPhase
PROPERTY ExitEnds
