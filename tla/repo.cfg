\* A Merger, two commits on main by others, a foreign push, a failing jj call, two crashes.
SPECIFICATION Spec
CONSTANTS
    MaxNames = 3
    MaxEdits = 2
    MaxMoves = 2
    MaxPushes = 1
    MaxFaults = 1
    MaxCrashes = 2
INVARIANT MainKeepsPublished
INVARIANT ForeignPushKept
INVARIANT RejectedOnlyForOthers
INVARIANT MergeLandsAsJudged
\* The issue ends.
CHECK_DEADLOCK FALSE
