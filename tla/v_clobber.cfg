\* Somebody else advances main between the ancestry check and the move.
SPECIFICATION Spec
CONSTANTS
    MaxNames = 1
    MaxEdits = 1
    MaxMoves = 1
    MaxPushes = 0
    MaxFaults = 0
    MaxCrashes = 0
INVARIANT MainNeverClobbered
\* The issue ends.
CHECK_DEADLOCK FALSE
