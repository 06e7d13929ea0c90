SPECIFICATION Spec
CONSTANTS
    MaxId = 4
    MaxQueue = 1
    MaxLines = 5
    MaxNotes = 2
    MaxInbound = 2
    MaxFaults = 2
    SlowPipe = TRUE
INVARIANTS LaneQuiet
CHECK_DEADLOCK FALSE
