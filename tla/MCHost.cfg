SPECIFICATION HostSpec
CONSTANTS
    MaxId = 4
    MaxQueue = 1
    MaxLines = 6
    MaxNotes = 2
    MaxInbound = 2
    MaxFaults = 2
    SlowPipe = FALSE
    MaxImages = 2
    MaxProcFaults = 3
    Redelivered = 2
    MaxPosts = 3
    MaxIntervals = 3
    MaxWaitFaults = 2
    Processes = {p1, p2}
    Threads = {t1, t2}
    MaxPathFaults = 1
    MaxCycles = 4
    QueueOffers = 6
    QueueTicks = 3
    QueueLimit = 2
INVARIANTS
    HostTypes AnswersTruthful SingleFlight DispatchSafe NotesInOrder GroupContained QualifiedServer
    DoorbellProven WatchReports HomeSafe SimulatorSound ConformanceMet
CHECK_DEADLOCK FALSE
