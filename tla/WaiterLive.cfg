CONSTANTS
    MaxEvent = 1
    AckRequests = {}
    Conns = {c1, c2}
    Drain = "returns_empty"
    LossyEvents = {}
    FaultKinds = {"lease", "waiter", "write", "resend"}
    MaxFaults = 2
SPECIFICATION FairSpec
PROPERTIES RearmApplied WriterServed
CHECK_DEADLOCK FALSE
