CONSTANTS
    MaxEvent = 2
    AckRequests = {}
    Conns = {c1, c2}
    Drain = "refuses_empty"
    LossyEvents = {}
    FaultKinds = {}
    MaxFaults = 0
SPECIFICATION Spec
INVARIANT SuccessorWaits
CHECK_DEADLOCK FALSE
