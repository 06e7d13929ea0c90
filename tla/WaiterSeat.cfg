CONSTANTS
    MaxEvent = 2
    AckRequests = {}
    Conns = {c1, c2}
    Drain = "returns_empty"
    LossyEvents = {1}
    FaultKinds = {"waiter", "write"}
    MaxFaults = 1
SPECIFICATION SeatSpec
PROPERTIES EventsHandled
CHECK_DEADLOCK FALSE
