CONSTANTS
    MaxEvent = 2
    AckRequests = {a1}
    Conns = {c1, c2}
    Drain = "returns_empty"
    LossyEvents = {1}
    FaultKinds = {"lease", "waiter", "print", "write", "child", "drain", "listener", "coverage"}
    MaxFaults = 2
SPECIFICATION Spec
SYMMETRY Symmetry
CONSTRAINT ReplayIsAFault
INVARIANTS TypeOK ClaimsExact BatchesContiguous DeliverySound CoveragePausedByClaim ReceiptTruthful
PROPERTIES RecordStable CoverageSpec
CHECK_DEADLOCK FALSE
