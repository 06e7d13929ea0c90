SPECIFICATION Spec
CONSTANTS
    Gens = {1}
    MaxCredential = 2
    Nonces = {n1, n2, n3}
    Newest = 2
    Horizon = 1
    MaxFaults = 2
SYMMETRY NonceSymmetry
CONSTRAINT OnePermit
INVARIANTS TypeOK LiveMatchesDisk DurableRecord
PROPERTIES AtomicStore
CHECK_DEADLOCK FALSE
