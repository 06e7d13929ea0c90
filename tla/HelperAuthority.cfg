SPECIFICATION Spec
CONSTANTS
    Gens = {1, 2}
    MaxCredential = 2
    Nonces = {n1, n2, n3}
    Newest = 3
    Horizon = 2
SYMMETRY NonceSymmetry
CONSTRAINT HelperBound
INVARIANTS TypeOK AlwaysRestorable HandledExact
PROPERTIES NeverReopened RetriesOnlyRepeat
CHECK_DEADLOCK FALSE
