CONSTANTS
    Arms = {m1, m2}
    Gens = {1}
    Requests = {r1, r2}
    MaxAttempt = 2
    Ports = {"codex"}
SPECIFICATION Spec
INVARIANTS AtMostOnceAfterClaim EffectAccounted FollowupsCoherent
PROPERTIES RecoveryResumes
SYMMETRY Symmetry
CONSTRAINT TwoDispatches
CHECK_DEADLOCK FALSE
