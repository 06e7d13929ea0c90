CONSTANTS
    Arms = {m1}
    Gens = {1}
    Requests = {r1}
    MaxAttempt = 1
    Ports = {"scripted"}
SPECIFICATION Spec
PROPERTY RecoveryResumes
CHECK_DEADLOCK FALSE
