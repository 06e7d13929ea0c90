CONSTANTS
    Arms = {m1}
    Gens = {1, 2}
    Requests = {r1}
    MaxAttempt = 1
    Ports = {"codex", "scripted"}
SPECIFICATION Spec
INVARIANTS TypeOK RecordsTruthful
PROPERTIES EvidenceOnlyDegrades ContractSpec
CONSTRAINT ScriptedOnce
CHECK_DEADLOCK FALSE
