SPECIFICATION Spec
CONSTANTS
    s1 = s1
    s2 = s2
    CandidateCount = 1
    Successes = {s1, s2}
    Failures = {f1, f2}
    Weight <- MCWeight
    NoBundle = NoBundle
    NoSeal = NoSeal
    MaxRetries = 1
    Processes = {p1, p2}
    MaxCalls = 2
INVARIANTS
    NoFalseAlarm
CHECK_DEADLOCK FALSE
