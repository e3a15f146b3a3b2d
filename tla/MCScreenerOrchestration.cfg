SPECIFICATION Spec
CONSTANTS
    s1 = s1
    s2 = s2
    CandidateCount = 2
    Successes = {s1, s2}
    Failures = {f1, f2}
    Weight <- MCWeight
    NoBundle = NoBundle
    NoSeal = NoSeal
    MaxRetries = 2
    Processes = {p1, p2}
    MaxCalls = 3
INVARIANTS
    OrchestrationTypeOK
    StatusMatchesCandidates
    SealedResultHolds
    ReportsHold
    ReportMatchesRun
    NeverRefused
PROPERTIES
    ResultsKept
CHECK_DEADLOCK FALSE
