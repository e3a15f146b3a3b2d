SPECIFICATION Spec
CONSTANTS
    NoName = NoName
    p1 = p1
    p2 = p2
    Symbols = {1, 2}
    Days = {1, 2, 3, 4}
    Targets = {2, 4}
    Issues <- MCIssues
    BaseClass <- MCBase
    Others = {2}
    Processes = {p1, p2}
    ClosedDays = {4}
    Limits = {10}
    NoProcess = NoProcess
    MaxStarts = 3
    MaxAmend = 3
CONSTRAINT MCScope
SYMMETRY Symmetry
INVARIANTS DailyTypeOK DailyHolds
PROPERTY DailyStands
CHECK_DEADLOCK FALSE
