SPECIFICATION Spec
CONSTANTS
    Symbols = {1, 2}
    Workers = {r1}
    NoSymbol = NoSymbol
    MaxBatches = 1
    MaxStarts = 2
    Watchlists <- MCEdited
    Resolutions = {"resolved"}
INVARIANTS
    RevisionIsExecuted
CHECK_DEADLOCK FALSE
