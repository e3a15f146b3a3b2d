SPECIFICATION Spec
CONSTANTS
    Symbols = {1}
    Workers = {r1, r2}
    NoSymbol = NoSymbol
    MaxBatches = 1
    MaxStarts = 3
    Watchlists <- MCSingle
    Resolutions = {"resolved"}
PROPERTIES
    SucceededNeverRerun
CHECK_DEADLOCK FALSE
