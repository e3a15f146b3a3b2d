SPECIFICATION Spec
CONSTANTS
    Symbols = {1}
    Workers = {r1}
    NoSymbol = NoSymbol
    MaxBatches = 1
    MaxStarts = 2
    Watchlists <- MCSingle
    Resolutions = {"resolved"}
PROPERTIES
    InterruptedRunResumable
CHECK_DEADLOCK FALSE
