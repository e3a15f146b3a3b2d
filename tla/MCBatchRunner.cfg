SPECIFICATION Spec
CONSTANTS
    Symbols = {1, 2}
    Workers = {r1, r2}
    NoSymbol = NoSymbol
    MaxBatches = 2
    MaxStarts = 4
    Watchlists <- MCGrown
    Resolutions = {"resolved", "deferred_awaiting_market_data", "skipped_no_new_market_date"}
SYMMETRY MCSymmetry
CONSTRAINT MCScope
INVARIANTS
    BatchTypeOK
    OneBatchPerDate
    VerdictMatchesSymbols
    SucceededSymbolHasRun
    OneNotePerSuccess
    ClaimExclusive
PROPERTIES
    AloneNeverRerun
    SuccessStands
CHECK_DEADLOCK FALSE
