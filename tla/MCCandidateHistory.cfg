SPECIFICATION CandidateSpec
CONSTANTS
  w1 = w1
  w2 = w2
  Workers <- MCWorkers
  Targets = {4, 6}
  DaysPerMonth = 3
  Listed = 2
  TwsePrices = {1}
  EsunPrices = {1, 2}
  Legacy <- MCLegacy
  Needed = 4
  MaxMonths = 3
  MaxStarts = 2
  MaxCalls = 3
SYMMETRY Symmetry
CONSTRAINT MCScope
CHECK_DEADLOCK FALSE
INVARIANTS
  CandidateTypeOK
  HistoriesHold
PROPERTIES
  HistoryStands
