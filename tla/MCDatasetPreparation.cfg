SPECIFICATION Spec
CONSTANTS
  p1 = p1
  p2 = p2
  Preparers <- MCPreparers
  Window <- MCWindow
  Close <- MCClose
  TwseRuns = {"t1", "t2"}
  EsunRuns = {"e1", "e2"}
  MaxAttempts = 2
  MaxPrepares = 3
SYMMETRY Symmetry
CHECK_DEADLOCK FALSE
INVARIANTS
  PreparationTypeOK
  VersionsTellTheTruth
  LineageKeepsEvidence
  SupplementJustified
  NeverAmbiguous
  VersionsCoverWindow
PROPERTIES
  ImplementsLedger
