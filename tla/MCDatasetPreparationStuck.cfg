SPECIFICATION Spec
CONSTANTS
  p1 = p1
  p2 = p2
  Preparers = {p1}
  Window <- MCWindow
  Close <- MCClose
  TwseRuns = {"t1", "t2"}
  EsunRuns = {"e1", "e2"}
  MaxAttempts = 2
  MaxPrepares = 3
CHECK_DEADLOCK FALSE
INVARIANTS
  StaysReconcilable
