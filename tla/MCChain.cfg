CONSTANTS
  Run = {r1, r2, r3}
  PlanId = {p1, p2, p3}
  k1 = k1
  k2 = k2
  v1 = v1
  v2 = v2
  Key = {k1}
  Val = {v1}
  None = None
  SourceTxn <- OneDelete
  InitialRows <- OneDeleteApplied
  MaxDepth = 2
  GapLocks = TRUE
  MaxForeign = 0
  MaxSchema = 0
  MaxCrash = 0
SYMMETRY Interchangeable
SPECIFICATION Spec
INVARIANTS ExactlyOnce
PROPERTIES ImplementsLedger
CHECK_DEADLOCK FALSE
