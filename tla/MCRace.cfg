CONSTANTS
  Run = {r1, r2}
  PlanId = {p1, p2}
  k1 = k1
  k2 = k2
  v1 = v1
  v2 = v2
  Key = {k1, k2}
  Val = {v1, v2}
  None = None
  SourceTxn <- TwoRows
  InitialRows <- TwoRowsApplied
  MaxDepth = 1
  GapLocks = FALSE
  MaxForeign = 2
  MaxSchema = 1
  MaxCrash = 1
SYMMETRY Interchangeable
SPECIFICATION Spec
INVARIANTS TypeOK FailureIsFinal SuccessIsCommitted SchemaHeld
PROPERTIES AtomicCompensation NoFork
CHECK_DEADLOCK FALSE
