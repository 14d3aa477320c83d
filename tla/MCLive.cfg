CONSTANTS
  Run = {r1, r2}
  PlanId = {p1, p2}
  k1 = k1
  k2 = k2
  v1 = v1
  v2 = v2
  Key = {k1}
  Val = {v1, v2}
  None = None
  SourceTxn <- OneDelete
  InitialRows <- OneDeleteApplied
  MaxDepth = 1
  GapLocks = TRUE
  MaxForeign = 0
  MaxSchema = 0
  MaxCrash = 1
SPECIFICATION FairSpec
PROPERTIES RunEnds TransactionEnds
CHECK_DEADLOCK FALSE
