CONSTANTS
  b1 = b1
  b2 = b2
  u1 = u1
  u2 = u2
  u3 = u3
  p1 = p1
  p2 = p2
  p3 = p3
  None = None
  Build = {b1}
  Update = {u1, u2, u3}
  Path = {p1, p2, p3}
  Existing <- Reads
  Output <- Writes
  Gtid = {g1, g2}
  MaxFiles = 2
  MaxOps = 4
SPECIFICATION Spec
INVARIANTS CurrentIsComplete
PROPERTIES NeverOverwritten
CHECK_DEADLOCK FALSE
