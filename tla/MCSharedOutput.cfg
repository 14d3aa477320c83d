CONSTANTS
  b1 = b1
  b2 = b2
  u1 = u1
  u2 = u2
  u3 = u3
  p1 = p1
  p2 = p2
  p3 = p3
  None = None
  Build = {b1, b2}
  Update = {}
  Path = {p1}
  Existing <- NoReads
  Output <- SameOutput
  Gtid = {g1}
  MaxFiles = 2
  MaxOps = 2
SPECIFICATION Spec
PROPERTIES NeverOverwritten
CHECK_DEADLOCK FALSE
