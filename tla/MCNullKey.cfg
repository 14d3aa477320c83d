CONSTANTS
  i1 = i1
  i2 = i2
  i3 = i3
  a = a
  b = b
  empty = empty
  Null = Null
  None = None
  Dom <- TwoKeys
  Nullable = {"m", "n"}
  NullReads <- NumberNulls
  Unreadable = Unreadable
  Generated <- NoGenerated
  UniqueKeys <- ByNullable
  MaxRows = 2
  MaxChanges = 2
  MaxForeign = 0
  MaxDepth = 0
SPECIFICATION Spec
INVARIANTS KeySelectsOneRow
CHECK_DEADLOCK FALSE
