CONSTANTS
  i1 = i1
  i2 = i2
  i3 = i3
  a = a
  b = b
  empty = empty
  Null = Null
  None = None
  Dom <- WithCopy
  Nullable = {}
  NullReads <- NoNulls
  Unreadable = Unreadable
  Generated <- CopyOfV
  UniqueKeys <- ByPrimary
  MaxRows = 2
  MaxChanges = 2
  MaxForeign = 0
  MaxDepth = 1
SPECIFICATION Spec
INVARIANTS ReadyApplies
CHECK_DEADLOCK FALSE
