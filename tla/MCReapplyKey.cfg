CONSTANTS
  i1 = i1
  i2 = i2
  i3 = i3
  a = a
  b = b
  empty = empty
  Null = Null
  None = None
  Dom <- Keyed
  Nullable = {}
  NullReads <- NoNulls
  Unreadable = Unreadable
  Generated <- NoGenerated
  UniqueKeys <- ByPrimary
  MaxRows = 1
  MaxChanges = 1
  MaxForeign = 0
  MaxDepth = 0
SPECIFICATION Spec
INVARIANTS KeyIsOfExpectedRow
CHECK_DEADLOCK FALSE
