CONSTANTS
  i1 = i1
  i2 = i2
  i3 = i3
  a = a
  b = b
  empty = empty
  Null = Null
  None = None
  Dom <- TwoKeysWithCopy
  Nullable = {"m", "n", "w"}
  NullReads <- TextNulls
  Unreadable = Unreadable
  Generated <- CopyOfN
  UniqueKeys <- ByNullable
  MaxRows = 1
  MaxChanges = 2
  MaxForeign = 1
  MaxDepth = 1
SPECIFICATION Spec
PROPERTIES ExactEffect
INVARIANTS NoFalseConflict
CHECK_DEADLOCK FALSE
