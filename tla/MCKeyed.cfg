CONSTANTS
  i1 = i1
  i2 = i2
  i3 = i3
  a = a
  b = b
  empty = empty
  Null = Null
  None = None
  Dom <- Keyed
  Nullable = {}
  NullReads <- NoNulls
  Unreadable = Unreadable
  Generated <- NoGenerated
  UniqueKeys <- ByPrimary
  MaxRows = 2
  MaxChanges = 2
  MaxForeign = 2
  MaxDepth = 2
SYMMETRY Interchangeable
SPECIFICATION Spec
INVARIANTS TypeOK ReadyApplies
PROPERTIES ExactEffect ResolvedEffect BoundRowsUnmoved
CHECK_DEADLOCK FALSE
