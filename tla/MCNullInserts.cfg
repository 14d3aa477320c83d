CONSTANTS
  i1 = i1
  i2 = i2
  i3 = i3
  a = a
  b = b
  empty = empty
  Null = Null
  None = None
  Dom <- KeyAndText
  Nullable = {"m"}
  NullReads <- NumberNull
  Unreadable = Unreadable
  Generated <- NoGenerated
  UniqueKeys <- ByMaybeNull
  MaxRows = 2
  MaxChanges = 3
  MaxForeign = 0
  MaxDepth = 0
SPECIFICATION Spec
INVARIANTS ReadyWhateverTheKey
CHECK_DEADLOCK FALSE
