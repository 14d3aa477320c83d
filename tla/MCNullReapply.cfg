CONSTANTS
  i1 = i1
  i2 = i2
  i3 = i3
  a = a
  b = b
  empty = empty
  Null = Null
  None = None
  Dom <- KeyAndText
  Nullable = {"m","n"}
  NullReads <- NumberAndText
  Unreadable = Unreadable
  Generated <- NoGenerated
  UniqueKeys <- ByNullable
  MaxRows = 1
  MaxChanges = 2
  MaxForeign = 2
  MaxDepth = 0
SPECIFICATION Spec
PROPERTIES ExactWhateverTheKey
CHECK_DEADLOCK FALSE
