CONSTANTS
  i1 = i1
  i2 = i2
  i3 = i3
  a = a
  b = b
  empty = empty
  Null = Null
  None = None
  Dom <- KeyedText
  Nullable = {"t"}
  NullReads <- NullText
  Unreadable = Unreadable
  Generated <- NoGenerated
  UniqueKeys <- ByPrimary
  MaxRows = 1
  MaxChanges = 1
  MaxForeign = 1
  MaxDepth = 0
SPECIFICATION Spec
PROPERTIES ResolvedEffect
CHECK_DEADLOCK FALSE
