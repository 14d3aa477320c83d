CONSTANTS
  red = red
  green = green
  blue = blue
  grey = grey
  Null = Null
  Error = Error
  NoBytes = NoBytes
  Empty = Empty
  Texts = {Empty, red, green}
  Columns <- Floats
  Folded <- ByBytes
  Word = 16
  Exact = 4
  GoPlain = 3
  SqlPlain = 6
  MaxNumber = 9
SPECIFICATION Spec
INVARIANTS EveryValueRestorable
CHECK_DEADLOCK FALSE
