CONSTANTS
  red = red
  green = green
  blue = blue
  grey = grey
  Null = Null
  Error = Error
  NoBytes = NoBytes
  Empty = Empty
  Texts = {Empty, red, green}
  Columns <- AllTypes
  Folded <- RedIsGreen
  Word = 16
  Exact = 4
  GoPlain = 3
  SqlPlain = 6
  MaxNumber = 9
SPECIFICATION Spec
INVARIANTS TypeOK UnchangedIsRestorable DriftIsSeen
PROPERTIES RestoresOldValue
CHECK_DEADLOCK FALSE
