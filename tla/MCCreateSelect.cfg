CONSTANTS
  orders = orders
  items = items
  memory = memory
  action_markers = action_markers
  unredo_other = unredo_other
  i1 = i1
  i2 = i2
  big = big
  id1 = id1
  id2 = id2
  Server = {s1}
  Table = {orders, items, memory, action_markers, unredo_other}
  SystemTable = {action_markers, unredo_other}
  MarkerTable = action_markers
  InnoDB = {orders, items, action_markers, unredo_other}
  Image = {i1, i2, big, id1, id2}
  Size <- Sizes
  None = None
  Workload <- Selected
  RowLimit = 0
  ByteLimit = 0
  Limit = 0
  TableFilter = None
  MaxTxns = 2
  MaxAlter = 0
SPECIFICATION Spec
INVARIANTS OneForOne
CHECK_DEADLOCK FALSE
