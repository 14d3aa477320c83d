CONSTANTS
  orders = orders
  items = items
  memory = memory
  action_markers = action_markers
  unredo_other = unredo_other
  i1 = i1
  i2 = i2
  big = big
  id1 = id1
  id2 = id2
  Server = {s1}
  Table = {orders, items, memory, action_markers, unredo_other}
  SystemTable = {action_markers, unredo_other}
  MarkerTable = action_markers
  InnoDB = {orders, items, action_markers, unredo_other}
  Image = {i1, i2, big, id1, id2}
  Size <- Sizes
  None = None
  Workload <- Ordinary
  RowLimit = 2
  ByteLimit = 4
  Limit = 3
  TableFilter = None
  MaxTxns = 4
  MaxAlter = 1
SPECIFICATION FairSpec
INVARIANTS OneForOne ExecutableIsComplete SummaryIsHonest BoundedMemory ActionsAreCorrelated
PROPERTIES Delivered
CHECK_DEADLOCK FALSE
