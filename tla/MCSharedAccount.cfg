CONSTANTS
  local = local
  staging = staging
  a1 = a1
  a2 = a2
  f1 = f1
  None = None
  Torn = Torn
  Stub = Stub
  Rank <- ByName
  Command = {c1, c2, c3}
  Jobs <- Doctors
  ProfileName = {local, staging}
  Address = {a1, a2}
  Server = {s1, s2}
  Path = {f1}
  Configs <- OneAccount
  Plans <- Earlier
  First = f1
  OneInit = TRUE
  SteadyAddresses = TRUE
  MaxFailovers = 1
  MaxEdits = 1
SPECIFICATION Spec
INVARIANTS MetaStands
SYMMETRY Symmetry
CHECK_DEADLOCK FALSE
