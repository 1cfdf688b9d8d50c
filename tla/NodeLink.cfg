SPECIFICATION FairSpec
CONSTANTS
  a1 = a1
  a2 = a2
  n1 = n1
  n2 = n2
  d1 = d1
  c1 = c1
  None = None
  Truncated = Truncated
  Agents = {a1, a2}
  NodeIds = {n1, n2}
  Savers = {"s1", "s2"}
  Values = {"v1"}
  Fields = {"f1"}
  Collectors = {c1}
  Gpus = {d1}
  CollectorOf <- OneCollector
  Scopes <- LinkScopes
INVARIANTS
  TypeOK
  MissingWasGone
  RowsAsReported
  RunsVetted
PROPERTIES
  Reconnects
  ConfigConverges
CHECK_DEADLOCK FALSE
