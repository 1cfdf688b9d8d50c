SPECIFICATION Spec
CONSTANTS
  t1 = t1
  t2 = t2
  p1 = p1
  p2 = p2
  i1 = i1
  o1 = o1
  f1 = f1
  x1 = x1
  None = None
  Tasks = {t1, t2}
  Polls = {p1}
  Instances = {o1}
  Ollama = {o1}
  Files = {}
  Trash = {}
  Kinds = {"start_model_instance", "check_model_instance", "query"}
  Others = {"check", "delete"}
  MaxClock = 0
  MaxFaults = 0
SYMMETRY TaskSymmetry
INVARIANTS
  TypeOK
  PendingHasOwner
PROPERTIES
  FinishedStays
CHECK_DEADLOCK FALSE
