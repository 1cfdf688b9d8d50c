SPECIFICATION Spec
CONSTANTS
  t1 = t1
  t2 = t2
  p1 = p1
  p2 = p2
  i1 = i1
  o1 = o1
  f1 = f1
  x1 = x1
  None = None
  Tasks = {t1, t2}
  Polls = {p1, p2}
  Instances = {}
  Ollama = {}
  Files = {f1}
  Trash = {x1}
  Kinds = {"verify_model_file", "cleanup_model_file"}
  Others = {}
  MaxClock = 0
  MaxFaults = 1
SYMMETRY TaskSymmetry
INVARIANTS
  PendingHasOwner
CHECK_DEADLOCK FALSE
