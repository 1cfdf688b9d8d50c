SPECIFICATION FairSpec
CONSTANTS
  t1 = t1
  t2 = t2
  p1 = p1
  p2 = p2
  i1 = i1
  o1 = o1
  f1 = f1
  x1 = x1
  None = None
  Tasks = {t1}
  Polls = {p1}
  Instances = {}
  Ollama = {}
  Files = {f1}
  Trash = {x1}
  Kinds = {"verify_model_file", "cleanup_model_file"}
  Others = {"list", "check", "delete"}
  MaxClock = 1
  MaxFaults = 1
PROPERTIES
  RowResolved
CHECK_DEADLOCK FALSE
