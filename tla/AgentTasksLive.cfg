SPECIFICATION FairSpec
CONSTANTS
  t1 = t1
  t2 = t2
  p1 = p1
  p2 = p2
  i1 = i1
  o1 = o1
  f1 = f1
  x1 = x1
  None = None
  Tasks = {t1, t2}
  Polls = {p1}
  Instances = {i1}
  Ollama = {}
  Files = {}
  Trash = {}
  Kinds = {"start_model_instance"}
  Others = {}
  MaxClock = 0
  MaxFaults = 1
PROPERTIES
  TaskResolved
  RowResolved
CHECK_DEADLOCK FALSE
