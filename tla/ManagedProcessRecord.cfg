SPECIFICATION Spec
CONSTANTS
  b1 = b1
  d1 = d1
  p1 = p1
  p2 = p2
  None = None
  Instances = {b1}
  Docker = {}
  Scripts = {}
  Procs = {p1, p2}
  MaxFaults = 0
INVARIANTS
  RunningIsRecorded
