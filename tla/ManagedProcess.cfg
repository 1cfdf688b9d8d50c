SPECIFICATION FairSpec
CONSTANTS
  b1 = b1
  d1 = d1
  p1 = p1
  p2 = p2
  None = None
  Instances = {b1, d1}
  Docker = {d1}
  Scripts = {}
  Procs = {p1, p2}
  MaxFaults = 1
INVARIANTS
  TypeOK
  
  
PROPERTIES
  
  DeadForgotten
