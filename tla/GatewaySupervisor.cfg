SPECIFICATION FairSpec
CONSTANTS
  p1 = p1
  p2 = p2
  q1 = q1
  None = None
  Truncated = Truncated
  Pids = {p1, p2}
  Requests = {q1}
  MaxBirths = 3
  MaxFaults = 2
INVARIANTS
  TypeOK
  GatewayIsRecorded
  StoppedIsStopped
  KillsGatewaysOnly
PROPERTIES
  RunningServes
CHECK_DEADLOCK FALSE
