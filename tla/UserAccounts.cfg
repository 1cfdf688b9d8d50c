SPECIFICATION Spec
CONSTANTS
  u1 = u1
  u2 = u2
  g1 = g1
  s1 = s1
  s2 = s2
  r1 = r1
  r2 = r2
  None = None
  Users = {u1, u2}
  Groups = {g1}
  Sessions = {s1, s2}
  Reqs = {r1, r2}
  Roles = {"admin", "viewer"}
  Scopes <- TwoScopes
SYMMETRY AccountSymmetry
INVARIANTS
  TypeOK
  SetupOnce
  AdminRemains
  SessionsCurrent
  AdminWasAdmin
  MembersExist
CHECK_DEADLOCK FALSE
