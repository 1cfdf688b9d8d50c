SPECIFICATION Spec
CONSTANTS
  m1 = m1
  m2 = m2
  f1 = f1
  f2 = f2
  x1 = x1
  x2 = x2
  x3 = x3
  e1 = e1
  e2 = e2
  i1 = i1
  i2 = i2
  o1 = o1
  o2 = o2
  o3 = o3
  n1 = n1
  n2 = n2
  None = None
  Models <- TwoModels
  Files <- TwoFiles
  Trash <- ThreeItems
  Runtimes <- TwoRuntimes
  Instances <- TwoInstances
  Ops <- ThreeOps
  Places <- ThreePlaces
  Named <- CustomPath
  Scopes <- KindSets
SYMMETRY OpSymmetry
INVARIANTS
  TypeOK
  VerifiedNamesPath
  StartsVerified
  DeletedInTrash
  TrashOfDeleted
  RuntimeOfInstance
  
CHECK_DEADLOCK FALSE
