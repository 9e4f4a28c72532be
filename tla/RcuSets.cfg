CONSTANTS
  N = 2
  o1 = o1
  o2 = o2
  o3 = o3
  o4 = o4
  Obj = {o1, o2, o3, o4}
  NoObj = NoObj
  FirstCapacity = 2
  NextCapacity = 4
  MaxEpoch = 2
  Deleter = {1}
SYMMETRY ObjSymmetry
SPECIFICATION Spec
INVARIANTS
  TypeOK
  RcuSetCheck
  NothingLost
  RcuInv
