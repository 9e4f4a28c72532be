CONSTANTS
  N = 2
  o1 = o1
  o2 = o2
  o3 = o3
  o4 = o4
  Obj = {o1}
  NoObj = NoObj
  FirstCapacity = 2
  NextCapacity = 4
  MaxEpoch = 3
  Deleter = {1}
SPECIFICATION FairSpec
INVARIANT ElderProtected
PROPERTY Reclaimed
