CONSTANTS
  t1 = t1
  t2 = t2
  x = x
  y = y
  Thread = {t1, t2}
  NoThread = NoThread
  ThreadZero = t1
  Item = {x, y}
  NoItem = NoItem
  Opaque = {x, y}
  SpinBound = 2
  Quota <- QuotaTwoOne
  CanRead <- ReadXByOne
  CanWrite <- WriteAll
SPECIFICATION Spec
INVARIANTS
  TypeOK
  LockOwnership
  UnlockedValueCommitted
  ReadPairs
  VersionsIncrease
  LockPointReads
  Serializable
  SnapshotExceptAnchor
  SerialInv
  SnapshotInv
