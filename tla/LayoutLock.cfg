CONSTANTS
  N = 3
  Quota <- TwoEach
SPECIFICATION LockFairSpec
INVARIANTS
  LockTypeOK
  ReadsClean
  ChangeAlone
PROPERTY LockCallsReturn
