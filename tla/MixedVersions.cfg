CONSTANTS
  t1 = t1
  t2 = t2
  x = x
  y = y
  Thread = {t1, t2}
  NoThread = NoThread
  ThreadZero = t1
  Item = {x, y}
  NoItem = NoItem
  Opaque = {y}
  SpinBound = 2
  Quota <- QuotaFourOne
  CanRead <- ReadNone
  CanWrite <- WriteByOne

SPECIFICATION Spec
INVARIANT NonopaqueVersionsIncrease
