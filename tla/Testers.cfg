SPECIFICATION Spec
CONSTANTS
  Nothing = Nothing
  AnyValue = AnyValue
  OutOfRange = OutOfRange
  Abort = Abort
  Thread = {1, 2}
  MinInt <- IntMin
  MaxInt = 1000
  ARRAY_SZ = 3
  MaxTries = 2
  Workloads <- WL
INVARIANTS
  StrictlySerializable
  Opaque
  NothingLeft
  CodeAssertionsHold
  TesterCheck
