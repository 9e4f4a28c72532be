SPECIFICATION Spec
CONSTANTS
  Nothing = Nothing
  AnyValue = AnyValue
  OutOfRange = OutOfRange
  Abort = Abort
  Thread = {1, 2, 3, 4}
  MinInt <- IntMin
  MaxInt = 1000
  Tests <- AllTests
INVARIANTS
  ResultsAsAsserted
  CodeAssertionsHold
  TreesBalanced
