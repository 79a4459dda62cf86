SPECIFICATION Spec
CONSTANTS
  a = a
  b = b
  LayerIds = {a, b}
  Blank = Blank
  Repr = Repr
  Scalar = Scalar
  None = None
  MaxCalls = 2
  Requests <- MCRequests
CHECK_DEADLOCK FALSE
INVARIANTS InvalidRunsNothing ResultIsTheChain
PROPERTY EarlierResultsStay
