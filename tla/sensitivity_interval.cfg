SPECIFICATION Spec
CONSTANTS
  None = None
  Unit = 120
  Eps = 1
  MaxN = 3
  MinSteps = 5
  MaxSteps = 9
  Vectors <- MCVectors
  Requests <- MCRequests
  Ratios = {5, 15, 25}
CHECK_DEADLOCK FALSE
INVARIANT IntervalIsStable
