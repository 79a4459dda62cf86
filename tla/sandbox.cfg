CONSTANTS
  d1 = d1
  d2 = d2
  d3 = d3
  User = User
  None = None
  Downloads = {d1, d2}
  ActiveFloor = 2
  Retention = 3
  MaxTime = 4
SPECIFICATION Spec
SYMMETRY Symmetry
INVARIANTS
  InFlightProtected
  SuccessIsKept
PROPERTIES
  LoadsVerifiedFiles
