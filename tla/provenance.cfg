CONSTANTS
  a = a
  b = b
  t1 = t1
  t2 = t2
  None = None
  Ids = {a, b}
  Times = {t1, t2}
  MaxLines = 8
SPECIFICATION FairSpec
INVARIANTS
  OneRecordPerIdentity
  OpenMeansFile
  PromisesKept
  AlwaysOpens
PROPERTIES
  ImplementsLog
CHECK_DEADLOCK FALSE
