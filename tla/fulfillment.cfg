CONSTANTS
  c1 = c1
  c2 = c2
  g1 = g1
  g2 = g2
  osm = osm
  None = None
  Crs = {c1, c2}
  Cells = {g1, g2}
  FieldNames = {1, 2}
  TypeNames = {"integer", "text"}
  Providers = {osm}
  Asked <- MCAsked
  Snapshots <- MCSnapshots
  Columns <- MCColumns
  ScanCap = 2
SPECIFICATION Spec
CHECK_DEADLOCK FALSE
INVARIANTS
  AvailableIsCertain
  ReprojectionRepairs
  ProposalFillsGap
  SatisfiedIsMeasured
  ValidationAgrees
  KeysIdentify
