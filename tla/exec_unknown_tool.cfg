CONSTANTS
  i1 = i1
  i2 = i2
  read_tool = read_tool
  load_tool = load_tool
  good = good
  bad = bad
  ctx1 = ctx1
  ctx2 = ctx2
  v1 = v1
  v2 = v2
  None = None
  Names = {read_tool, load_tool}
  Versions = {v1, v2}
  AllowedRisks <- AllButMedium
  ConfirmRisks <- HighRisk
  Invocations = {i1}
  Inputs = {good}
  Contexts = {ctx1}
  Specs <- FewSpecs
  MaxArtifacts = 1
SPECIFICATION Spec
INVARIANTS
  UnknownToolNeverRan
