CONSTANTS
  stac = stac
  nominatim = nominatim
  d = d
  Nothing = Nothing
  MaxTasks = 3
  Providers = {stac, nominatim}
  Geocoders = {nominatim}
  Unpolled = {stac}
  Datasets = {d}
  MaxChunks = 2
SPECIFICATION BTFairSpec
INVARIANTS
  SlotIsLive
  EnabledIsSelected
  CancelIsPrompt
PROPERTIES
  FailedIsOver
  EveryTaskReports
