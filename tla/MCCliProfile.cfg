SPECIFICATION Spec
CONSTANTS
  UnitHz = 1000
  PpmScale = 1000
  Default <- MCDefault
  References <- MCReferences
  Filters <- MCFilters
  Timeouts = {50}
  Flags = {"highCurrent"}
  Reports = {"dataReady"}
  Values <- MCValues
  Bounds <- MCBounds
  NoProfile = NoProfile
  MaxRevision = 2
INVARIANT StagedIsHonest
