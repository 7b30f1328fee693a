SPECIFICATION ProgramsSpec
CONSTANTS
  MaxRecords = 4
  Places <- MCPlaces
  Lons <- MCLons
  Lats <- MCLats
  MaxLon = 1
  MaxLat = 1
  NoRecord = NoRecord
  Unset = Unset
  Infinity = Infinity
INVARIANTS
  FirstNearest
  KTypeOK
  TreeSplits
  TreeHoldsAll
  NoneLeftBehind
PROPERTIES
  ImplementCoordQuery
CHECK_DEADLOCK FALSE
