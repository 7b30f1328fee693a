SPECIFICATION ProgramsSpec
CONSTANTS
  MaxRecords = 2
  Places <- MCPlaces
  Lons <- MCLons
  Lats <- MCLats
  MaxLon = 1
  MaxLat = 1
  NoRecord = NoRecord
  Unset = Unset
  Infinity = Infinity
INVARIANTS
  NearestToQuery
CHECK_DEADLOCK FALSE
