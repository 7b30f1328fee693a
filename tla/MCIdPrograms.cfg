SPECIFICATION PSpec
CONSTANTS
  LineKinds <- MCLineKinds
  MaxLines = 4
  FirstCapacity = 1
  Garbage = {1, 3}
  IntMax = 8
  Needles = {0, 1, 2, 3}
  NoNeedle = NoNeedle
  NoRecord = NoRecord
INVARIANTS
  PTypeOK
  ReadsIntoArray
  ColumnsKept
  AnswersFromFile
  WindowHolds
  CrashesExplained
PROPERTIES
  ImplementIdQuery
CHECK_DEADLOCK FALSE
