SPECIFICATION PSpec
CONSTANTS
  LineKinds <- MCLineKinds
  MaxLines = 1
  FirstCapacity = 1
  Garbage = {1, 3}
  IntMax = 2
  Needles = {1}
  NoNeedle = NoNeedle
  NoRecord = NoRecord
INVARIANTS
  AllColumnsKept
CHECK_DEADLOCK FALSE
