SPECIFICATION ProgramsSpec
CONSTANTS
  Main = m
  Producers = {m}
  Consumers = {w1, w2}
  Destroyers = {m}
  short = short
  empty = empty
  long = long
  Jobs = {short, empty, long}
  Capacity = 2
  NoJob = NoJob
  NoThread = NoThread
  m = m
  w1 = w1
  w2 = w2
  Bits <- MCBits
  Content <- MCContent
  Threshold = 2
  Partial = 2
  IntHalf = 4
  NoFile = NoFile
  NoPicture = NoPicture
SYMMETRY Workers
INVARIANTS
  ProgramsTypeOK
  WorkersDrawWhole
  WorkersAgree
  CountedOnce
  FinalPicture
CHECK_DEADLOCK FALSE
