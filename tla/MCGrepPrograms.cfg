SPECIFICATION ProgramsFairSpec
CONSTANTS
  Main = m
  Producers = {m}
  Consumers = {w1, w2}
  Destroyers = {m}
  plain = plain
  first = first
  last = last
  Jobs = {plain, first, last}
  Capacity = 2
  NoJob = NoJob
  NoFile = NoFile
  NoThread = NoThread
  m = m
  w1 = w1
  w2 = w2
  Lines <- MCLines
INVARIANTS
  ProgramsTypeOK
  OutputInFileOrder
  OutputComplete
  PrintAlone
PROPERTIES
  EveryFileSearched
CHECK_DEADLOCK FALSE
