SPECIFICATION FairSpec
CONSTANTS
  Producers = {p1, p2}
  Consumers = {c1}
  Destroyers = {}
  Jobs = {j1}
  Capacity = 2
  NoThread = NoThread
  NoJob = NoJob
  c1 = c1
  j1 = j1
  p1 = p1
  p2 = p2
PROPERTY PushBlocksOnlyWhenFull
