SPECIFICATION FairSpec
CONSTANTS
  Producers = {p1}
  Consumers = {c1}
  Destroyers = {m}
  Jobs = {j1}
  Capacity = 2
  NoThread = NoThread
  NoJob = NoJob
  c1 = c1
  j1 = j1
  m = m
  p1 = p1
PROPERTY PushBlocksOnlyWhenFull
