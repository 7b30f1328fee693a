SPECIFICATION FairSpec
CONSTANTS
  Producers = {}
  Consumers = {c1, c2}
  Destroyers = {m}
  Jobs = {j1}
  Capacity = 1
  NoThread = NoThread
  NoJob = NoJob
  c1 = c1
  c2 = c2
  j1 = j1
  m = m
PROPERTY PopReturnsOnceDestroyed
