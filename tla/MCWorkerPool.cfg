SPECIFICATION PoolFairSpec
CONSTANTS
  Main = m
  Producers = {m}
  Consumers = {w1, w2}
  Destroyers = {m}
  Jobs = {j1, j2, j3}
  Capacity = 2
  NoThread = NoThread
  NoJob = NoJob
  j1 = j1
  j2 = j2
  j3 = j3
  m = m
  w1 = w1
  w2 = w2
PROPERTIES
  ImplementsJobPool
  EveryJobFinished
  OneWorkerTerminates
INVARIANTS
  PoolTypeOK
  EachJobOnce
  DoneAtExit
  ExitOnlyWhenDone
CHECK_DEADLOCK FALSE
