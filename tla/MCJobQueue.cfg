SPECIFICATION Spec
CONSTANTS
  Producers = {p1, p2}
  Consumers = {c1, c2}
  Destroyers = {m}
  Jobs = {j1, j2}
  Capacity = 2
  NoThread = NoThread
  NoJob = NoJob
  p1 = p1
  p2 = p2
  c1 = c1
  c2 = c2
  m = m
  j1 = j1
  j2 = j2
SYMMETRY Symmetry
INVARIANTS
  TypeOK
  MutualExclusion
  RingConsistent
  ReleasedNotUsed
  NoLostJobSignal
  NoLostRoomSignal
  DestroyerNotForgotten
PROPERTY
  ImplementsBoundedQueue
