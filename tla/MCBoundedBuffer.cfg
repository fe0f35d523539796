SPECIFICATION BufferSpec
CONSTANTS
  Producers = {p1, p2}
  Consumers = {c1, c2}
  Items = {x1, x2}
  size_ = 2
  NoThread = NoThread
  NoItem = NoItem
SYMMETRY Symmetry
INVARIANTS
  BufferTypeOK
  MutualExclusion
  PredicateStillTrue
  WithinCapacity
  NoLostWakeup
  SomeoneAwake
PROPERTY LinearizesToStack
