SPECIFICATION Spec
CONSTANTS
  Producers = {1, 2, 3}
  Consumers = {c0}
  Clients = {a, b, c}
  Items = {a, b, c, Garbage}
  size_ = 1
  NoThread = NoThread
  NoItem = NoItem
  NoClient = NoClient
  Garbage = Garbage
SYMMETRY Symmetry
INVARIANT ThreadPerClient
CHECK_DEADLOCK FALSE
