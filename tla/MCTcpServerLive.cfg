SPECIFICATION Spec
CONSTANTS
  Producers = {1, 2}
  Consumers = {c0}
  Clients = {a, b}
  Items = {a, b, Garbage}
  size_ = 2
  NoThread = NoThread
  NoItem = NoItem
  NoClient = NoClient
  Garbage = Garbage
PROPERTY ReadIsConsumed
CHECK_DEADLOCK FALSE
