SPECIFICATION Spec
CONSTANTS
  NIL = NIL
  POISON = POISON
  NONE = NONE
  NoThread = NoThread
  Supers = {1}
  Base = 2
  MaxCount = 2
  MaxFailures = 1
  LwnfsProcs = {p1, p2}
  LwnfsWritten = {1}
  JifsProcs = {p1}
  JifsWritten = {2}
  Masks = {1}
  MaxFailed = 1
  Heads = {h1, h2}
  Nodes = {n1, n2, n3}
  HashSize = 2
  Keys = {0, 1, 3, 6}
  INT = 4
  ULONG = 16
  MaxNodes = 4
  Producers = {t1, t2}
  Consumers = {c1, c2}
  MaxPushed = 4
  ExampleProducers = {t1, t2}
  ExampleConsumers = {c1}
  Items = {1}
  size_ = 1
  NoItem = NoItem
  Counts = {1, 2, 4, 5}
  Words = {"hi", "there"}
  Objects = {o1, o2}
  Cpus = {u1, u2}
  Users = {p1}
  DeviceSize = 2
  MaxLoads = 2
INVARIANTS
  ListsExact
  DisplayShowsAll
  SomeConsumerAwake
  PoolConsistent
  QuietWhenUnloaded
  UndisturbedReadsWhole
  TreesReleased
PROPERTIES
  EveryValuePopped
  SoleCallerReturns
  ItemsKeepFlowing
  AveragePrinted
CHECK_DEADLOCK FALSE
