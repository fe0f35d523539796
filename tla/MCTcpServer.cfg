SPECIFICATION Spec
CONSTANTS
  Producers = {1, 2, 3}
  Consumers = {c0}
  Clients = {a, b, c}
  Items = {a, b, c, Garbage}
  size_ = 1
  NoThread = NoThread
  NoItem = NoItem
  NoClient = NoClient
  Garbage = Garbage
SYMMETRY Symmetry
INVARIANTS RequestInOnePlace DiesInThirdTurn OwnClientUnlessOvertaken
PROPERTY OnlySecondAcceptOvertakes
CHECK_DEADLOCK FALSE
