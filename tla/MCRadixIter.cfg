SPECIFICATION IterSpec
CONSTANTS
  MAP_SIZE = 2
  ULONG = 4
  UINT = 4
  TopShift = 1
  Keys = {0, 1, 3}
  Items = {a}
  Readers = {r1}
  Copies = 2
  MaxRetired = 1
  NULL = NULL
  DeleteAbsent = FALSE
  Starts = {0, 1}
INVARIANTS NothingSkipped IteratorInLiveNode
 
CHECK_DEADLOCK FALSE
