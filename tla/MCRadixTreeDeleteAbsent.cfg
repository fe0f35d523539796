SPECIFICATION Spec
CONSTANTS
  MAP_SIZE = 2
  ULONG = 8
  UINT = 4
  TopShift = 2
  Keys = {0, 1, 6}
  Items = {a}
  Readers = {}
  Copies = 2
  MaxRetired = 1
  NULL = NULL
  DeleteAbsent = TRUE
INVARIANT DeleteRemovesOnlyIndex
