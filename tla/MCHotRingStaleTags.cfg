SPECIFICATION Spec
CONSTANTS
  NBITS = 5
  K0 = 2
  MaxK = 3
  MaxNodes = 4
  Keys = {5, 6, 7}
  Values = {v1}
  NULL = NULL
  INCOME_THRESHOLD = 1
  REQUESTS = 2
  HEAD_COUNTER = 4
  NODE_COUNTER = 2
INVARIANT EveryKeyFound
CHECK_DEADLOCK FALSE
