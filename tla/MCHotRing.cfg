SPECIFICATION Spec
CONSTANTS
  NBITS = 5
  K0 = 2
  MaxK = 3
  MaxNodes = 4
  Keys = {0, 4, 5, 6, 9, 40}
  Values = {v1}
  NULL = NULL
  INCOME_THRESHOLD = 1
  REQUESTS = 2
  HEAD_COUNTER = 4
  NODE_COUNTER = 2
INVARIANTS RingsWellFormed UniformRingsComplete
PROPERTIES GetsKeepContents NullOnlyAtMilestoneOrWrap
CHECK_DEADLOCK FALSE
