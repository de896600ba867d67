SPECIFICATION Spec
CONSTANTS
  Id = {a, b}
  NoId = none
  MaxBlocks = 4
INVARIANT ItemsKeepOrder
CHECK_DEADLOCK FALSE
