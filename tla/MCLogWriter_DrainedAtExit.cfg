SPECIFICATION Spec
CONSTANTS
  Capacity = 1
  MaxFile = 2
  MaxTotal = 4
  Target = 2
  BufferSize = 2
  Size = {1, 2}
  Found <- MCFound
  MaxRecords = 4
  MaxStarts = 2
PROPERTIES DrainedAtExit
CHECK_DEADLOCK FALSE
