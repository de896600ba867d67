SPECIFICATION Spec
CONSTANTS
  Capacity = 1
  MaxFile = 2
  MaxTotal = 4
  Target = 3
  BufferSize = 2
  Size = {1, 3}
  Found <- MCFound
  MaxRecords = 3
  MaxStarts = 2
INVARIANTS LogInv QuotaKept
PROPERTIES OldFilesIntact OldestGoesFirst DropsReported
CHECK_DEADLOCK FALSE
