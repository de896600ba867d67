SPECIFICATION FlushFairSpec
CONSTANTS
  KeyCount = 2
  Request = {r1}
  Cooldowns = {1}
  MaxTime = 1
INVARIANT
  PersistInv
PROPERTIES
  FinalFlushIsCurrent
  CooldownsReachDisk
