SPECIFICATION HistorySpec
CONSTANTS
  KeyCount = 2
  Request = {r1, r2}
  Cooldowns = {0, 1}
  MaxTime = 2
INVARIANTS
  TypeOK
  NoStrandedProbe
PROPERTIES
  NeverRefusesUsable
  FollowsLifecycle
