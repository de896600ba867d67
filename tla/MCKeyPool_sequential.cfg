SPECIFICATION FairSpec
CONSTANTS
  KeyCount = 3
  Request = {r1}
  Cooldowns = {0, 1, 2}
  MaxTime = 4
PROPERTIES
  FollowsStickyRouting
  Terminates
  ProbeReleased
