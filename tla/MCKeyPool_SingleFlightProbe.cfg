SPECIFICATION CoarseSpec
CONSTANTS
  KeyCount = 1
  Request = {r1, r2, r3}
  Cooldowns = {1, 2}
  MaxTime = 4
INVARIANT SingleFlightProbe
