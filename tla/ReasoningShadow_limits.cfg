SPECIFICATION Spec
CONSTANTS
  Session = {s1, s2, s3}
  Call = {c1, c2}
  Size = {1, 2, 3}
  MaxSessions = 2
  MaxTotalBytes = 5
  MaxEntryBytes = 2
  Ttl = 1
  MaxTime = 3
INVARIANTS
  ShadowInv
  WithinLimits
PROPERTY
  NewSessionSurvives
