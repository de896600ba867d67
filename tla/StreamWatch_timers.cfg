SPECIFICATION FairSpec
CONSTANTS
  FirstEvent = {0, 2}
  FirstSemantic = {0, 3}
  StreamIdle = {0, 2}
  SemanticIdle = {0, 2}
  MaxAge = 4
  Orders = {TRUE, FALSE}
INVARIANTS
  WatchInv
  StallIsReal
PROPERTY
  NothingHangs
CHECK_DEADLOCK FALSE
