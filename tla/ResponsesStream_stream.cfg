SPECIFICATION Spec
CONSTANTS
  ToolIndex = {0, 1}
  MaxUses = 1
  MaxChunks = 4
  Capacity = 1
INVARIANT ResponsesInv
PROPERTY FollowsProtocol
CHECK_DEADLOCK FALSE
