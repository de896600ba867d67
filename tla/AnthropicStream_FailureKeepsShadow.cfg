SPECIFICATION Spec
CONSTANTS
  ToolIndex = {0, 1}
  MaxUses = 1
  MaxGenerations = 2
  MaxEvents = 4
INVARIANT FailureKeepsShadow
CHECK_DEADLOCK FALSE
