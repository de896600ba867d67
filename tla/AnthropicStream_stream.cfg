SPECIFICATION Spec
CONSTANTS
  ToolIndex = {0, 1}
  MaxUses = 1
  MaxGenerations = 2
  MaxEvents = 4
INVARIANTS AnthropicInv ShadowFitsAnswer
PROPERTY FollowsMessages
CHECK_DEADLOCK FALSE
