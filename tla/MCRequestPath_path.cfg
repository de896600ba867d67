SPECIFICATION Spec
CONSTANTS
  Id = {a}
  NoId = none
  Client <- MCClient
  MaxBlocks = 8
  Bound = {0, 9}
  Budget = {0, 1, 2}
  Tokens = {0, 20, 24}
  Cap = 4
  LowBudget = 2
  Window = 24
  Margin = 1
  MinOutput = 2
INVARIANTS PathInv CountAgrees EpochReasoning WindowKept
PROPERTY PrefixStable
CHECK_DEADLOCK FALSE
