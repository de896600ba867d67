SPECIFICATION PromptSpec
CONSTANTS
  FirstEvent = {0}
  FirstSemantic = {0}
  StreamIdle = {3}
  SemanticIdle = {0}
  MaxAge = 5
  Orders = {FALSE}
INVARIANT IdleIsUpstreams
CHECK_DEADLOCK FALSE
