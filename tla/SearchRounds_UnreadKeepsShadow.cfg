SPECIFICATION Spec
CONSTANTS
  Frontend = {"messages", "messagesWhole", "responses", "responsesWhole"}
  Asked = {1, 3}
  MaxUsesPerRequest = 2
  MaxGenerations = 3
  MaxCalls = 3
INVARIANT UnreadKeepsShadow
CHECK_DEADLOCK FALSE
