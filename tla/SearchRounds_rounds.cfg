SPECIFICATION FairSpec
CONSTANTS
  Frontend = {"messages", "messagesWhole", "responses", "responsesWhole"}
  Asked = {1, 3}
  MaxUsesPerRequest = 2
  MaxGenerations = 3
  MaxCalls = 3
INVARIANTS
  TypeOK
  WithinCaps
  CallsAnswered
  PausesOnlyAtALimit
  DisconnectKeepsShadow
PROPERTY
  RequestEnds
CHECK_DEADLOCK FALSE
