SPECIFICATION Spec
CONSTANTS
  MaxAttach = 1
  MaxStreams = 2
  MaxCalls = 1
  MaxTokens = 2
  Calls = {"initModel"}
  Serialised = TRUE
INVARIANT EveryReplyIsOwn
CHECK_DEADLOCK FALSE
