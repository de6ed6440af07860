SPECIFICATION Spec
CONSTANTS
  MaxAttach = 2
  MaxStreams = 1
  MaxCalls = 1
  MaxTokens = 1
  Calls = {"initModel"}
  Serialised = TRUE
INVARIANT OpenIsServed
CHECK_DEADLOCK FALSE
