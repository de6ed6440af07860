SPECIFICATION Spec
CONSTANTS
  MaxAttach = 2
  MaxStreams = 1
  MaxCalls = 3
  MaxTokens = 2
  Calls = {"initModel", "getEmbedding", "resetContext", "dispose"}
  Serialised = TRUE
PROPERTY FreeAfterUse
CHECK_DEADLOCK FALSE
