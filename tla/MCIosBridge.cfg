SPECIFICATION FairSpec
CONSTANTS
  MaxCalls = 5
  Methods = {"initModel", "initDraftModel", "initVision", "getEmbedding", "startGeneration", "resetContext", "dispose"}
  PrefillFails = TRUE
  Serialised = TRUE
INVARIANT OneDecodeAtATime
INVARIANT UsesAreLive
INVARIANT StopIsNotLost
PROPERTY UnloadReturns
CHECK_DEADLOCK FALSE
