SPECIFICATION FairSpec
CONSTANTS
  MaxAttach = 1
  MaxStreams = 2
  MaxCalls = 3
  MaxTokens = 2
  Calls = {"initModel", "getEmbedding", "resetContext", "dispose"}
  Serialised = TRUE
INVARIANT OwnReply
INVARIANT ClosedIsComplete
INVARIANT AnsweredOnce
INVARIANT OpenIsServed
PROPERTY FreeAfterUse
PROPERTY EveryStreamEnds
PROPERTY EveryCallAnswered
CHECK_DEADLOCK FALSE
