SPECIFICATION Spec
CONSTANTS
  b = b
  x = x
  y = y
  e = e
  Token <- MCToken
  Vocab <- MCVocab
  Eog = {e}
  StopStrings = {y}
  Prompts <- DraftPrompts
  Blend = Blend
  NoToken = NoToken
  Arch = "attention"
  NCtx = 16
  NBatch = 2
  NDraft = 2
  Features = {"draft", "vision"}
  DecodeCanFail = TRUE
INVARIANT CacheExactUntilShift
INVARIANT CursorFollowsMemory
PROPERTY AbortedCallCountsDown
PROPERTY ImplementsConversation
CHECK_DEADLOCK FALSE
