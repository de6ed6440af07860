SPECIFICATION Spec
CONSTANTS
  b = b
  x = x
  y = y
  e = e
  Token <- MCToken
  Vocab <- DraftVocab
  Eog = {e}
  StopStrings = {}
  Prompts <- DraftPrompts
  Blend = Blend
  NoToken = NoToken
  Arch = "hybrid"
  NCtx = 16
  NBatch = 2
  NDraft = 2
  Features = {"draft"}
  DecodeCanFail = FALSE
INVARIANT CursorFollowsMemory
