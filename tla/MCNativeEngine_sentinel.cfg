SPECIFICATION Spec
CONSTANTS
  b = b
  x = x
  y = y
  e = e
  Token <- MCToken
  Vocab <- MCVocab
  Eog = {e}
  StopStrings = {}
  Prompts <- BosPrompts
  Blend = Blend
  NoToken = NoToken
  Arch = "attention"
  NCtx = 12
  NBatch = 2
  NDraft = 1
  Features = {}
  DecodeCanFail = TRUE
INVARIANT StreamClosedWhenIdle
