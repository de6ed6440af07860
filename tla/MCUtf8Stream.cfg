SPECIFICATION Spec
CONSTANTS
  Replies <- MCReplies
  Texts <- MCTexts
  LongestPiece = 5
  BufSize = 4
INVARIANT WholeCharacters
INVARIANT HeldBackIsPartial
INVARIANT NothingLost
INVARIANT CharactersLeaveWhole
