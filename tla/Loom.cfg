CONSTANTS
  Ids = {i1, i2, i3, i4}
  Words = {w}
  None = None
  Clients <- EditorsOrChatters
  Named = TRUE
  MaxText = 2
SYMMETRY Sym
SPECIFICATION Spec
CHECK_DEADLOCK FALSE
INVARIANTS TreeIsValid ReplyHangsUnderItsPrompt
PROPERTIES MirrorsFollow
