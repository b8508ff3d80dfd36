CONSTANTS
  Conns = {a, b}
  Fans = {a}
  Siblings = 2
  MaxRequests = 1
  MaxTokens = 1
  MaxMoves = 1
  MaxQueue = 1
  MaxLanded = 1
  MaxPending = 1
  None = None
  All = All
  Done = Done
SPECIFICATION MCSpec
CHECK_DEADLOCK FALSE
INVARIANTS WorkerHoldsLock DoneFollowsTree
PROPERTIES StopEndsFan RequestEnds
