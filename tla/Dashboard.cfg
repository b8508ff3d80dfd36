CONSTANTS
  Desks <- FiveDesks
  MaxAsks = 4
  Nobody = Nobody
  Nodes = {a, b}
  Refreshers = {r}
  MaxTreeRev = 3
  MaxBreaks = 1
  Unread = Unread
  Tabs = {t, u}
  Identities = {i, j}
  Contexts = {small}
  Ids = {"a", "b"}
  TopId = "r"
  Rows <- ShortRows
  MaxClaims = 3
  MaxEdits = 1
  Missing = Missing
  Pages = {p, q}
  MaxDeeds = 2
  MaxFailures = 1
  MaxMutations = 3
  MaxRecords = 2
  MaxTasks = 2
  Unsaved = Unsaved
  Inherit = Inherit
  Calls <- TwoCalls
  Requests <- FourRequests
  Modes = {"inverted", "seed=2, temperature=0.3"}
  Partials <- Pinned
  Members <- OneMember
  CastLabels = {"deer", "user"}
  Settings <- ThreeSettings
  MaxTurns = 5
  MaxRolls = 3
  MaxMoves = 4
SPECIFICATION MCSpec
SYMMETRY PagesAreAlike
CHECK_DEADLOCK FALSE
INVARIANTS
  SlotIsSingle
  MirrorIsWhole
  ReproducedAsRecorded
PROPERTIES
  WorkNeverShrinks
  ChatsAreKept
