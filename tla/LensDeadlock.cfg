CONSTANTS
  Procs = {p, q}
  Folders = {f}
  m1 = m1
  m2 = m2
  raw = raw
  from = from
  Targets <- BothPairs
  Scopes <- AllScopes
  Transferred <- MappedPairs
  Corpora = {c1, c2}
  Installed = {f}
  Absent = Absent
  None = None
  All = All
  Menus = {{"fit", "clear", "transfer", "refresh"}, {"fit", "remove", "create", "update", "template"}, {"merge", "fit", "refresh", "remove"}}
  MaxOps = 0
  MaxCrashes = 0
  Session = s
  OtherProcs = {o}
  PromptSets <- SharedPrefixes
  LensLayers = {1, 2}
  LayerChoices <- NestedLayers
  Cadences = {2}
  Ids = {1, 2, 3, 4, 5, 6, 7, 8, 9, 10, 11, 12}
  Damaged = Damaged
  NoLens = NoLens
  MaxEvents = 3
  MaxFaults = 0
  LossAfterInterrupt = FALSE
SPECIFICATION MCSpec
CHECK_DEADLOCK FALSE
INVARIANT StateLockIsALeaf
