CONSTANTS
  Prompts <- TwoPrompts
  MinShared = 2
  Budgets = {1, 2, 3}
  SlidingWindow = 3
  MaxRows = 2
  MaxSeries = 2
  MaxNodes = 7
  Layers = {1, 2}
  Names = {"v", "w", "c", "d", "neutral"}
  Scopes <- StackScopes
  Covers <- LayersOf
  Overlapping = {{"c", "d"}}
  PlanCacheSize = 1
  MaxFrames = 2
  Callers = {c1}
  Workers = {}
  Kinds = {k1, k2}
  Prefill = {k1}
  Voiced = {k1}
  None = None
  Ops = {"steer", "generate", "exclusive", "fit", "stop", "prefix", "joint"}
  MaxTokens = 2
  MaxStack = 3
  MaxChanges = 1
  MaxRuns = 2
  MaxForwards = 3
  Words = {"a", "b"}
  Space = " "
  Partial = "u"
  Opens = "<"
  Closes = ">"
  Message = "|"
  Eos = "."
  Formats <- FiveFormats
  StopStrings <- ThreeStops
  MaxNewTokens = 5
  SplitsBeforeThinking = FALSE
  Nothing = Nothing
  Unset = Unset
  Absent = Absent
  Texts <- SomeTexts
  Value <- Halves
  Slug <- Slugs
  Variants = {"sae", "role"}
  Manifolds <- ThreeManifolds
  ProfileKeys <- TwoProfiles
  MaxInstalls = 1
SPECIFICATION MCSpec
CHECK_DEADLOCK FALSE
INVARIANTS
  RowsKeepApart
  SteeringIsWhatScopesSay
  TextIsTheResponse
  PrefixIsNeutral
  ReceiptsKeepTheirMeaning
