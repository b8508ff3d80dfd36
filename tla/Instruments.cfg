CONSTANTS
  SaeThreads = {t, u}
  Names = {p}
  Features = {1, 2}
  Provider = {"a"}
  Local = {"mine"}
  LayersOf <- SaeLayers
  WidthOf <- Widths
  None = None
  MaxLoads = 2
  MaxOps = 4
  Lenses = {"A", "B", "X"}
  Compatible = {"A", "B"}
  FittedLayers <- SourceLayers
  Addresses = {1, 2, 3}
  LensNames = {n}
  Words = {w}
  Null = Null
  MaxChanges = 2
  MaxCalls = 2
  ModelLayers = {1, 2, 3}
  GeometryBand = {1, 2}
  GatedBand = {1}
  LensBand = {2}
  LiveBand = {1, 2}
  SaeBand = {3}
  AggTailDepth = 2
  MaxForwards = 3
SPECIFICATION MCSpec
CHECK_DEADLOCK FALSE
INVARIANTS DictionaryIsOne LensIsOne ReadsAreOfTheirForward
PROPERTIES RestartRestoresTheDictionary
