CONSTANTS
  Fitters = {p, q}
  FitFolders = {"f", "g"}
  Specs <- TwoSpecs
  RowsOf <- TwoRows
  ModelLayers = {1, 2}
  Covered <- SaeLayers
  Requests <- SomeRequests
  BatchMax = 2
  CacheLimit = 3
  MaxFits = 2
  MaxChanges = 1
  MaxMishaps = 1
  Missing = Missing
  Namespaces = {"local"}
  Names = {"a"}
  Bare = Bare
  Keys <- SomeKeys
  Loaders <- BareVariantToo
  Releases = {"sae-r"}
  MaxWrites = 2
  MaxRegisters = 1
  MaxChanging = 1
  MaxHeld = 2
  Nothing = Nothing
  Hosts = {h, i}
  a1 = a1
  t1 = t1
  t2 = t2
  Places = {a1, b1}
  Texts = {t1, t2}
  Models = {m}
  Gone = Gone
  Unset = Unset
  Journeys <- FiveJourneys
  AuthorsMeetInstalls = FALSE
  MaxTrips = 2
  MaxLosses = 1
SPECIFICATION MCSpec
SYMMETRY SymmetricActors
CHECK_DEADLOCK FALSE
INVARIANTS FitIsOfItsInputs HeldIsCurrent TravelsWhole
PROPERTIES SharedTemplateIsKept
