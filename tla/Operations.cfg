SPECIFICATION MCSpec
CONSTANTS
  None = None
  Params = {1}
  Rows = 2
  Fetch = Fetch
  Fit = Fit
  NPrompts = 3
  NRows = 4
  Layers <- TwoLayers
  PromptBatch = 4
  DimBatch = 2
  BudgetRows = 2
  CheckpointEvery = 2
  Bases = {0, 1}
  Requested = {"auto", "batched", "replicated"}
  FaultsOn <- AllFaults
  MaxEntries = 2
  MaxActive = 2
  MaxResult = 1
  MaxTotal = 2
  MaxStarts = 3
  Shutdowns = TRUE
CHECK_DEADLOCK FALSE
INVARIANTS ReceiptsAreTrue NothingIsAbandoned AccountsAreExact
PROPERTIES WorkEnds
