SPECIFICATION Spec
CONSTANTS
  None = None
  Params = {1}
  Rows = 2
  Fetch = Fetch
  Fit = Fit
  MaxEntries = 2
  MaxActive = 2
  MaxResult = 1
  MaxTotal = 2
  MaxStarts = 3
  Shutdowns = TRUE
INVARIANT CompletedIsWhole
CHECK_DEADLOCK FALSE
