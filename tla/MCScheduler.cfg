SPECIFICATION Spec
CONSTANTS
  Requests = {a, b, c}
  MaxRunningReq = 2
  MaxExtendTokens = 2
  CacheBudget = 6
  PageSize = 2
  PromptLens = {1, 5}
  OutputLens = {0, 2}
SYMMETRY RequestSymmetry
INVARIANTS
  TypeOK
  RowOwnership
  ChunksAreSound
PROPERTY ContinuationAdvances
CHECK_DEADLOCK FALSE
