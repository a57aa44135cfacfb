SPECIFICATION FairSpec
CONSTANTS
  Requests = {a, b, c}
  MaxRunningReq = 2
  MaxExtendTokens = 2
  CacheBudget = 4
  PageSize = 1
  PromptLens = {1, 3}
  OutputLens = {2}
PROPERTY EventuallyFinished
CHECK_DEADLOCK FALSE
