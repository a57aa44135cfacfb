SPECIFICATION SuiteSpec
CONSTANTS
  Parts = {"experts", "states", "budget"}
  Requests = {a, b, c}
  Prompts <- SomePrompts
  Sampled = {1, 2, 3}
  Opener = 2
  Ender = 3
  MaxTokens = 3
  MaxRunningReq = 2
  MaxExtend = 2
  PageSize = 1
  MaxAborts = 1
  NumLayers = 2
  NumExperts = 3
  CacheSizes <- TightSizes
  MaxStep = 4
SYMMETRY RequestSymmetry
INVARIANTS
  TypeOK
  MapsAgree
  ResidentBytes
  GatherReadsRightExpert
  RoomBeforeEviction
  BudgetIsKept
PROPERTY StatesAreHistories
