SPECIFICATION SuiteSpec
CONSTANTS
  Parts = {"tail"}
  PageSize = 1
  Requests = {a, b, c}
  Tokens = {1, 2}
  MaxRunningReq = 2
  MaxSeqLen = 5
  NumSlots = 13
  Prompts <- EnginePrompts
  OutputLens = {2}
  StateSlots = {s1, s2, s3}
SYMMETRY RequestSymmetry
INVARIANT MatchedKvComputed
