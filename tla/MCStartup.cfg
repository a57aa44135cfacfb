SPECIFICATION SuiteSpec
CONSTANTS
  Parts = {"load", "banks", "kernels"}
  Checkpoints <- Shipped
  ExpertIds <- Two
  Backends <- AllBackends
  Loaders = {1, 2, 3}
  LoaderProcess <- TwoProcesses
  Edits = {}
  MaxEdits = 0
  MaxCrashes = 1
  MaxFailed = 1
INVARIANTS
  ModelIsItsCheckpoint
  BanksHoldTheirExperts
PROPERTY KernelsAreWhole
