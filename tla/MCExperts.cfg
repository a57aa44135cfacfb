SPECIFICATION SuiteFairSpec
CONSTANTS
  Parts = {"worker", "raising", "exact", "split", "bench", "router"}
  Callers = {c1, c2, c3}
  MaxForwards = 2
  XpuMayRaise = FALSE
  Boxes <- SomeCards
  BenchDtypes = {"unset", "mxfp4"}
  BenchFormats = {"bf16", "mxfp4"}
  BenchModels = {FALSE}
  BenchEnvs = {FALSE, TRUE}
  BenchOuts <- OutWhereRead
  MaxBenches = 2
INVARIANTS
  SlotIsMine
  ResultIsMine
  BuffersKept
  NoLostJob
  DispatchIsReference
  HybridIsMeasured
  RoutedSumIsReference
PROPERTIES
  WorkerServes
  ImplementsExecutor
