SPECIFICATION Spec
CONSTANTS
  Parts = {"windowed", "grouped", "stateful", "addressed", "sycl", "captured", "sampler"}
INVARIANTS
  ReadsOwnHistory
  AttendsItsWindow
  NothingIsOverwritten
  DrawsAreAllowed
