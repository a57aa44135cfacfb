SPECIFICATION Spec
CONSTANTS
  Parts = {"tagged"}
INVARIANTS
  UntaggedTextKeepsOrder
