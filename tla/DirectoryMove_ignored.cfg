SPECIFICATION Spec
CONSTANTS
  Paths = {"a", "b", "m"}
  Ignored = {"m"}
  Nested = FALSE
  Overlapping = FALSE
  MaxWrites = 1
INVARIANT EntireTreeMoves
CHECK_DEADLOCK FALSE
