SPECIFICATION FilesSpec
CONSTANTS
  Paths = {"a", "b", "c", "m"}
  Ignored = {"m"}
  Nested = FALSE
  Overlapping = TRUE
  MaxWrites = 1
  Rivals = TRUE
INVARIANTS   FileIsWhole
CHECK_DEADLOCK FALSE
