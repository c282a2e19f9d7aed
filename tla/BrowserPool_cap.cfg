SPECIFICATION Spec
CONSTANTS
  Calls = {c1, c2}
  MAX_SESSIONS = 1
  MaxClosers = 1
INVARIANT CapHolds
CHECK_DEADLOCK FALSE
