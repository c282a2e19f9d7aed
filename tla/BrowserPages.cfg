SPECIFICATION PagesSpec
CONSTANTS
  Tabs = {main, t1}
  Main = main
  MaxClosers = 1
  Calls = {c1, c2, c3}
  Patterns = {p, q}
  MaxStarts = 2
  Replays = {r1}
  MAX_ACTION_LOG = 2
  Files = {2}
  MaxActions = 5
  MaxArrays = 3
INVARIANTS OneTabIsExact RoutesAreInstalled PlaysWhatWasThere
SYMMETRY Symmetry
CHECK_DEADLOCK FALSE
