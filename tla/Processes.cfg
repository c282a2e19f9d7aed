SPECIFICATION ProcessesSpec
CONSTANTS
  Procs = {p1}
  MAX_BUF = 2
  MaxChunks = 4
  MaxInputs = 1
  Kids = {k1, k2}
  MAX_BUFFER = 1
  MaxOutput = 2
INVARIANTS OutputIsKept 
PROPERTIES  EndsAreSeen
CHECK_DEADLOCK FALSE
