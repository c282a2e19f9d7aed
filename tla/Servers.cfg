SPECIFICATION ServersSpec
CONSTANTS
  Waits = {w1, w2}
  MAX_CAPTURED = 2
  MaxRequests = 4
  MaxStops = 2
  Streams = {s1, s2}
  Posts = {q1, q2}
  NoSession = none
  MaxInput = 6
  MaxChunk = 3
INVARIANTS WaitsAreTrue LostWithTheClient FramingIsExact
PROPERTIES WaitsEnd
CHECK_DEADLOCK FALSE
