SPECIFICATION CallsSpec
CONSTANTS
  SessionIds = {s1, s2, s3}
  RoomIds = {r1, r2}
  NoRoom = NoRoom
  Never = Never
  MAX_SESSIONS = 2
  MAX_MESSAGES = 1
  MAX_ROOMS = 1
  Ttls = {}
  PageSizes = {1}
  MaxMsgSeq = 2
  MaxTime = 1
  MaxTargets = 2
  MaxPage = 1
  Calls = {c1}
  NoNotice = NoNotice
  MaxSteps = 4
SYMMETRY Symmetry
INVARIANTS TypeOK WithinLimits GhostsWereEvicted ReportIsTrue
PROPERTY NoticeIsCurrent
CHECK_DEADLOCK FALSE
