SPECIFICATION PartsSpec
CONSTANTS
  SessionIds = {s1, s2}
  RoomIds = {r1}
  NoRoom = NoRoom
  Never = Never
  MAX_SESSIONS = 2
  MAX_MESSAGES = 2
  MAX_ROOMS = 1
  Ttls = {0}
  PageSizes = {1}
  MaxMsgSeq = 3
  MaxTime = 2
  MaxTargets = 2
  MaxPage = 1
  FanoutCap = 3
  FanoutMsgSeq = 4
  FanoutTargets = 5
INVARIANTS ThreadsAndTimesOrdered LoopEvictsInOrder
PROPERTIES EvictionSparesTheLiving KeepsMailbox EveryMessageIsSeen
