SPECIFICATION SessionsSpec
CONSTANTS
  Calls = {c1, c2, c3}
  MAX_SESSIONS = 2
  MaxClosers = 2
  Waiters = {w1, w2}
  MAX_DIALOG_QUEUE = 2
  MAX_DIALOG_LOG = 1
  MaxAnswers = 3
  MaxDialogs = 2
  Tabs = {main, t1, t2}
  Main = main
INVARIANTS ReservationsExact NoStrayBrowser  AnswersServeInOrder
PROPERTIES CallsEnd
CHECK_DEADLOCK FALSE
