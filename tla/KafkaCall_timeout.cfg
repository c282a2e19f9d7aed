SPECIFICATION FairSpec
CONSTANTS
  SlowBroker = TRUE
  MaxSent = 3
PROPERTY TimeoutEndsTheCall
CHECK_DEADLOCK FALSE
