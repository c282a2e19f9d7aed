SPECIFICATION ClientsSpec
CONSTANTS
  MaxMsgs = 2
  MAX_PAYLOAD_BYTES = 3
  MAX_TOTAL_PAYLOAD = 4
  MaxSent = 6
INVARIANT MessagesAreTrue
PROPERTY IsACall
CHECK_DEADLOCK FALSE
