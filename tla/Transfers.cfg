SPECIFICATION TransfersSpec
CONSTANTS
  Calls = {c1, c2, c3}
  Scopes = {"arm", "vault"}
  Lifetime = 2
  Margin = 1
  Timeout = 1
  KeyedByScope = TRUE
  MaxTime = 3
  MaxRedirects = 2
  RetryCount = 2
  Tasks = 5
  MAX_CONCURRENCY = 3
  Blocks = 5
  Modulus = 4
  Honours = {TRUE}
  Stalls = FALSE
  PutBlocks = 4
  PutModulus = 5
  MAX_RETRIES = 1
  MaxResends = 2
  MaxCopies = 2
INVARIANTS TokenFitsScope RequestsBounded BodyIsFramed EachTaskOnce
PROPERTIES ServedIsHonoured GetIsATransfer PutIsATransfer TransfersEnd
CHECK_DEADLOCK FALSE
