SPECIFICATION FairSpec
CONSTANTS
  Burst = 2
  MaxRetries = 2
  Backoff = 1
  Threshold = 4
  ResetTimeout = 3
  Ttl = 2
  Replies = {"value"}
  MaxOutages = 1
  MaxRejections = 2
  MaxWindow = 3
INVARIANTS RequestCeiling ClosedIsHealthy
PROPERTIES NoRepeatWithinTtl Returns Recovers
