SPECIFICATION FairSpec
CONSTANTS
  Attempts = 3
  Deadline = 2
  Delays = {0, 1, 2}
  FailureThreshold = 4
  ResetAfter = 3
  Window = 6
  MinInterval = 1
  TokensPerMinute = 7
  FirstEstimate = 2
  Costs = {0, 2}
  LlmTimeout = 2
  HasFallback = TRUE
INVARIANTS
  
  RetriesBeginInTime
PROPERTIES
  ProbesAreSpaced
  EveryCallReturns
CHECK_DEADLOCK FALSE
