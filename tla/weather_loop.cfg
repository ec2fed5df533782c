CONSTANTS
  scan = scan
  left = left
  london = london
  max = max
  min = min
  Absent = Absent
  Nobody = Nobody
  Resting = Resting
  Thread = {scan}
  Group = {london}
  Metric = {max, min}
  HasKey = TRUE
  SuccessTTL = 3
  FailureTTL = 2
  MinInterval = 1
  RetryDelay = 1
  Backoff = 1
SPECIFICATION FairSpec
INVARIANTS TypeOK NothingLeftOut
PROPERTIES JobsEnd Recovers
CHECK_DEADLOCK FALSE
