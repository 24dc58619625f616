CONSTANTS
  Workers = {w1}
  Clients = {c1}
  NumPages = 2
  MaxPageRetries = 1
  MaxCrashes = 1
  MaxRebalances = 0
  MaxRequests = 2
  MaxRecords = 4
SPECIFICATION FairSpec
INVARIANTS TypeOK StaleAttemptUntouched NoReprocessing
PROPERTIES PageCheckpointed JobSettles
CHECK_DEADLOCK FALSE
