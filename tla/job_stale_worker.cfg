CONSTANTS
  Workers = {w1, w2}
  Clients = {c1}
  NumPages = 1
  MaxPageRetries = 0
  MaxCrashes = 0
  MaxRebalances = 1
  MaxRequests = 0
  MaxRecords = 1
SPECIFICATION Spec
PROPERTY PageCheckpointed
CHECK_DEADLOCK FALSE
