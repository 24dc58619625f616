CONSTANTS
  Workers = {w1, w2}
  Clients = {c1}
  NumPages = 1
  MaxPageRetries = 0
  MaxCrashes = 0
  MaxRebalances = 1
  MaxRequests = 2
  MaxRecords = 2
SPECIFICATION Spec
SYMMETRY Symmetry
VIEW RevisionView
INVARIANTS NoLostJob
PROPERTIES CancellationHonoured ImplementsAttempts
CHECK_DEADLOCK FALSE
