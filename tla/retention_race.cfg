CONSTANTS
  Upload = upload
  Source = source
  Nobody = nobody
  Jobs = {j1, j2}
  JobObjects = {o1, o2}
  Cleaners = {c1, c2}
  BatchSize = 2
  MaxFailures = 1
  MaxRetries = 1
  MaxLapses = 1
SPECIFICATION FairSpec
INVARIANTS TypeOK VisibleIntact DeletedLeavesNothing
PROPERTIES ExpiredJobsGo
CHECK_DEADLOCK FALSE
