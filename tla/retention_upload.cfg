CONSTANTS
  Upload = upload
  Source = source
  Nobody = nobody
  Jobs = {j1}
  JobObjects = {o1, o2}
  Cleaners = {c1}
  BatchSize = 2
  MaxFailures = 0
  MaxRetries = 0
  MaxLapses = 0
SPECIFICATION Spec
INVARIANTS UploadsOutliveJobs
CHECK_DEADLOCK FALSE
