SPECIFICATION FairSpec
CONSTANTS
  Events = {e1, e2}
  Audit = {e2}
  Long = {e1}
  Handlers = {h1}
  QueueSize = 1
  MaxBatchSize = 2
  WriterBatchSize = 2
  MaxOffered = 2
  MaxFailures = 1
  MaxEnds = 0
PROPERTIES SpooledReplayed
