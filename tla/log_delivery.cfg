SPECIFICATION FairSpec
CONSTANTS
  Events = {e1, a1, a2}
  Audit = {a1, a2}
  Long = {}
  Handlers = {h1, h2}
  QueueSize = 1
  MaxBatchSize = 2
  WriterBatchSize = 2
  MaxOffered = 2
  MaxFailures = 2
  MaxEnds = 1
INVARIANTS TypeOK NothingLost CommittedStored NoSendOnClosed DoneIsDrained
PROPERTIES AcceptedStored
