CONSTANTS
  Events = 2
  Junk = {0}
  NumPartitions = 1
  Dispatchers = {d1, d2}
  Workers = {w1, w2}
  Nobody = nobody
  Limit = 2
  MaxFaults = 1
SPECIFICATION Spec
INVARIANTS TypeOK MarkedIsSent CommittedDone
CHECK_DEADLOCK FALSE
PROPERTIES SettledGroupFinishes
