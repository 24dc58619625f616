CONSTANTS
  Clients = {c1, c2}
  Missing = missing
  Gone = gone
  NumPages = 1
  MaxPageRetries = 0
  MaxJobAttempts = 2
  MaxSaves = 9
SPECIFICATION Spec
INVARIANTS TypeOK SuccessIsFinal
PROPERTIES ImplementsAtomicJob
CHECK_DEADLOCK FALSE
