CONSTANTS
  Calls = {r1, r2}
  JobIds = {j1, j2}
  Options = {o1, o2}
  NoJob = nojob
  NoOption = nooption
  MaxWrites = 2
  MaxFailures = 1
SPECIFICATION FairSpec
INVARIANTS TypeOK CompletedIntact KeyAnswersAgree SessionLeavesNothing
PROPERTIES VerdictStands ExpiredSessionGoes
CHECK_DEADLOCK FALSE
