CONSTANTS
  Requests = {p1, p2}
  NoRequest = none
  NumPages = 2
  MaxFailures = 1
  MaxCrashes = 2
SPECIFICATION FairSpec
INVARIANTS TypeOK PreparedPages AnswerReadable AnsweredLeavesNothing
PROPERTIES RequestTaken
CHECK_DEADLOCK FALSE
