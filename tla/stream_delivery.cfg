CONSTANTS
  PageLimit = 2
  Polls = {p1}
  RefreshSlot = refresh
  MaxEvents = 4
  MaxLosses = 2
SPECIFICATION FairSpec
INVARIANTS TypeOK StopsAtTheEnd
PROPERTIES EveryEventOnce EndIsShown
CHECK_DEADLOCK FALSE
