SPECIFICATION FairSpec
CONSTANTS
  l1 = l1
  l2 = l2
  Loans = {l1}
  Schedule <- OneSchedule
  DueDay <- OneDueDay
  Lots <- OneLots
  Lent <- Lent7
  Handlers = {h1}
  Sweepers = {s1}
  LastDay = 3
  MaxFailures = 2
PROPERTIES
  LateIsMarked
  StatusCatchesUp
CHECK_DEADLOCK FALSE
