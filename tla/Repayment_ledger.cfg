SPECIFICATION Spec
CONSTANTS
  l1 = l1
  l2 = l2
  Loans = {l1, l2}
  Schedule <- TwoSchedules
  DueDay <- TwoDueDays
  Lots <- TwoLots
  Lent <- Lent5And2
  Handlers = {h1, h2}
  Sweepers = {s1, s2}
  LastDay = 3
  MaxFailures = 0
SYMMETRY ProcessSymmetry
INVARIANTS
  TypeOK
  MoneyReachesLenders
  PrincipalIsPaidOnce
  LentComesBack
  ProgressIsRight
  UnsettledIsPayable
  OverdueDaysAreFact
PROPERTIES
  OverdueUntilPaid
  PaidIsFinal
CHECK_DEADLOCK FALSE
