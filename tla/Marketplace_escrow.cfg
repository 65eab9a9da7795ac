SPECIFICATION Spec
CONSTANTS
  a1 = a1
  a2 = a2
  b1 = b1
  u1 = u1
  u2 = u2
  NoUser = NoUser
  Users = {b1, u1, u2}
  Lenders = {u1, u2}
  Apps = {a1, a2}
  Verified = {b1, u2}
  Keys = {k1, k2}
  Amounts = {2}
  Handlers = {h1, h2}
  Sweeper = Sweeper
  Owner <- TwoOwners
  Target <- TwoTargets
  InitBalance <- OneLenderBalance
  MinInvest = 1
  MaxInvest = 2
  TopUps = {1}
  SweepLimit = 1
  MaxDeposits = 1
  MaxReviews = 2
  MaxFailures = 0
SYMMETRY RequestSymmetry
INVARIANTS
  IInv
  FundedMatchesInvestments
  MoneyIsConserved
  ReviewTrail
  TablesAgree
  RefundsAreComplete
PROPERTIES
  ClosedListingIsFrozen
  EscrowSpec
CHECK_DEADLOCK FALSE
