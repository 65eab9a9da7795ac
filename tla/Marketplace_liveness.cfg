SPECIFICATION FairSpec
CONSTANTS
  a1 = a1
  a2 = a2
  b1 = b1
  u1 = u1
  u2 = u2
  NoUser = NoUser
  Users = {b1, u1, u2}
  Lenders = {u1, u2}
  Apps = {a1, a2}
  Verified = {b1}
  Keys = {k1}
  Amounts = {1}
  Handlers = {h1}
  Sweeper = Sweeper
  Owner <- SameOwner
  Target <- WideTargets
  InitBalance <- PairBalances
  MinInvest = 1
  MaxInvest = 3
  TopUps = {}
  SweepLimit = 1
  MaxDeposits = 0
  MaxReviews = 1
  MaxFailures = 2
PROPERTIES
  ExpiredIsSettled
  EveryJobEnds
CHECK_DEADLOCK FALSE
