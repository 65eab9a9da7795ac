SPECIFICATION Spec
CONSTANTS
  a1 = a1
  a2 = a2
  b1 = b1
  u1 = u1
  u2 = u2
  NoUser = NoUser
  Users = {b1, u1}
  Lenders = {u1}
  Apps = {a1, a2}
  Verified = {b1}
  Keys = {k1}
  Amounts = {1}
  Handlers = {h1, h2}
  Sweeper = Sweeper
  Owner <- OrphanOwner
  Target <- UnitTargets
  InitBalance <- PairBalance
  MinInvest = 1
  MaxInvest = 3
  TopUps = {}
  SweepLimit = 1
  MaxDeposits = 0
  MaxReviews = 3
  MaxFailures = 1
PROPERTIES
  ApprovalIsCarriedOut
CHECK_DEADLOCK FALSE
