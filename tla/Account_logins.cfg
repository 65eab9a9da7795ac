CONSTANTS
  Users = {u1}
  Requests = {r1, r2}
  Tokens = {t1}
  Consumers = {c1}
  NoUser = NoUser
  NoToken = NoToken
  sessionTTL = 1
  verifyTokenTTL = 2
  resetTokenTTL = 1
  MaxTime = 3
  MaxFailures = 3
  lockoutDurationFor <- ShortLocks
SPECIFICATION Spec
SYMMETRY LoginSymmetry
INVARIANTS LockFollowsFailures OldSessionsAreLate
PROPERTY LocksHold
CHECK_DEADLOCK FALSE
