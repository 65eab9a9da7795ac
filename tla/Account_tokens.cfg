CONSTANTS
  Users = {u1}
  Requests = {r1}
  Tokens = {t1, t2, t3}
  Consumers = {c1, c2}
  NoUser = NoUser
  NoToken = NoToken
  sessionTTL = 1
  verifyTokenTTL = 2
  resetTokenTTL = 1
  MaxTime = 2
  MaxFailures = 0
  lockoutDurationFor <- ShortLocks
SPECIFICATION Spec
SYMMETRY TokenSymmetry
INVARIANTS HonouredOnce OneLiveToken
CHECK_DEADLOCK FALSE
