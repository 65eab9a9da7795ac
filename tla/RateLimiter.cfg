CONSTANTS
  Keys = {k1, k2}
  Callers = {c1, c2}
  capacity = 2
  perWindow = 2
  Window = 4
  Second = 1
  GCInterval = 5
  MaxDelay = 1
  MaxTime = 9
SYMMETRY Symmetry
SPECIFICATION Spec
INVARIANT TypeOK
PROPERTIES LimitHolds RetryIsEnough
CHECK_DEADLOCK FALSE
