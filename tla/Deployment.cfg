SPECIFICATION Spec
CONSTANTS
  LastFile = 5
  Narrow = 2
  Pii = 3
  Widen = 4
  Verify = 5
  Bases = {1, 5}
  Replicas = {r1, r2}
  Users = {u1}
  Rows = {a1, a2}
  MaxAccidents = 2
INVARIANTS
  RecordedRan
  DoneIsUpToDate
  VerifiedByToken
  NothingInClear
PROPERTIES
  AppliedOnce
  DeploymentSucceeds
