SPECIFICATION Spec
CONSTANTS
  LastFile = 5
  Narrow = 2
  Pii = 3
  Widen = 4
  Verify = 5
  Bases = {4}
  Replicas = {r1, r2}
  Users = {u1}
  Rows = {a1, a2}
  MaxAccidents = 0
INVARIANTS
  OldDatabaseIsComplete
