SPECIFICATION Spec
CONSTANTS
  a1 = a1
  d1 = d1
  d2 = d2
  w1 = w1
  w2 = w2
  w3 = w3
  Apps = {a1}
  AppOf <- OneApp
  NoDoc = NoDoc
  Docs = {d1, d2}
  ContentOf <- AllDifferent
  Deleters = {h1}
  Workers = {w1, w2, w3}
  HasTool <- SomeTools
  maxDocumentsPerApp = 1
  MaxMishaps = 2
INVARIANTS
  OneWorkerEach
  DoneIffVerified
  FilesMatchRows
PROPERTIES
  OcrGoesForward
  TakenUp
CHECK_DEADLOCK FALSE
