SPECIFICATION Spec
CONSTANTS
  Ids = {1, 2}
  Versions = {1, 2}
  Api = api
  Workers = {w1}
  Pgvector = TRUE
  MaxEdits = 1
  MaxRuns = 3
  MaxFaults = 2
INVARIANTS
  VectorsFollowNotes
  ApiIsCurrent
  RunStoresFiles
CHECK_DEADLOCK FALSE
