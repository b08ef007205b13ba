SPECIFICATION LiveSpec
CONSTANTS
  MaxRequests = 3
  MaxRuns = 2
CHECK_DEADLOCK FALSE
INVARIANTS
  TypeOK
  RequestPending
PROPERTIES
  LatestTried
  TriedAgain
