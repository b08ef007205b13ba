SPECIFICATION LiveSpec
CONSTANTS
  MaxClients = 3
  Backlog = 2
  MayFail = TRUE
INVARIANTS
  TypeOK
  FreedOnce
  BusyMeansServed
PROPERTIES
  AcceptedIsServed
  ConnectionIsAccepted
