SPECIFICATION LiveSpec
CONSTANTS
  StartLines = 3
  Limit = 5
  Acc = 2
  Edge = 3
  DropLimit = 1
  MaxHeight = 6
  Distance = 4
  Lengths <- MCLengths
  Tries = 1
  Blank = Blank
  DataTries = 1
  MaxLines = 7
  MaxPages = 2
  MaxGaps = 1
  MaxFaults = 1
INVARIANTS
  TypeOK
  HeatsOnlyInPrintRun
  TaskActsAtRest
PROPERTIES
  ImplementsSpool
  BacklogDrains
  MotorStops
