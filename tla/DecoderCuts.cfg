SPECIFICATION FairSpec
CONSTANTS
  Jobs <- MCJobs
  MaxPacket = 5
  Heads <- MCHeads
  MaxHead = 4
  Need <- MCNeed
  Width <- MCWidth
  MinDensity = 2
  LineDots = 9
  Flag = 4
  Limit = 2
  StartLines = 1
  DecodeMax = 6
  Inflate <- MCInflate
INVARIANTS
  TypeOK
  DecodedInOrder
  RemainderSmall
  DotsInLine
PROPERTIES
  BlocksStandAlone
  ImplementsStream
  JobCompleted
CHECK_DEADLOCK FALSE
