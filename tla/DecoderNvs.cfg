SPECIFICATION Spec
CONSTANTS
  Jobs <- NvsJobs
  MaxPacket = 5
  Heads <- MCHeads
  MaxHead = 4
  Need <- MCNeed
  Width <- MCWidth
  MinDensity = 2
  LineDots = 9
  Flag = 4
  Limit = 2
  StartLines = 1
  DecodeMax = 6
  Inflate <- MCInflate
INVARIANT DecodedInOrder
CHECK_DEADLOCK FALSE
