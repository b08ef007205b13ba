SPECIFICATION Spec
CONSTANTS
  Papers <- MCPapers
  Labels = 7
  Distance = 105
  MaxHeight = 2400
  Dark = 100
  Light = 900
  FirstThreshold = 500
  Doubtful <- MCDoubtful
  Settling = 4
  MaxBacking = 280
CHECK_DEADLOCK FALSE
INVARIANTS
  TypeOK
  LabelMeasured
  ThresholdApart
  EndOfLabelsSeen
  EveryLabelTurns
PROPERTIES
  LengthMeasured
  TurnsAtLabel
  OneTurnPerLabel
