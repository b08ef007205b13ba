SPECIFICATION Spec
CONSTANTS
  Papers <- MCTenMillimetres
  Labels = 8
  Distance = 105
  MaxHeight = 2400
  Dark = 100
  Light = 900
  FirstThreshold = 500
  Doubtful = {}
  Settling = 2
  MaxBacking = 280
CHECK_DEADLOCK FALSE
PROPERTY OneTurnPerLabel
