SPECIFICATION PromptSpec
CONSTANTS
  Traffic <- JobTraffic
  JobLen = 2
  OwnerLimit <- Limits
  OtherLimit = 1
  Restart = 1
  PrintLimit = 1
  StartLines = 0
  MaxLines = 1
  MaxChunks = 2
  RestLimit = 1
  Timeout = 1
  MaxStamps = 0
  MaxDrops = 0
INVARIANT JobsNotInterleaved
