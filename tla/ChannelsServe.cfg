SPECIFICATION FairSpec
CONSTANTS
  Traffic <- MCTraffic
  JobLen = 2
  OwnerLimit <- Limits
  OtherLimit = 1
  Restart = 1
  PrintLimit = 1
  StartLines = 0
  MaxLines = 1
  MaxChunks = 2
  RestLimit = 1
  Timeout = 1
  MaxStamps = 1
  MaxDrops = 1
INVARIANTS
  TypeOK
  ExactlyOnceInOrder
  UsbNotStranded
  SppHeldIsMarked
  SppSectionsDisjoint
  ListsBounded
  OwnerFeeds
PROPERTIES
  ImplementsPort
  EverythingDelivered
  PeersReleased
