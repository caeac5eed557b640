SPECIFICATION FairSpec
CONSTANTS
  a = a
  b = b
  c = c
  d = d
  e = e
  g = g
  bcast = bcast
  mdns = mdns
  igmp = igmp
  Bcast = bcast
  Group <- Groups
  Ignored <- Skipped
  Node <- SixNodes
  Neighbour <- LineOf6
  InitialTables <- EmptyStart6
  Times <- OverSeconds
  Traffic <- OneBroadcast
  Commands <- NoCommands
  Alpha = 20
  Beta <- MinusTwenty
  Second = 10
  Window = 1
  Word = 16
  Micros <- MCMicros
  NetFrac <- SwappedFrac
  DistanceCapacity = 2
  StatCapacity = 3
  ExpiryTicks = 2
  Counts = 2
  PathCapacity = 3
  Byte = 256
  MaxPackets = 2
  MaxCopies = 1
  MaxAir = 2
  MaxCommands = 0
  MaxSession = 0
INVARIANTS
  StampsAreReal
  PathTrace
PROPERTIES
  FloodsEnd
  StampsStayRecent
  FloodsShrink
  ImplementsMesh
CHECK_DEADLOCK FALSE
