SPECIFICATION Spec
CONSTANTS
  a = a
  b = b
  c = c
  d = d
  e = e
  g = g
  bcast = bcast
  mdns = mdns
  igmp = igmp
  Bcast = bcast
  Group <- Groups
  Ignored <- Skipped
  Node <- FourNodes
  Neighbour <- Diamond
  InitialTables <- DiamondStart
  Times <- OneTime
  Traffic <- Mixed
  Commands <- AllCommands
  Alpha = 20
  Beta <- MinusTwenty
  Second = 10
  Window = 1
  Word = 16
  Micros <- MCMicros
  NetFrac <- PlainFrac
  DistanceCapacity = 1
  StatCapacity = 1
  ExpiryTicks = 2
  Counts = 2
  PathCapacity = 2
  Byte = 2
  MaxPackets = 1
  MaxCopies = 1
  MaxAir = 1
  MaxCommands = 2
  MaxSession = 1
INVARIANTS
  ListsBounded
  PathsAreWalks
  TypeOK
CHECK_DEADLOCK FALSE
