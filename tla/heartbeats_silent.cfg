SPECIFICATION Spec
CONSTANTS
  here = here
  there = there
  bcast = bcast
  Bcast = bcast
  Ignored = {}
  Node <- TwoNodes
  Addresses <- Different
  Reach <- MostlyHere
  Sniffers <- JustHere
  DistanceCapacity = 2
  StatCapacity = 3
  ExpiryTicks = 2
  Counts = 16
  Tolerance = 5
  Near = 101
  MaxHosts = 2
  MaxTimer = 2
  MaxBeats <- FewBeats
  MaxCopies = 1
  MaxAir = 2
  MaxQueue = 1
PROPERTIES
  SilentHostsFar
CHECK_DEADLOCK FALSE
