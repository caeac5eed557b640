SPECIFICATION Spec
CONSTANTS
  a = a
  b = b
  r = r
  Node <- Machines
  LittleEndian <- Laptops
  Embedded = {r}
  Servers <- MCServers
  MaxHosts = 2
  Shown = 1
  BeatsOfAddresses = 3
  BeatsOfGateways = 2
  BeatsOfDisplay = 3
  Plans <- MCPlans
INVARIANTS TypeOK ArpRight ConflictsApart ServersOfOneGateway ShownIsFresh
PROPERTIES FirewallFollows
CHECK_DEADLOCK FALSE
