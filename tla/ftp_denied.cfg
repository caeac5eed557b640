SPECIFICATION Spec
CONSTANTS
  c1 = c1
  c2 = c2
  photo = photo
  note = note
  dot = dot
  Client <- TwoClients
  File <- PhotoAndNote
  Size <- Sizes
  BlockSize = 2
  Missing <- NoFiles
  ControlTicks = 1
  LockTicks = 1
  DataTicks = 1
  MaxTicksRx = 1
  MaxTicksTx = 1
  MaxTicksComplete = 1
  Addresses <- Known
  Copies = 1
  MaxNet = 2
  MaxDownloads = 1
  MaxTransfers = 1
  MaxSeq = 5
INVARIANTS
  DeniedStaysOut
CHECK_DEADLOCK FALSE
