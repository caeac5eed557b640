SPECIFICATION FairSpec
CONSTANTS
  c1 = c1
  c2 = c2
  photo = photo
  note = note
  dot = dot
  Client <- OneClient
  File <- AllFiles
  Size <- Sizes
  BlockSize = 2
  Missing <- JustNote
  ControlTicks = 1
  LockTicks = 2
  DataTicks = 1
  MaxTicksRx = 1
  MaxTicksTx = 1
  MaxTicksComplete = 1
  Addresses <- KnownOrBlank
  Copies = 2
  MaxNet = 2
  MaxDownloads = 1
  MaxTransfers = 2
  MaxSeq = 7
INVARIANTS
  TypeOK
PROPERTIES
  DownloadEnds
  EofNoticed
  ImplementsFileCopy
  RequestsAdvance
CHECK_DEADLOCK FALSE
