SPECIFICATION ApplianceSpec
CONSTANTS
  i1 = i1
  i2 = i2
  i3 = i3
  c1 = c1
  w1 = w1
  d1 = d1
  d2 = d2
  None = None
  Ids <- TwoIds
  Conns <- OneConn
  Workers <- OneWorker
  DocIds <- OneDoc
  Caps <- EmailOrWeb
  Sizes <- OneSize
  MaxBytes = 2
  MaxMessage = 1
  TTL = 1
  StaleAfter = 0
  Lag = 0
  Horizon = 1
  QueuePerWorker = 1
  MaxGeneration = 3
CHECK_DEADLOCK FALSE
INVARIANTS
  AbortedOrCommitted
  EverythingHasAnOwner
PROPERTIES
  ScanBelongsToItsTransaction
SYMMETRY TwoIdsAlike
