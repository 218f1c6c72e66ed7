SPECIFICATION FilesSpec
CONSTANTS
  i1 = i1
  i2 = i2
  d1 = d1
  d2 = d2
  None = None
  Ids <- TwoIds
  DocIds <- TwoDocs
  Caps <- WebOnly
  Sizes <- OneSize
  MaxBytes = 2
  MaxMessage = 2
  TTL = 1
  StaleAfter = 1
  Lag = 1
  Horizon = 2
INVARIANTS
  DocumentsOnDisk
  NoStrandedDirs
  FinishedKeepsOnlyDocuments
  DownloadFindsFile
SYMMETRY SymmetryTwo
