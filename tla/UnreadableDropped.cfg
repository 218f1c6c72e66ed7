SPECIFICATION ScanSpec
CONSTANTS
  MaxParts = 4
  MaxDepth = 2
  MaxPDFs = 2
CHECK_DEADLOCK FALSE
INVARIANTS
  UnreadableIsRefused
