SPECIFICATION Spec
CONSTANTS
  i1 = i1
  i2 = i2
  i3 = i3
  d1 = d1
  Ids <- MCIds
  DocIds <- MCDocIds
  Caps <- MCCaps
  Sizes <- MCSizes
  MaxBytes = 4
  MaxMessage = 2
  TTL = 2
  StaleAfter = 1
  Lag = 1
  Horizon = 3
SYMMETRY Symmetry
INVARIANTS
  TypeOK
  BudgetAccounting
  PromisesFit
  HeldFits
PROPERTIES
  EvictsInTurn
  TombstoneKeepsDeadline
