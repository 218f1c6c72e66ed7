SPECIFICATION RunSpec
CONSTANTS
  r1 = r1
  r2 = r2
  b1 = b1
  secret = secret
  Unset = Unset
  FromFile = FromFile
  Old = Old
  None = None
  Torn = Torn
  Requests <- TwoRequests
  Browsers <- OneBrowser
  Operator = b1
  Settings <- SecretOnly
  Typed <- SecretOnly
  Secrets <- SecretOnly
  Required <- SecretOnly
  Protected <- SecretOnly
  Generated = secret
  FormsKept = 1
  InitialFiles <- EmptyOrConfigured
  MaxStarts = 2
  MaxTokens = 1
CHECK_DEADLOCK FALSE
INVARIANTS
  DoorStaysShut
  MarkerOpensOnce
PROPERTIES
  SavedIsServed
