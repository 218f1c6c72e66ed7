SPECIFICATION WizardSpec
CONSTANTS
  r1 = r1
  r2 = r2
  r3 = r3
  b1 = b1
  b2 = b2
  secret = secret
  title = title
  Unset = Unset
  FromFile = FromFile
  Old = Old
  None = None
  Requests <- TwoRequests
  Browsers <- OneBrowser
  Operator = b1
  Settings <- SecretOnly
  Typed <- SecretOnly
  Secrets <- SecretOnly
  Required <- SecretOnly
  Protected <- SecretOnly
  Generated = secret
  FormsKept = 1
  InitialFiles <- Configured
CHECK_DEADLOCK FALSE
PROPERTIES
  FoldNeverStale
