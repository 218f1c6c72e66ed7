SPECIFICATION WizardSpec
CONSTANTS
  r1 = r1
  r2 = r2
  r3 = r3
  b1 = b1
  b2 = b2
  secret = secret
  title = title
  Unset = Unset
  FromFile = FromFile
  Old = Old
  None = None
  Requests <- ThreeRequests
  Browsers <- TwoBrowsers
  Operator = b1
  Settings <- SecretAndTitle
  Typed <- SecretOnly
  Secrets <- SecretOnly
  Required <- SecretOnly
  Protected <- SecretOnly
  Generated = secret
  FormsKept = 1
  InitialFiles <- AnyFile
CHECK_DEADLOCK FALSE
SYMMETRY ThreeAlike
INVARIANTS
  FormsAreTheHolders
  FileAndMemoryAgree
PROPERTIES
  SavedSecretIsOwnOrCurrent
  UntouchedBoxesAreKept
