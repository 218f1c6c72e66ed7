SPECIFICATION DoorSpec
CONSTANTS
  MaxParts = 3
  MaxDepth = 1
  MaxPDFs = 2
  ProfileTexts <- MCProfileTexts
  Domains <- MCDomains
  Inputs <- MCInputs
  Senders <- MCSenders
  Recipients <- MCRecipients
  Claims <- MCClaims
  Browsers = {b1, b2}
  MaxLogins = 2
  SessionTTL = 1
  MaxTime = 1
SYMMETRY Interchangeable
CHECK_DEADLOCK FALSE
INVARIANTS
  DroppedHadNothing
  KeptIsWhatWasSent
  AcceptedAsConfigured
  LoadedIsSound
  ShownToItsPeople
PROPERTIES
  EndedSessionsAdmitNobody
