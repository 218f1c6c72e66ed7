SPECIFICATION DeliverySpec
CONSTANTS
  None = None
  MaxAttempts = 2
  BaseBackoff = 1
  MaxWait = 4
  Second = 2
  Width = 8
  Headers <- RetryHeaders
  Messages <- Shapes
  MaxGraphMessage = 16
  MaxAttachment = 9
  Floor = 12
  ChunkSize = 15
  Overhead = 1
  PollInterval = 3
  SearchableSizes <- Searchable
  Recognizable <- Plain
CHECK_DEADLOCK FALSE
INVARIANTS
  DeliveryTypeOK
  MailedIsWhole
  AsksWhatGraphTakes
PROPERTIES
  KeepsPromise
  JobEnds
