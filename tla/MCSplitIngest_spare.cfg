CONSTANTS
  d1 = d1
  d2 = d2
  d3 = d3
  b1 = b1
  Docs <- MCTwoDocs
  Keyless <- MCKeyless
  BaseDocs <- MCOneBase
  MaxCrashes = 1
  MaxCompacts = 1
  MaxDeletes = 1
  SpareNewest = TRUE
  OnlyAdjacent = TRUE
  WithReader = TRUE
SPECIFICATION LiveSpec
CHECK_DEADLOCK FALSE
INVARIANTS
  ManifestResolves
  AckedIsFindable
  ReaderSeesSnapshot
  DeletedStaysDeleted
PROPERTIES
  IdsNeverReissued
  PublishedFilesImmutable
  ImplementsDocStore
  EveryDocAcked
