CONSTANTS
  d1 = d1
  d2 = d2
  d3 = d3
  b1 = b1
  Docs <- MCMixedDocs
  Keyless <- MCKeyless
  BaseDocs <- MCOneBase
  MaxCrashes = 1
  MaxCompacts = 1
  MaxDeletes = 1
  SpareNewest = FALSE
  OnlyAdjacent = FALSE
  WithReader = FALSE
SPECIFICATION Spec
CHECK_DEADLOCK FALSE
PROPERTIES
  IdsNeverReissued
