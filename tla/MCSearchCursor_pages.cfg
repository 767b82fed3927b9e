CONSTANTS
  k1 = k1
  k2 = k2
  k3 = k3
  PerBucket = 2
  KeyBatch = 1
  Queries <- MCQueries
  WindowsPerCall = 3
  PageSizes = {1, 3}
  Everything = 100
  Perm <- MCPerm
  MaxFaults = 1
  Faulty = {"opening", "scanning", "loading"}
SPECIFICATION LiveSpec
INVARIANTS
  PrefixOfAnswer
  NothingForeignNothingLost
PROPERTIES
  EveryCallReturns
