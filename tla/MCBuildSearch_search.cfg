CONSTANTS
  k = k
  l = l
  m = m
  x = x
  y = y
  NoSummary = NoSummary
  Keys = {k, l, m}
  Cats = {x, y}
  Docs <- MCDocs
  Configs <- MCConfigs
  Requests <- MCRequests
  Stride = 2
  AlwaysMaybe = {l}
  WordBits = 8
  MaxDocs = 5
  DescentWave = 2
SPECIFICATION Spec
CHECK_DEADLOCK FALSE
INVARIANTS
  SealedFits
  FittingCorpusBuilds
  BuiltSetAnswers
