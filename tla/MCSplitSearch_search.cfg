CONSTANTS
  k = k
  l = l
  x = x
  y = y
  NoSummary = NoSummary
  Sets <- MCSets
  Requests <- MCRequests
  DescentWave = 2
SPECIFICATION Spec
INVARIANTS
  PageIsAnswer
  EstimateBounds
