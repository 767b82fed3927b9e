CONSTANTS
  c1 = c1
  c2 = c2
  f1 = f1
  f2 = f2
  f3 = f3
  a = a
  b = b
  big = big
  NoRead = NoRead
  Callers = {c1, c2}
  Reads = {f1, f2, f3}
  Keys <- MCKeys
  Size <- MCSize
  Limits = {0, 1}
  InitLimit = 1
  Budgets = {0, 1, 3}
  MaxClock = 3
  SweepAt = 1
SPECIFICATION LiveSpec
INVARIANTS
  PermitAccounting
  NoLostWakeup
  OneFetchPerRange
  PermitsHaveReaders
PROPERTIES
  ImplementsLru
  EveryReadReturns
