CONSTANTS
  NoDir = NoDir
  NoDigest = NoDigest
  NoPresence = NoPresence
  Absent = Absent
  Failed = Failed
  PerBucket = 2
  Prefix = 3
  SpanGap = 1
  SeedRatio = 2
  PricingGap = 0
  IntraGap = 1
  EagerLimit = 20
  TopN = 1
  Panels <- MCPanels
  Calls <- MCCalls
SPECIFICATION Spec
INVARIANTS
  PanelCountsAreExact
  PairCountsAreExact
  FilterIsExact
