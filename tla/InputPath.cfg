SPECIFICATION FairSpec
CONSTANTS
  InPeriod = 4
  LowPeriod = 2
  ScoPeriod = 2
  InRate = 5
  ScoRate = 2
  Rates = {2, 3, 5, 7}
  Align = 2
  Need = 3
  MaxCaptured = 9
INVARIANTS
  BufferFits
  InOrder
  ResultHonest
PROPERTIES
  ReadReturns
