SPECIFICATION Spec
CONSTANTS
  PeriodSize = 4
  PeriodCount = 4
  StartThreshold = 8
  ScoFrames = 1
  ScoBuffer = 4
  MaxWritten = 30
INVARIANTS
  PositionConsistent
PROPERTIES
  PositionMonotone
