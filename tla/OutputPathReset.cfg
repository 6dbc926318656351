SPECIFICATION Spec
CONSTANTS
  PeriodSize = 8
  SamplingRate = 689
  ScoFrames = 2
  ScoBuffer = 16
  Word = 4096
  Garbage <- MCGarbage
  PlayUnit = 3
PROPERTIES
  ResetJustAboveFill
