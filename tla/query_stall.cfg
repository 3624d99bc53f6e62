\* The layer's thread runs a callback up to two intervals late; a window of two
\* intervals is longer than MaxDuration and is not clamped.
SPECIFICATION FairSpec
CONSTANTS
  Rate = 4
  QueryBin = 4
  NoiseBin = 2
  MaxDuration = 4
  MaxClamp = FALSE
  Freqs = {f1}
  InitIndex = {0}
  InitSequence = {0}
  Word = 8
  StartTimes = {6}
  MaxTime = 18
  MaxLate = 5
  MaxStepBack = 0
  MaxAdjustments = 0
  MaxAge = 2
  MaxAhead = 2
  Ids = {"s1"}
PROPERTY KeepsQuerying
CHECK_DEADLOCK FALSE
