\* The same query with an uninitialised lastQueryIndex_, callbacks up to two
\* intervals late, and a clock that is once set back by up to an interval.
SPECIFICATION Spec
CONSTANTS
  Rate = 4
  QueryBin = 4
  NoiseBin = 2
  MaxDuration = 8
  MaxClamp = FALSE
  Freqs = {f1}
  InitIndex = {0, 1, 15}
  InitSequence = {5}
  Word = 16
  StartTimes = {6}
  MaxTime = 20
  MaxLate = 9
  MaxStepBack = 2
  MaxAdjustments = 1
  MaxAge = 2
  MaxAhead = 2
  Ids = {"s1", "s2"}
INVARIANTS TypeOK TimerFollowsQuery ConsecutiveSequences NothingMeasuredTwice
  EnergyReported NoPhantomEnergy
CHECK_DEADLOCK FALSE
