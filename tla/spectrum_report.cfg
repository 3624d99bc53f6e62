\* Two messages, two intervals of two bins, callbacks up to an interval minus one
\* instant late, a clock set back once.
SPECIFICATION FairReportSpec
CONSTANTS
  Rate = 4
  QueryBin = 2
  NoiseBin = 2
  MaxDuration = 4
  MaxClamp = FALSE
  Freqs <- MCFreqs
  InitIndex = {0}
  InitSequence = {0}
  Word = 16
  StartTimes = {6}
  MaxTime = 13
  MaxLate = 3
  MaxStepBack = 1
  MaxAdjustments = 1
  MaxAge = 3
  MaxAhead = 7
  Ids <- MCIds
  Nems = {"n1"}
  Messages <- MCMessages
  Skews <- MCSkews
  Delays = {1}
  MaxOffset = 1
  MaxPropagation = 1
  TimeSyncThreshold = 1
  GainAnswers = {"success"}
  FadingAlgorithms = {"nakagami"}
  FadingSelections = {"none"}
  MaxMessages = 2
  MaxEvents = 1
INVARIANTS SuccessIsReported ReportedWasReceived NothingLost
PROPERTY KeepsQuerying
CHECK_DEADLOCK FALSE
