\* Three messages and three updates; the socket holds one message.
SPECIFICATION FairAnalyzerSpec
CONSTANTS
  Keys <- MCKeys
  Subids <- MCSubids
  SubidOf <- MCSubidOf
  FreqOf <- MCFreqOf
  Powers = {0, 1, 2}
  Messages <- MCMessages
  QueueLimit = 1
  MaxMessages = 3
  MaxCalls = 3
  HzStep = 2
  HzMin = 5
  HzMax = 8
  NoiseFloor = 1
  WithWaveforms = TRUE
  Depth = 2
  None = None
INVARIANTS TypeOK NothingLost ResultHasBandwidth WaterfallsAligned EnergyShown UpdatesSucceed
PROPERTIES DataReturnsUnlessFailed ImplementsMaxHold
CHECK_DEADLOCK FALSE
