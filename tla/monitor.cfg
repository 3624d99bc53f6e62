\* Command lines of up to three options, two signals, one other gain.
SPECIFICATION FairPhySpec
CONSTANTS
  CommandLines <- MCCommandLines
  Defaults <- MCDefaults
  Signals <- MCSignals
  MaxSignals = 2
  MaxOptions = 3
  PhyDefaults <- MCPhyDefaults
  Gains = {2}
  Pointings = {"p1", "p2"}
INVARIANTS PhyTypeOK ParameterPrecedence NemIdPrecedence StopsOnlyWhenSignalled  FailedStartKeepsRecording
PROPERTY StopsWhenSignalled
CHECK_DEADLOCK FALSE
