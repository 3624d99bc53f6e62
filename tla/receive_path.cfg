\* Two messages and two events; limits of two.
SPECIFICATION ReceiveSpec
CONSTANTS
  Nems = {"n1", "n2"}
  Messages <- MCMessages
  Skews <- MCSkews
  Delays = {1, 3}
  MaxOffset = 2
  MaxPropagation = 2
  MaxDuration = 2
  TimeSyncThreshold = 2
  GainAnswers = {"success", "horizon"}
  FadingAlgorithms = {"nakagami"}
  FadingSelections = {"nakagami", "none", "lognormal"}
  MaxMessages = 2
  MaxEvents = 2
INVARIANTS ReceiveTypeOK EnergyWithinWindow EnergyIsPrefix
CHECK_DEADLOCK FALSE
