\* One message in two parts, none lost, within a second; the timeout's memory is zero.
SPECIFICATION Spec
CONSTANTS
  Messages <- SplitMessages
  PartSize = 4
  PartCheckThreshold = 2
  PartTimeouts = {0, 5}
  MaxTime = 0
  MaxDuplicates = 0
  MaxMalformed = 0
INVARIANT EachFrameRecorded
CHECK_DEADLOCK FALSE
